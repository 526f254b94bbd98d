SPECIFICATION Spec
CONSTANTS
  Candidates = {"A", "B", "C"}
  Others = {"A"}
  Confirmation <- MCConfirmation
  Stakes <- MCStakes
  Quotes = {202, 203}
  Slips <- MCSlips
  Equities = {8000, 7900, 7840}
  StartEquity = 8000
  OneDollar = 200
  HighTick = 4
  LowTick = 2
  MaxTradesPerDay = 2
  MaxPositions = 5
  MaxCycles = 2
  MaxMoves = 1
INVARIANTS CashUsedOnce HealthyWithinRisk HealthyPaysTwice
CHECK_DEADLOCK FALSE
