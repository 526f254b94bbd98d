SPECIFICATION Spec
CONSTANTS
  Positions = {1, 2}
  Signals = {"g", "h"}
  NoKey = "null"
  KeyOf <- MCKeyOf
  v1 = v1
  v2 = v2
  k1 = k1
  k2 = k2
  Versions = {v1, v2}
  Keys = {k1, k2}
  Accounts = {a1, a2}
  Nonces = {n1, n2}
  Signers <- MCSigners
  None = None
  Targets = {"suspended", "paper_active"}
  MaxEvents = 3
  MaxEntries = 2
  Slots = 2
  GuardianFrom = 2
  CloseFrom = 3
  LastTick = 4
  Cutoff = 2
  StaleTicks = 2
  MinCycles = 2
  MaxNew = 2
  Confirmations = {0, 2}
  MaxFaults = 2
  MaxManual = 1
INVARIANTS
  StageOnSoundStore
  VersionHonest
  RequestUsedOnce
  SubmittedUnderActivation
  OvertakenOnce
  GatePassMeansWorked
  HealthPassMeansWorked
  ProposalsCapped
PROPERTY NoEntryAfterFlat
SYMMETRY Interchangeable
CHECK_DEADLOCK FALSE
