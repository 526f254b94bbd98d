SPECIFICATION Spec
CONSTANTS
    LastBar = 7
    BarsPerDay = 3
    SplitSlot = 2
    LastEntrySlot = 2
    ImpulseBars = 1
    Warmup = 0
    MaxSessions = 1
    Retention = 1
    Directions = {"long", "short"}
    KZones = {"none", "low", "at20", "at80", "high"}
    MaxLevels = 2
    MaxGaps = 1
    SideBars = 1
INVARIANTS LevelsAgree Parity RepeatConfirmsNothing
CHECK_DEADLOCK FALSE
