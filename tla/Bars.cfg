CONSTANTS
    Symbols = {"AAPL"}
    LastSlot = 6
    SlotsPerDay = 3
    LookbackDays = 5
    MinOverlapBars = 1
    MinRebuildBars = 3
    Evidence = {"none", "right", "wrong"}
    Faults = {"crash", "fetch", "slow"}
    MaxFaults = 2
    MaxMissing = 1
SPECIFICATION FairSpec
INVARIANTS OneSignalPerSession LostOnlyByCrash
PROPERTIES EntriesOnOneScale 
CHECK_DEADLOCK FALSE
