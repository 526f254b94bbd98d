SPECIFICATION Spec
CONSTANTS
    Shapes <- MCShapes
    ChunkLen = 2
    Chunks = 3
    MonitorEvery = 2
    Expirations = {1, 2, 3}
    Entry = 100
    Stop = 50
    Target = 200
    Atr = 40
    Symbols = {a, b}
    LastDay = 4
    CutDay = 2
    Agreement = "begun"
    MaxPositions = 1
    MaxNewPerDay = 1
    StartingEquity = 5
    Share = 2
    LossLimit = 10
    Stake = 1
    Tickers = {1, 2}
    Bil = 1
    Spy = 2
    Quotes = {1, 2}
    EndDay = 5
    RebalanceDays = {1, 3}
    SlotChoices = {1, 2}
    Capital = 6
    FeePerMille = 100
    StopGap = 1
    MaxHold = 2
    SmaWindow = 2
    Names = {p, q, r}
    Scenarios <- MCScenarios
    OrbLookback = 1
    OrbLastSession = 3
    TopN = 2
    OpeningBars <- MCOpeningBars
    Mornings <- MCMornings
    LegCost = 1
INVARIANTS
    PrefillChangesNothing
    NoLookAhead
    BooksBalance
    HeldTooLongOnlyAfterGap
SYMMETRY Symmetry
CHECK_DEADLOCK FALSE
