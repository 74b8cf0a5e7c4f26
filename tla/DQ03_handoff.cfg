CONSTANTS
    e1 = e1 e2 = e2 c1 = c1 c2 = c2 a1 = a1 a2 = a2 k1 = k1
    Executions = {e1, e2}
    Symbols = {1, 2}
    Contracts = {c1, c2}
    Candles = {k1}
    Accounts = {a1, a2}
    MaxBegun = 4
    MaxOverlapped = 3
    MaxResolutions = 2
    MaxDeaths = 1
    Absent = Absent
    Torn = Torn
    None = None
    Length = 19
    Variants <- MCVariants
    MinimumHistory <- MCMinimumHistory
    Warmup = 1
    MinimumSegment = 4
    MinimumPhase = 3
    MinimumDepth = 17
    MinimumDevelopment = 4
    MinimumValidation = 3
    MinimumTrades = 1
    MinimumTotal = 2
    MinimumOos = 1
    MinimumWalk = 2
    MaximumDrawdown = 500
    Histories <- MCHistories
    Unset = Unset
SPECIFICATION MCSpec
SYMMETRY Interchangeable
INVARIANTS
    NothingLooksAhead
    ReadinessIsEarned
PROPERTIES
    UnlockedIsValidated
    EvidenceIsOfOneOrigin
    HandoffIsComplete
CHECK_DEADLOCK FALSE
