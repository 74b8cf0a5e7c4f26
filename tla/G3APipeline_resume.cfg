CONSTANTS
    p1 = p1 p2 = p2
    Processes = {p1, p2}
    MaxPages = 2
    MaxAttempts = 2
    MaxStarts = 3
    MaxOverlapped = 2
    MaxDeaths = 1
    Absent = Absent
    None = None
    eurgbp = eurgbp eurusd = eurusd
    Instruments <- MCInstruments
    Priced = {eurgbp}
    GapInstrument = eurgbp
    GapMinute = 2
    LastMinute = 7
    WarmupCandles = 2
    FirstStart <- MCFirstStart
    LossLimit = 2
    Markets <- MCMarkets
    Nothing = Nothing
SPECIFICATION MCSpec
SYMMETRY Interchangeable
INVARIANTS
    EvidenceIsBacked
    ReplayIsCausal
PROPERTIES
    PublishedStays
CHECK_DEADLOCK FALSE
