SPECIFICATION Spec
CONSTANTS
    r1 = r1
    r2 = r2
    h1 = h1
    h2 = h2
    eurusd = eurusd
    gbpusd = gbpusd
    low = low
    high = high
    Runtime = {r1, r2}
    Coordinator = {h1}
    Home <- OneReplica
    Instrument = {eurusd, gbpusd}
    NoInstrument = NoInstrument
    Level = {low, high}
    NoLevel = NoLevel
    Warmup = 1
    MaxMinute = 1
SYMMETRY Symmetry
INVARIANTS
    EvidenceFollowsBook
PROPERTY
    ImplementsPositionBook
