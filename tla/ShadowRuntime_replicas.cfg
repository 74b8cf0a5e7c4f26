SPECIFICATION Spec
CONSTANTS
    r1 = r1
    r2 = r2
    h1 = h1
    h2 = h2
    eurusd = eurusd
    gbpusd = gbpusd
    low = low
    high = high
    Runtime = {r1, r2}
    Coordinator = {h1, h2}
    Home <- TwoReplicas
    Instrument = {eurusd}
    NoInstrument = NoInstrument
    Level = {low}
    NoLevel = NoLevel
    Warmup = 1
    MaxMinute = 2
SYMMETRY ReplicaSymmetry
INVARIANTS
    OneUnresolvedIntent
    PositionIsEvidenced
PROPERTY
    EvidenceIsPermanent
