CONSTANTS
    r1 = r1
    r2 = r2
    Runtimes <- MCRuntimes
    MarketCount = 1
    Days = 2
    MaxRows = 1
    Horizons = {1}
SPECIFICATION FairSpec
INVARIANTS
    BundlesAreUnmixed
    ObservationsAreProspective
    LabelsAreCausal
PROPERTIES
    EpochIsFinal
    AnchorIsAnswered
CHECK_DEADLOCK FALSE
