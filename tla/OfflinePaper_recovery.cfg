SPECIFICATION FairSpec
CONSTANTS
    run1 = run1
    run2 = run2
    fixture = fixture
    other = other
    Conductor = {run1, run2}
    Source = {fixture, other}
    Input <- Inputs
    CycleOf <- TwoCycles
    Exitable = {fixture}
    None = None
INVARIANT
    JournalIsTrue
PROPERTIES
    ImplementsPaperTrade
    IntentSettles
