SPECIFICATION FairSpec
CONSTANTS
    worker = worker
    console = console
    i1 = i1
    i2 = i2
    cycle = cycle
    Worker = {worker}
    Console = {console}
    Intent = {i1, i2}
    CycleOf <- OneCycle
    Attempts = 1
    MaxRequests = 2
CHECK_DEADLOCK FALSE
INVARIANTS
    OrderIsSentOnce
    RecordFollowsBroker
PROPERTY
    IncompleteIsResolved
