SPECIFICATION Spec
CONSTANTS
    worker = worker
    console = console
    i1 = i1
    i2 = i2
    cycle = cycle
    Worker = {worker}
    Console = {}
    Intent = {i1}
    CycleOf <- OneCycle
    Attempts = 2
    MaxRequests = 2
CHECK_DEADLOCK FALSE
INVARIANT
    OrderIsSentOnce
