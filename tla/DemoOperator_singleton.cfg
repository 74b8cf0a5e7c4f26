SPECIFICATION OperatorFairSpec
CONSTANTS
    c1 = c1
    c2 = c2
    w1 = w1
    w2 = w2
    f = f
    Starter = {c1, c2}
    RobotWorker = {w1, w2}
    Flattener = {f}
    NoPid = NoPid
CHECK_DEADLOCK FALSE
INVARIANTS
    ServingIsRegistered
PROPERTIES
    KillIsNotBypassed
    StopEndsWorker
