SPECIFICATION FairSpec
CONSTANTS
    a = a
    b = b
    hostname = hostname
    Process = {a, b}
    Enabled = {a, b}
    ReplicaName <- MCReplicaName
    NoProcess = NoProcess
    NoName = NoName
    TTL = 2
    MaxToken = 2
    MaxWrites = 3
INVARIANTS
    FencedTransactionIsCurrent
    AuthorityWasGranted
PROPERTY
    ImplementsFencedLedger
    ForsakenLeaseFrees
    AcquisitionIsAnswered
