SPECIFICATION MCFairSpec
CONSTANTS
    eurusd = eurusd
    us500 = us500
    xauusd = xauusd
    Epics = {eurusd, us500, xauusd}
    Representatives = {eurusd, us500}
    MaxPending = 2
    MaxReconnectAttempts = 2
    UpdateBound = 2
    MaxLogins = 2
    NoClient = NoClient
    ClockMarkets <- MCClockMarkets
    HttpAttempts = 3
    LoginBound = 3
CHECK_DEADLOCK FALSE
INVARIANTS
    StreamIsFaithful
    EndIsClean
    RequestsAreCounted
    ProbeIsHonest
PROPERTY
    SmokeEnds
