SPECIFICATION FairSpec
CONSTANTS
    Clients = {c1, c2}
    Refs = {r1, r2}
    None = None
    RateNum = 3
    RateDen = 2
    Threshold = 300
    ClientKbs = {0, 5}
    ProviderKbs = {0, 1, 3}
    DbErrors = TRUE
INVARIANTS TypeOK AccountsInStep SettledWithinMeter
PROPERTIES ImplementsLedger AttemptEnds
CHECK_DEADLOCK FALSE
