SPECIFICATION Spec
CONSTANTS
    Http = {h1}
    Cli = {g1}
    Peers = {p1, p2}
    Paths = {q1}
    AppPath = AppPath
    File = File
    Other = Other
    Torn = Torn
    None = None
    Restarts = 1
SYMMETRY Symmetry
INVARIANTS TypeOK PaysOnce FailureCostsNothing PaymentOnRecord
CHECK_DEADLOCK FALSE
