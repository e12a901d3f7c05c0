SPECIFICATION Spec
CONSTANTS
    Http = {h1}
    Cli = {g1}
    Peers = {p1, p2}
    Paths = {q1}
    AppPath = AppPath
    File = File
    Other = Other
    Torn = Torn
    None = None
    Restarts = 0
PROPERTY SuccessMeansFile
CHECK_DEADLOCK FALSE
