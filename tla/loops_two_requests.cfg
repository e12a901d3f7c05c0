SPECIFICATION FairSpec
CONSTANTS
    Calls = {}
    Peers = {p1}
    RRRequests = {r1, r2}
    StreamRequests = {}
    Locals = {}
    Ops = {}
    Effects = {}
    Faults = {}
    Handler = Handler
    None = None
PROPERTIES EventsServed
CHECK_DEADLOCK FALSE
