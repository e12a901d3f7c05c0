SPECIFICATION Spec
CONSTANTS
    Calls = {c1, c2}
    Peers = {p1}
    RRRequests = {r1, r2}
    StreamRequests = {s1}
    Locals = {l1}
    Ops = {"start_listening", "dial", "start_providing", "stop_providing", "get_providers", "send_request", "put_kv_pair", "get_value", "send_stream_request"}
    Effects = {"provide", "stop", "quiet"}
    Faults = {"listenErr", "dialErr", "storeErr", "kadErr", "noProviders", "requestErr", "streamErr", "noResponse", "connLost", "neverEnds", "channelClosed", "handlerPanic"}
    Handler = Handler
    None = None
SYMMETRY Symmetry
INVARIANTS TypeOK WaiterAccounted EventAccounted StillPending
CHECK_DEADLOCK FALSE
