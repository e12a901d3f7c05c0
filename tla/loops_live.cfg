SPECIFICATION FairSpec
CONSTANTS
    Calls = {c1, c2}
    Peers = {p1}
    RRRequests = {r1}
    StreamRequests = {s1}
    Locals = {l1}
    Ops = {"dial", "get_providers", "send_stream_request"}
    Effects = {"provide", "stop", "quiet"}
    Faults = {"storeErr", "kadErr", "noProviders", "streamErr", "noResponse", "connLost", "neverEnds", "channelClosed", "handlerPanic"}
    Handler = Handler
    None = None
PROPERTIES ServedUnlessCycle ReturnsUnlessForgotten NetDeathReleasesAll
CHECK_DEADLOCK FALSE
