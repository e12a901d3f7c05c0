SPECIFICATION FairSpec
CONSTANTS
    Tasks = {t1, t2}
    Ops = {"httpProvide", "httpClient", "httpConnect", "httpStop", "cliProvide", "cliClient", "cliStop"}
    Boot = Boot
    Sessions = {sess1, s2}
    CliSession = sess1
    Provider = Provider
    None = None
    Torn = Torn
    Faults = {"db", "disk", "stop", "death", "forget"}
    Restarts = 1
INVARIANTS TypeOK ConfigTracksSender RecordTracksConfig ProxyReachable
PROPERTIES EndpointsReturn StopReachesProxy
CHECK_DEADLOCK FALSE
