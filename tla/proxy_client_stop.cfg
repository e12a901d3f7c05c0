SPECIFICATION Spec
CONSTANTS
    Tasks = {t1, t2, t3}
    Ops = {"httpConnect", "httpStop"}
    Boot = Boot
    Sessions = {sess1, s2}
    CliSession = sess1
    Provider = Provider
    None = None
    Torn = Torn
    Faults = {}
    Restarts = 0
SYMMETRY Symmetry
INVARIANTS ListenerBound
CHECK_DEADLOCK FALSE
