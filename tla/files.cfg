SPECIFICATION FairSpec
CONSTANTS
    Files = {f1, f2}
    Paths = {p1, p2}
    Tasks = {t1, t2, t3}
    Ops = {"provide", "stop", "remove", "resume", "advertise", "startKey"}
    Handler = Handler
    None = None
    Faults = {"db", "stop", "death", "forget"}
    Restarts = 1
INVARIANTS TypeOK AdvertisedIsActive
PROPERTIES ActiveGetsAdvertised AdvertiseRestores
CHECK_DEADLOCK FALSE
