SPECIFICATION Spec
CONSTANTS
    Files = {f1, f2}
    Paths = {p1}
    Tasks = {t1, t2, t3}
    Ops = {"provide", "stop", "resume"}
    Handler = Handler
    None = None
    Faults = {}
    Restarts = 0
INVARIANT StoppedIsWithdrawn
CHECK_DEADLOCK FALSE
