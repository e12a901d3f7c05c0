SPECIFICATION FairSpec
CONSTANTS
    N = 4
    NFree = 2
    Cap = 1
    Rows = {"active", "absent"}
    Styles = {"turns", "free"}
    None = None
INVARIANTS TypeOK UpstreamFaithful DownstreamFaithful
PROPERTIES BothWaysDeliver CloseEndsBoth OriginCloseDrains
CHECK_DEADLOCK FALSE
