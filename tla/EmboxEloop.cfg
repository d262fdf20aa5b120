SPECIFICATION FairSpec
CONSTANTS
    Blocks = {t1, t2, t3}
    NoBlock = NoBlock
    Handlers = {scan_poll}
    Ctxs = {x, y}
    AllCtx = AllCtx
    Delays = {0, 1, 4}
    TicksPerMs = 2
    MaxSlice = 1
    Budget = 2
INVARIANT ListSound
PROPERTIES FiresInOrder PassReachesEvents DueFires
