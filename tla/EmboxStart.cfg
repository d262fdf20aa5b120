SPECIFICATION FairSpec
CONSTANTS
    Callers = {a, b}
    Threads = {t1, t2}
    None = None
    MaxSpin = 1
INVARIANTS SerialStartIdempotent PointersOfLiveThread
PROPERTY StartReturns
