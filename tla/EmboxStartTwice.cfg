SPECIFICATION Spec
CONSTANTS
    Callers = {a, b}
    Threads = {t1, t2}
    None = None
    MaxSpin = 1
INVARIANT OneSupplicant
