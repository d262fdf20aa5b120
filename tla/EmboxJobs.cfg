SPECIFICATION FairSpec
CONSTANTS
    Callers = {c1, c2}
    Jobs = {j1, j2, j3}
    NoJob = NoJob
    MaxPolls = 2
INVARIANTS NoUseAfterFree NoLeak
PROPERTIES ImplementsService CallsReturn SlotReleased
