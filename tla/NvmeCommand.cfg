CONSTANTS
    c1 = c1  w = w
    Callers = {c1}
    Worker = w
    AdminTags = {1}
    IoTags = {1, 32}
    LowTags = {1}
    AbortLimit = 1
    SubmitRaces = FALSE
    None = None
SPECIFICATION FairSpec
INVARIANTS FrameHasRequest TagNotReused StatusIsReal
PROPERTY EveryCallerReturns
CHECK_DEADLOCK FALSE
