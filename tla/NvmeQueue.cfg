CONSTANTS
    chario = chario  request = request
    Tags = {chario, request}
    CharioTags = {chario}
    Numberings <- LowOrHigh
    NCmds = 2
    q_depth = 3
    ResetPaths = {"suspend", "disable"}
    MaxResets = 1
    Overlap = FALSE
SPECIFICATION FairSpec
INVARIANTS TypeOK InFlightIsOwned WaitedForIsInFlight
PROPERTIES ImplementsQueuePair QuietUntilInit EveryCommandEnds
