CONSTANTS
    d1 = d1  d2 = d2
    Devices = {d1, d2}
    MaxThreads = 3
    MaxResets = 2
    RemoveRaces = FALSE
SPECIFICATION FairSpec
INVARIANTS NoThreadLost PolledWhileUp NoThreadAtExit DependenciesHeld ReleasedOnce
PROPERTY StartEnds
CHECK_DEADLOCK FALSE
