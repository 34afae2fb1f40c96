SPECIFICATION Spec
CONSTANTS
  t1 = t1
  t2 = t2
  NoCall = NoCall
  Threads <- TwoThreads
  Files = {1}
  Buffers = {0}
  Counts <- BlockCounts
  Positions <- BlockPositions
  DiskBytes = 6
  MemBytes = 6
  Errors <- ErrorCodes
  MAX_BYTES = 4
  LbaSize = 2
  U16 = 2
  MaxCalls = 3
  Results <- DriverResults
  Serialised = TRUE
SYMMETRY ThreadSymmetry
PROPERTY ImplementsCharFile
CHECK_DEADLOCK FALSE
