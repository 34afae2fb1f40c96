SPECIFICATION Spec
CONSTANTS
  Tasks = {k1}
  MaxRanges = 2
  MaxInits = 2
  MaxRuns = 2
  Lengths = {1, 2}
  DiskBlocks = 3
  BufferBlocks = 4
  Errors <- ErrorCodes
  NoCall = NoCall
  NoTask = NoTask
INVARIANT RangesTile
INVARIANT LoadIsComplete
INVARIANT FlushIsComplete
