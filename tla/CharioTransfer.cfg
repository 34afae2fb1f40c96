SPECIFICATION FairSpec
CONSTANTS
  Procs = {p1, p2}
  Handlers = {irq, kthread}
  Poller = kthread
  REQ_MAX_BLOCKS = 2
  NTags = 3
  NBlocks <- FittingNBlocks
  Serialised = TRUE
  None = None
INVARIANTS
  TypeOK
  NoEarlyReturn
  TagOwnership
  TagInRange
  NoLostWakeup
PROPERTY EveryTransferReturns
