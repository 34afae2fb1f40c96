SPECIFICATION Spec
CONSTANTS
  Procs = {p1, p2}
  Handlers = {irq, kthread}
  Poller = kthread
  REQ_MAX_BLOCKS = 2
  NTags = 3
  NBlocks <- FittingNBlocks
  Serialised = FALSE
  None = None
INVARIANT NoEarlyReturn
