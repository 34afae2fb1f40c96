SPECIFICATION Spec
CONSTANTS
  Procs = {p1}
  Handlers = {irq, kthread}
  Poller = kthread
  REQ_MAX_BLOCKS = 2
  NTags = 3
  NBlocks <- FittingNBlocks
  Serialised = TRUE
  None = None
INVARIANT ErrorReported
