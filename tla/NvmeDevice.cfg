CONSTANTS
    MaxQueues = 2
    MaxResets = 2
    UINT = 16
SPECIFICATION Spec
INVARIANTS
    ContextsHaveQueues
    AdminQueueValid
    OnlineIsReady
    IrqsBalanced
    FreezesBalanced
    AllReleased
\* a removed, switched-off or crashed device stays so
CHECK_DEADLOCK FALSE
