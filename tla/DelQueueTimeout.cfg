CONSTANTS
    NQueues = 1
    AdminTags = 1
    MayTimeOut = TRUE
SPECIFICATION Spec
INVARIANT AllFlushed
CHECK_DEADLOCK FALSE
