CONSTANTS
    NQueues = 3
    AdminTags = 3
    MayTimeOut = TRUE
SPECIFICATION FairSpec
INVARIANTS TypeOK RefcountIsPending SqBeforeCq FlushedUnlessGivenUp
PROPERTY DisableReturns
CHECK_DEADLOCK FALSE
