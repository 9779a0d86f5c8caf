SPECIFICATION FairMutexSpec
CONSTANTS
    MAX_TRIES = 2
    FinalErrors <- None
    RetryErrors <- None
    MaxPerFrame = 2
    MaxPushes = 2
PROPERTIES
    CleansUp
