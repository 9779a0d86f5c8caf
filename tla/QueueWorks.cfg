SPECIFICATION FairSpec
CONSTANTS
    MAX_TRIES = 5
    FinalErrors <- AllFinal
    RetryErrors <- AllRetry
    MaxPerFrame = 2
    MaxPushes = 4
INVARIANTS
    TypeOK
    Fifo
    AtMostOneLate
    ClientOutlivesSender
    NoLostWakeup
    
PROPERTIES
    ImplementsFeed
    EverythingPublished
    ProbeReturns
