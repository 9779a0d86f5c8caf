SPECIFICATION FairSpec
CONSTANTS
    b1 = b1
    b2 = b2
    w1 = w1
    w2 = w2
    Buffer <- OneBuffer
    Worker <- TwoWorkers
    NoBuffer = NoBuffer
    FRAME_INTERVAL = 2
    SAVE_FRAMES = TRUE
    MaxFrames = 3
INVARIANTS
    TypeOK
    NeverOlder
    EachTaskOnce
PROPERTIES
    PostedIsFinished
CHECK_DEADLOCK FALSE
