SPECIFICATION Spec
CONSTANTS
    b1 = b1
    b2 = b2
    w1 = w1
    w2 = w2
    Buffer <- OneBuffer
    Worker <- OneWorker
    NoBuffer = NoBuffer
    FRAME_INTERVAL = 2
    SAVE_FRAMES = FALSE
    MaxFrames = 3
INVARIANTS
    RedisOutlivesTasks
CHECK_DEADLOCK FALSE
