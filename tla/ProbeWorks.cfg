SPECIFICATION Spec
CONSTANTS
    o1 = o1
    o2 = o2
    b1 = b1
    b2 = b2
    b3 = b3
    Pad <- TwoPads
    Object <- TwoObjects
    Block <- ThreeBlocks
    Null = Null
    Garbage = Garbage
    FRAME_INTERVAL = 2
    MaxFrames = 2
    MaxMetas = 3
    MaxQueue = 2
INVARIANTS TypeOK LastEntryComplete NothingForeign EmbeddingOwned
