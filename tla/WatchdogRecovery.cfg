SPECIFICATION FairSpec
CONSTANTS
    N = 2
    PadOf <- InOrder
    NO_FRAME_LIMIT = 1
    READD_LIMIT = 3
    Faults <- SlowStart
INVARIANTS
    FreedIsUnused

    
