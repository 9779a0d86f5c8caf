SPECIFICATION Spec
CONSTANTS
    N = 2
    PadOf <- Swapped
    NO_FRAME_LIMIT = 1
    READD_LIMIT = 3
    Faults <- AnyFault
INVARIANTS
    TypeOK
    FlowingIsLinked
PROPERTIES
    NoCollateral
