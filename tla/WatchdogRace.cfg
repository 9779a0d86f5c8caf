SPECIFICATION Spec
CONSTANTS
    N = 1
    PadOf <- InOrder
    NO_FRAME_LIMIT = 2
    READD_LIMIT = 4
    Faults <- NoFaults
PROPERTIES
    DeletedWasSilent
