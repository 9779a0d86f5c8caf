SPECIFICATION FairSpec
CONSTANTS
    ana = ana
    beto = beto
    Person <- People
    NoMsg = NoMsg
    NoPerson = NoPerson
    INACTIVITY_THRESHOLD = 1
    CHECK_INTERVAL = 1
    MaxTime = 4
    InboxCap = 1
    MaxCrashes = 1
INVARIANTS
    TypeOK
    AlertsAlternate
    OneAlertPerPerson
    SalidaJustified
    RegisteredIsAnnounced
PROPERTIES
    ImplementsProtocol
    SilentLeaves
    SeenIsInside
