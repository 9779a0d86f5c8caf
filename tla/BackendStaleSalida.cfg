SPECIFICATION Spec
CONSTANTS
    ana = ana
    beto = beto
    Person <- OnePerson
    NoMsg = NoMsg
    NoPerson = NoPerson
    INACTIVITY_THRESHOLD = 2
    CHECK_INTERVAL = 1
    MaxTime = 5
    InboxCap = 1
    MaxCrashes = 0
PROPERTIES
    SilentWhenReported
