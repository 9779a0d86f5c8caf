SPECIFICATION MCSpec
CONSTANTS
    MaxFaults = 2
    MaxRefusals = 1
    Nothing = Nothing
    Models <- MCModels
    BatchSize = 2
    Outputs <- MCOutputs
    Threshold <- MCThreshold
    NetWidth = 16
    NetHeight = 12
INVARIANTS
    TypeOK
    SinksSeeProbedFrames
    NoStrayElement
    OneNetworkSink
    NetworkIsMeant
    OnlyUnownedStays
    SlotsWrittenOnce
    HeadsReadWhole
    ParsersAgree
PROPERTIES
    RunsAgain
