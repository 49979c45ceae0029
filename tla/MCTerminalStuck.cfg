SPECIFICATION FairStreamSpec
CONSTANTS
    JournalBytes = 4
    Sizes <- OneSize
    ReceiverCapacity = 1
    SnapshotFields = {"snapshotBase64"}
    MaxOutputs = 3
    MaxCheckpoints = 0
    MaxDrops = 0
CHECK_DEADLOCK FALSE
PROPERTY GapsAreRecovered
