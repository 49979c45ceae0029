SPECIFICATION FairStreamSpec
CONSTANTS
    JournalBytes = 2
    Sizes <- OneSize
    ReceiverCapacity = 1
    SnapshotFields = {"snapshotBase64", "dataBase64"}
    MaxOutputs = 3
    MaxCheckpoints = 2
    MaxDrops = 1
CHECK_DEADLOCK FALSE
INVARIANT ScreenHasNoHoles
PROPERTY PausedTabsGoOn
