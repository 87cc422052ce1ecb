CONSTANTS
    MaxRecords = 2
    MaxJoined = 2
    Cases <- FormsUsed
SPECIFICATION FairSpec
INVARIANTS
    TypeOK
    WritesShownRecord
    SavesAllChanges
    UpdatingIsAttempted
    CreatedOnce
PROPERTIES
    UpdatingEnds
    FormIsReady
CHECK_DEADLOCK FALSE
