CONSTANTS
    Key = {k1}
    NoKey = NoKey
    ChainId = {0, 1}
    MaxLevel = 2
    LevelLimit = 2
    Leftover <- AnyLeftover
    MaxHistory = 3
SPECIFICATION Spec
INVARIANTS
    TypeOK
    BlockOrder
    EndorsementOrder
    MarksCoverReleases
    ReleasesAboveFloor
    MarksRecordEndorsements
    ReplyMatchesMark
PROPERTIES
    MarksLoweredOnlyByUser
    GuardSpec
