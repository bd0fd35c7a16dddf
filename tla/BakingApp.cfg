CONSTANTS
    Key = {k1}
    NoKey = NoKey
    TargetNanoX = FALSE
    Curveless = Curveless
    Pathless = Pathless
    ChainId = {0, 1, 2}
    MaxLevel = 2
    LevelLimit = 2
    AskedLevel <- OutermostLevels
    MaxHistory = 1
SPECIFICATION Spec
INVARIANTS
    SignedWithAuthorizedKey
    OwnSessionsSignOnePacket
PROPERTIES
    FlashFollowsConsent
    AuthSpec
