CONSTANTS
    Key = {k1}
    NoKey = NoKey
    TargetNanoX = FALSE
    Curveless = Curveless
    Pathless = Pathless
    ChainId = {0, 1}
    MaxLevel = 1
    LevelLimit = 2
    AskedLevel <- OutermostLevels
    MaxHistory = 1
SPECIFICATION Spec
INVARIANT SignsOnlyTheParsedPacket
