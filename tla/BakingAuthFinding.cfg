CONSTANTS
    Key = {k1, k2}
    NoKey = NoKey
    ChainId = {0, 1}
    MaxLevel = 3
    LevelLimit = 3
    Leftover <- CleanLeftover
    MaxHistory = 4
SPECIFICATION Spec
SYMMETRY KeySymmetry
INVARIANT OneEndorsementPerLevel
