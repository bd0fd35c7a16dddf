CONSTANTS
    Key = {k1, k2}
    NoKey = NoKey
    Mangled = Mangled
    CurveIndexes = {2}
    BlockBytes = 2
    MaxApduSize = 3
    MaxPackets = 3

SPECIFICATION WalletSpec
SYMMETRY Symmetry

INVARIANT
    OperationShownIsHashed
