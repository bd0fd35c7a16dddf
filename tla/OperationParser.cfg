CONSTANTS
    me = me
    Tz = {me, other}
    Kt = {kt}
    NoAddress = NoAddress
    Allowed <- WalletTags
    Word = 2
    MaxOperations = 3
SPECIFICATION Spec
INVARIANTS
    ShownIsWritten
    OneOperationShown
    OnlyOwnOperations
    TotalsCoverTheGroup
    RegistersDelegationsToItself
PROPERTY VerdictsAreFinal
