CONSTANTS
    me = me
    Tz = {me, other}
    Kt = {kt}
    NoAddress = NoAddress
    Allowed <- BakingTags
    Word = 2
    MaxOperations = 3
SPECIFICATION Spec
INVARIANT RegistersOnlySelfDelegations
