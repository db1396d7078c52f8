CONSTANTS
    BlockSize = 2
    Cap = 4
    Sizes = {4}
    MaxLate = 0
    MaxLoss = 0
    MaxCrash = 0
SPECIFICATION Spec
INVARIANT CompleteFlagMeansComplete
