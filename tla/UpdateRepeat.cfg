CONSTANTS
    BlockSize = 2
    Cap = 4
    Sizes = {5}
    MaxLate = 1
    MaxLoss = 0
    MaxCrash = 0
SPECIFICATION Spec
INVARIANT BufferedLength
