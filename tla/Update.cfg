CONSTANTS
    BlockSize = 2
    Cap = 4
    Sizes <- OddSizes
    MaxLate = 1
    MaxLoss = 2
    MaxCrash = 2
SPECIFICATION FairSpec
INVARIANTS PublishedImageIsBuffered PublishedRecordIsWhole ProgramsErasedBlock
PROPERTY DownloadCompletes
CHECK_DEADLOCK FALSE
