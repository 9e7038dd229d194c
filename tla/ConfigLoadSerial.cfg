\* Stratix 10 core, one load at a time, retries included.
CONSTANTS
    exact = exact  tail = tail  foreign = foreign  short = short
    Callers = {c1, c2}
    Images <- AllImages
    Size <- AllSize
    PofMatch <- Matching
    PofCheck = TRUE
    Family = "s10"
    Verbose = TRUE
    HeaderBytes = 8
    ChunkWords = 2
    InitPolls = 2
    ConfigTimeout = 2
SPECIFICATION FairSerialSpec
INVARIANTS
    OperatingIsWhole
PROPERTIES
    SuccessIsTheImage
    NoRestart
    LoadReturns
