\* Stratix 10 core; one write at a time, settings changed at any time.
CONSTANTS
    exact = exact  tail = tail  foreign = foreign  empty = empty
    Writers = {w1}
    Images <- AllImages
    Size <- AllSize
    PofMatch <- Matching
    Family = "s10"
    Verbose = TRUE
    ChunkWords = 2
    InitPolls = 1
    RbfIdBytes = 8
    MaxTimeout = 1
SPECIFICATION FairSerialSpec
INVARIANTS
    NameIsTheImage
    OperatingIsWhole
PROPERTIES
    NoStepPending
    WritesReturn
