\* One script, run again and again and killed at will (Stratix 10 core).
CONSTANTS
    exact = exact  tail = tail
    Scripts = {s1}
    Target = region0
    BadOffsets = {nowhere}
    Images <- AllImages
    Size <- AllSize
    PofMatch <- Matching
    Family = "s10"
    Verbose = FALSE
    ChunkWords = 2
    InitPolls = 1
    RbfIdBytes = 4
    MaxTimeout = 1
SPECIFICATION FairSerialSpec
INVARIANTS
    NeverOpensPartial
PROPERTIES
    WordsBehindBridges
    ExitZeroMeansReady
    StagedEvenIfKilled
    ScriptEnds
