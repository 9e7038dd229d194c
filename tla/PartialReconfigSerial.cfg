\* One tool, run again and again and killed at will (Arria 10 core).
CONSTANTS
    exact = exact  tail = tail  short = short
    Tools = {t1}
    Target = region0
    BadOffsets = {nowhere}
    Images <- AllImages
    Size <- AllSize
    PofMatch <- AllImages
    PofCheck = FALSE
    Family = "a10"
    Verbose = FALSE
    HeaderBytes = 8
    ChunkWords = 2
    InitPolls = 1
    ConfigTimeout = 1
SPECIFICATION FairSerialSpec
INVARIANTS
    OpenPartialIsRecorded
PROPERTIES
    WordsOnlyWhileHeld
    ToolEndsOrPersonaDead
