\* What exit status 0 means.
CONSTANTS
    exact = exact  tail = tail  short = short
    Tools = {t1}
    Target = region0
    BadOffsets = {nowhere}
    Images <- AllImages
    Size <- AllSize
    PofMatch <- AllImages
    PofCheck = FALSE
    Family = "a10"
    Verbose = FALSE
    HeaderBytes = 8
    ChunkWords = 2
    InitPolls = 1
    ConfigTimeout = 1
SPECIFICATION SerialSpec
PROPERTIES
    ExitZeroMeansLoaded
