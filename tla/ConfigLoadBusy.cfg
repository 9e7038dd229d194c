\* The wait of the Stratix 10 core for an IP that is busy at first.
CONSTANTS
    exact = exact  tail = tail  foreign = foreign  short = short
    Callers = {c1}
    Images <- AllImages
    Size <- AllSize
    PofMatch <- Matching
    PofCheck = TRUE
    Family = "s10"
    Verbose = FALSE
    HeaderBytes = 8
    ChunkWords = 2
    InitPolls = 2
    ConfigTimeout = 2
SPECIFICATION Spec
PROPERTIES
    TimedOutMeansNotReady
