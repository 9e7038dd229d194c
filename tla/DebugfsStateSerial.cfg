\* Two writers whose writes alternate; base_dtb is used with care.
CONSTANTS
    Jobs = {w1, w2}
    OtherBits = {}
    OrigMask <- BootMask
    TrainPolls = 1
    PgmFails = FALSE
    Roms <- BaseRoms
    Trees <- SomeTrees
    bar_addrs <- Bars
    DtbStates <- CarefulStates
SPECIFICATION FairDebugfsSpec
INVARIANTS
    NothingTalksUpstream
PROPERTIES
    ZeroRestoresAer
    ProbesTheTree
    WritesReturn
