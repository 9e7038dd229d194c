\* Two jobs, one at a time; programming may fail.
CONSTANTS
    Jobs = {j1, j2}
    OtherBits = {"POISON_TLP"}
    OrigMask <- BootMask
    TrainPolls = 2
    PgmFails = TRUE
SPECIFICATION FairSerialSpec
INVARIANTS
    TypeOK
    MaskKept
    NeverReported
    CardRestored
PROPERTIES
    IoctlReturns
