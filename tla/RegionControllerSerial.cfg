\* Two callers and two regions, calls on one region serialised.
CONSTANTS
    Callers = {c1, c2}
    Regions = {r1, r2}
    BadOffsets = {nowhere}
SPECIFICATION FairSerialSpec
INVARIANTS
    TypeOK
    Settled
    ResetOnlyWhileFrozen
PROPERTIES
    EnableDelivers
    DisableDelivers
    StagedIsolation
    CallsReturn
