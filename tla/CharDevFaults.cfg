\* Up to three cards, three device numbers, every kernel call may fail.
CONSTANTS
    Cards = {c1, c2, c3}
    Users = {u1, u2}
    Majors = 3
    Faults <- AllFaults
SPECIFICATION Spec
INVARIANTS
    NodeServesBoundCards
    CleansUp
