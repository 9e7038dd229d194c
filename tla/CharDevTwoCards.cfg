\* Two cards, and nothing fails.
CONSTANTS
    Cards = {c1, c2}
    Users = {u1}
    Majors = 3
    Faults = {}
SPECIFICATION Spec
INVARIANTS
    EveryCardBound
