SPECIFICATION Spec
CONSTANTS
    Keys = {k1, k2}
    Gone = gone
    Vals = {gone, v1}
    Clean = clean
    NoAux = t0
    Auxs = {t0, t1}
    MaxSnapshots = 3
INVARIANTS
    Written
PROPERTIES
    Implements
