SPECIFICATION MCSpec
CONSTANTS
    t1 = t1
    t2 = t2
    i1 = i1
    i2 = i2
    Procs = {p1, p2}
    Targets = {t1, t2}
    Ids = {i1, i2}
    Contents = {c1, c2}
    Partial = {t2}
    StaleAfter = 1
    Workers = 2
    Faults = TRUE
    Rechecks = TRUE
    BoardIds <- AllIds
    Bad = Bad
    Ended = Ended
    Absent = Absent
    Unknown = Unknown
SYMMETRY Symmetry
INVARIANTS TypeOK SuccessMeansStored
PROPERTIES ClosedOnEvidence RowsKeepTheirOwner
