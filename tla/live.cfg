SPECIFICATION MCSpec
CONSTANTS
    t1 = t1
    t2 = t2
    Procs = {p1, p2}
    Targets = {t1, t2}
    Ids = {i1}
    Contents = {c1}
    Partial = {t2}
    BoardIds <- AllIds
    StaleAfter = 0
    Workers = 1
    Bad = Bad
    Ended = Ended
    Absent = Absent
    Unknown = Unknown
    Faults = TRUE
    Rechecks = FALSE
PROPERTIES Converges
