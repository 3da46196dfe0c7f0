SPECIFICATION MCSpec
CONSTANTS
    a = a
    b = b
    ia = ia
    ib = ib
    ic = ic
    e1 = e1
    e2 = e2
    here = here
    there = there
    nowhere = nowhere
    Procs = {p1, p2}
    Sources = {a, b}
    Employers = {e1, e2}
    Ids = {ia, ib}
    Contents = {here}
    Worlds <- Small
    SourceOf <- TwoBoards
    Same <- ByPlace
    StaleAfter = 1
    Bad = Bad
    Ended = Ended
    Faults = TRUE
    Unchecked = TRUE
PROPERTIES ClosedAgedOrEnded
