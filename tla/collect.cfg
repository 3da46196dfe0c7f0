SPECIFICATION MCSpec
CONSTANTS
    a = a
    b = b
    ia = ia
    ib = ib
    ic = ic
    e1 = e1
    e2 = e2
    here = here
    there = there
    nowhere = nowhere
    Procs = {p1}
    Sources = {a, b}
    Employers = {e1, e2}
    Ids = {ia, ib, ic}
    Contents = {here, there, nowhere}
    Worlds <- Large
    SourceOf <- TwoBoards
    Same <- ByPlace
    StaleAfter = 1
    Bad = Bad
    Ended = Ended
    Faults = FALSE
    Unchecked = FALSE
INVARIANTS TypeOK ShownOnce KeptAreFiled
PROPERTIES ListedStaysVisible
