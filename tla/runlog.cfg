SPECIFICATION Spec
CONSTANTS
    Procs = {p1, p2, p3}
    Forcing = {p3}
    MinGap = 2
    MaxTime = 4
INVARIANTS TypeOK AskedIsRecorded
PROPERTIES NeverLooksOlder GapKept
