SPECIFICATION MCSpec
CONSTANTS
    Runs = {r1, r2}
    r1 = r1
    r2 = r2
    Jobs = {1, 2, 3}
    Batch = 2
    Texts = {x, y}
    x = x
    y = y
    Said = {hybrid}
    hybrid = hybrid
    Unsaid = Unsaid
    Unknown = Unknown
    Versions = {1, 2}
    Latest = 2
    None = None
    Worlds <- Small
INVARIANTS TypeOK JudgedAsPosted
PROPERTIES FinishedMeansClassified Settles
