SPECIFICATION Spec
CONSTANTS
    s1 = s1
    s2 = s2
    s3 = s3
    collector = collector
    other = other
    Callers = {s1, s2, s3, collector, other}
    Searchers = {s1, s2, s3}
    Collector = collector
    MaxRetries = 1
    Max = 6
    Keywords = 2
    Pages = 2
    Nobody = Nobody
INVARIANTS TypeOK AttemptsCounted WithinBudget OneSearchAtATime
PROPERTIES NothingSentAfterEnd TakeIsAtomic EverySearchReturns
CHECK_DEADLOCK FALSE
