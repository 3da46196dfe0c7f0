SPECIFICATION MCSpec
CONSTANTS
    acme = acme
    inc = inc
    g = g
    l = l
    j = j
    site = site
    address = address
    finder = finder
    seeder = seeder
    search = search
    priority = priority
    ingest = ingest
    None = None
    Names = {acme, inc}
    Sites = {site, address}
    Keys = {g, l, j}
    Procs = {finder, seeder, search, priority, ingest}
    Pools = {finder, search}
    Workers = 2
    Tasks <- AllTasks
    Companies = {acme, inc}
    Slots = {g, l}
    Greenhouse = {g}
    SlotsOf <- TwoSlots
    WithDomain = {inc}
    Common = {inc}
    Guessers = {w1, w2}
    MaxErrors = 2
    Nobody = Nobody
    Finder = finder
    File = {acme}
    JobBoards = {j}
    WithTitles = {acme, inc}
    Limit = 0
    Publics <- Public
    Rounds = 2
INVARIANTS BoardsTypeOK CheckedInFull BlockedIsAborted ReportedIsRegistered
PROPERTIES RegistryOnlyGains RegisteredOnProof CondemnedOnEvidence EveryLookUpReturns
CHECK_DEADLOCK FALSE
