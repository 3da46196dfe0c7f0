SPECIFICATION MCSpec
CONSTANTS
    site = site
    www = www
    plain = plain
    list = list
    moved = moved
    j1 = j1
    j2 = j2
    j1w = j1w
    j1p = j1p
    items = items
    careers = careers
    rss = rss
    Urls <- MCUrls
    Origins = {site, www, plain}
    OriginOf <- MCOriginOf
    Patterns <- MCPatterns
    Files <- MCFiles
    Readers = {careers, rss}
    Feeds = {rss}
    Start <- MCStart
    Links <- MCLinks
    RedirectTo <- MCRedirectTo
    Undatable = {j2}
    SiteOf <- MCSiteOf
    Plain = {plain}
    MaxHops = 2
    MaxJobs = 2
    p1 = p1
    p2 = p2
    Programs = {p1, p2}
    Latest = 2
    Forced = 0
    Nobody = Nobody
    Jobs <- MCJobs
    Posted <- MCPosted
    Expires <- MCExpires
    OfPriority = {2}
    MarketOf <- MCMarketOf
    Relevant = {1, 3}
    Filters <- MCFilters
    Sizes = {0, 1, 2, 3, 4}
    Pages = {0, 2, 14, 15, 127, 128}
    MaxPageSize = 3
    MaxPageIndex = 40
    MaxInt = 127
    MaxAge = 1
    MaxTime = 2
    Postings <- MCPostings
INVARIANTS PermittedIfUnbroken ListedInFull MigrateTellsTheTruth EveryJobOnOnePage VerdictHasGrounds
PROPERTIES EveryCrawlReturns ShutdownEnds
CHECK_DEADLOCK FALSE
