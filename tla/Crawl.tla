-------------------------------- MODULE Crawl --------------------------------
(***************************************************************************)
(* Readers of web pages: careers sites and feeds (internal/ats/careers,    *)
(* feed), which fetch through internal/ats/page and one robots checker, at *)
(* the same time.  They are full sources: what a listing leaves out, the   *)
(* ingester closes.                                                        *)
(***************************************************************************)
EXTENDS Robots, FiniteSets

CONSTANTS Readers,    \* the ListJobs calls of a run
          Feeds,      \* those that read a feed
          Start,      \* Start[r]: the listing page, or the feed
          Links,      \* Links[u]: the job links, or the items, of the page at u
          Undatable,  \* items that a feed gives a date which cannot be read
          RedirectTo, \* RedirectTo[u]: where u may redirect to
          SiteOf,     \* SiteOf[o]: the site of an origin, less "www." and the port
          Plain,      \* origins over http
          MaxHops,    \* Config.MaxRedirects
          MaxJobs     \* how many job pages a careers client will fetch

ASSUME CrawlAssumption ==
    /\ Feeds \subseteq Readers /\ Start \in [Readers -> Urls] /\ Plain \subseteq Origins
    /\ Links \in [Urls -> SUBSET Urls] /\ RedirectTo \in [Urls -> SUBSET Urls]
    /\ Undatable \subseteq Urls /\ "-" \notin Urls
    /\ MaxHops \in Nat /\ MaxJobs \in Nat

VARIABLES
    over,    \* the URLs whose job is filled, withdrawn or out of date
    reader,  \* reader[r]: where it is, the page it was sent to, the URL it is at, redirects
             \* followed, the listing it read, the pages left and the jobs kept
    canceled \* the context has ended

crawlVars == <<robotsVars, over, reader, canceled>>

Waiting == [at |-> "idle", url |-> "-", page |-> "-", hops |-> 0, list |-> "-", todo |-> {}, jobs |-> {}]
NotCalled == [Waiting EXCEPT !.at = "off"]
Ends == {"ok", "gone", "error"}

CrawlInit ==
    /\ RobotsInit
    /\ over \in SUBSET Urls
    /\ reader \in [Readers -> {Waiting, NotCalled}]
    /\ canceled = FALSE

Set(r, x) == reader' = [reader EXCEPT ![r] = x]
At(r, at) == [reader[r] EXCEPT !.at = at]
Fetch(r, u) == [reader[r] EXCEPT !.at = "ask", !.url = u, !.page = u, !.hops = 0]

OnListing(r) == reader[r].list = "-"

\* The next job page, after a pause that the context may end.
Onward(r, x) ==
    IF x.todo = {} THEN {[x EXCEPT !.at = "ok"]}
    ELSE {[x EXCEPT !.at = "ask", !.url = u, !.page = u, !.hops = 0, !.todo = @ \ {u}] : u \in x.todo}

\* feed.ListJobs: the items, less those out of date or with a date that cannot be read.
FeedJobs(u) == Links[u] \ (over \cup Undatable)

\* careers.ListJobs: no links on the page it landed on, or too many, is an error and never a
\* shorter list.
AfterListing(r, u) ==
    IF r \in Feeds THEN {[At(r, "ok") EXCEPT !.list = u, !.jobs = FeedJobs(u)]}
    ELSE IF Links[u] = {} \/ Cardinality(Links[u]) > MaxJobs THEN {At(r, "error")}
    ELSE Onward(r, [reader[r] EXCEPT !.list = u, !.todo = Links[u]])

\* A job page that cannot be read is taken for a dead link.
KeepReadable(r, how) == how = "read"

\* detail: a page that cannot be fetched keeps its job as the listing has it.
Keeps(r, how) == how # "gone" /\ how # "stale"

AfterJob(r, how) ==
    LET jobs == IF Keeps(r, how) THEN reader[r].jobs \cup {reader[r].page} ELSE reader[r].jobs
    IN Onward(r, [reader[r] EXCEPT !.jobs = jobs])

\* A fetch is over: the page was read (and is of a job that is over, or not), gone, or not
\* to be had.
Fetched(r, how) ==
    \E x \in IF canceled THEN {At(r, "error")}
             ELSE IF ~OnListing(r) THEN AfterJob(r, how)
             ELSE IF how \in {"read", "stale"} THEN AfterListing(r, reader[r].url)
             ELSE {At(r, IF how = "gone" THEN "gone" ELSE "error")} : Set(r, x)

Begin(r) ==
    /\ reader[r].at = "idle"
    /\ Set(r, Fetch(r, Start[r]))
    /\ UNCHANGED <<robotsVars, over, canceled>>

\* Allowed, for the page or for where it redirects to: the first to ask of an origin reads
\* its robots.txt, those who come meanwhile wait.
AskRobots(r) ==
    /\ reader[r].at = "ask"
    /\ \/ StartLoad(OriginOf[reader[r].url]) /\ Set(r, At(r, "load"))
       \/ /\ Known(reader[r].url)
          /\ IF Allowed(reader[r].url) THEN Set(r, At(r, "request")) ELSE Fetched(r, "failed")
          /\ UNCHANGED robotsVars
    /\ UNCHANGED <<over, canceled>>

\* The redirects of robots.txt itself pass the check that the page's redirects do.
LoadGuarded(r) ==
    /\ reader[r].at = "load"
    /\ \/ FinishLoad(OriginOf[reader[r].url])
       \/ UNCHANGED robotsVars
    /\ Set(r, At(r, "ask"))
    /\ UNCHANGED <<over, canceled>>

\* Its redirects are followed unchecked: RedirectGuard's lookups use the caller's context.
Load(r) ==
    /\ reader[r].at = "load"
    /\ FinishLoad(OriginOf[reader[r].url])
    /\ Set(r, At(r, "ask"))
    /\ UNCHANGED <<over, canceled>>

\* SameHost, and never from https to http.
MayRedirect(u, v) ==
    /\ SiteOf[OriginOf[u]] = SiteOf[OriginOf[v]]
    /\ OriginOf[v] \in Plain => OriginOf[u] \in Plain

\* The page, or 404 or 410, or anything else.
Request(r) ==
    /\ reader[r].at = "request" /\ ~canceled
    /\ \E how \in {"failed"} \cup (IF reader[r].page \in over THEN {"gone", "stale"} ELSE {"read"}) :
          Fetched(r, how)
    /\ UNCHANGED <<robotsVars, over, canceled>>

\* RedirectGuard, before the target is contacted.
Redirect(r) ==
    /\ reader[r].at = "request" /\ ~canceled
    /\ \E v \in RedirectTo[reader[r].url] :
          IF reader[r].hops < MaxHops /\ MayRedirect(reader[r].url, v)
          THEN Set(r, [reader[r] EXCEPT !.at = "ask", !.url = v, !.hops = @ + 1])
          ELSE Fetched(r, "failed")
    /\ UNCHANGED <<robotsVars, over, canceled>>

\* A request that the end of the context cuts off.
CutOff(r) ==
    /\ reader[r].at = "request" /\ canceled
    /\ Fetched(r, "failed")
    /\ UNCHANGED <<robotsVars, over, canceled>>

Cancel ==
    /\ ~canceled /\ \E r \in Readers : reader[r].at \notin Ends \cup {"off"}
    /\ canceled' = TRUE
    /\ UNCHANGED <<robotsVars, over, reader>>

CrawlStep(r) == Begin(r) \/ AskRobots(r) \/ Load(r) \/ Request(r) \/ Redirect(r) \/ CutOff(r)

CrawlNext == Cancel \/ \E r \in Readers : CrawlStep(r)

\* Requests have a timeout.
CrawlFairness == \A r \in Readers : WF_crawlVars(CrawlStep(r))

CrawlSpec == CrawlInit /\ [][CrawlNext]_crawlVars /\ CrawlFairness

-----------------------------------------------------------------------------
(* Properties.                                                             *)

\* A page is requested only if the robots.txt its origin serves permits it, as RFC 9309 has
\* it, and so is every page that a redirect leads to (Fetch, RedirectGuard, Checker.Allowed).
\* Not so if the file has a record of another kind among the agent lines of a group: there
\* parse leaves the standard, and "robots.txt (RFC 9309) is checked before every page and
\* feed fetch" (docs/priority-companies.md) says more than the code does.
PermittedIfUnbroken ==
    \A r \in Readers :
        reader[r].at = "request" /\ Unbroken(file[OriginOf[reader[r].url]].lines) => MayFetch(reader[r].url)

\* A redirect never leaves the site that was asked for, nor https for http.
StaysOnSite ==
    \A r \in Readers : reader[r].at \in {"ask", "load", "request"} =>
        MayRedirect(reader[r].page, reader[r].url)

\* A full source that reports a listing reports every job on the page where it landed that is
\* not over, whatever job pages failed, were forbidden or redirected: what it left out would
\* be closed (careers.ListJobs, detail).  A feed also leaves out, by design, the items whose
\* date cannot be read (feed.ListJobs).
ListedInFull ==
    \A r \in Readers : reader[r].at = "ok" =>
        Links[reader[r].list] \ (IF r \in Feeds THEN over \cup Undatable ELSE over) \subseteq reader[r].jobs

\* An origin's robots.txt is read by one reader at a time, and whoever waits for it waits for
\* a reader that is at it: the first caller's failure or cancelled context leaves an answer,
\* and nobody is stranded on an entry that no one fills (Checker.Allowed).
OneReads ==
    /\ \A o \in Origins : entry[o].at = "loading" =>
          \E r \in Readers : reader[r].at = "load" /\ OriginOf[reader[r].url] = o
    /\ \A q, r \in Readers :
          reader[q].at = "load" /\ reader[r].at = "load" /\ OriginOf[reader[q].url] = OriginOf[reader[r].url]
          => q = r

\* Every reader comes to its end: nobody waits for a robots.txt that nobody reads.
EveryCrawlReturns == \A r \in Readers : reader[r].at = "ask" ~> reader[r].at \in Ends
=============================================================================
