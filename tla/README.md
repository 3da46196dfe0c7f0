# Verification of the remote-job aggregator

TLA+ models of the aggregator in `src/`, TLC runs that check them on small
instances and TLAPS proofs for every value of the constants. Line numbers are
those of `src/`. `PROJECT.json` lists the runs, the lines each definition
models, the hazards and the theorems.

Run one instance with `tlc -config ingest.cfg MCIngest`, check the proofs
with `tlapm IngestProofs.tla`.

## The system

The program is a set of short-lived commands (`ingest`, `discover`,
`discover-boards`, `classify`, `migrate-*`, `seed-priority`) and one long-lived
one (`serve`). They share nothing but a PostgreSQL database, and nothing keeps
two of them from running at once: cron, an operator and a crashed run that is
restarted all meet in the tables. Every statement is atomic. There is hardly a
transaction around two of them, and most of what is hard about the program
follows from that.

| Component | State | Operations | Who it meets | What makes it correct |
|---|---|---|---|---|
| job store (`internal/job/store.go`) | `jobs`: one row per (source, source_job_id) | `UpsertFromATS`, `MarkMissingAsRemoved`, `CloseStale`, `CloseBySourceID`, `MoveJob`, `OpenOpenings`; `List`, `Get` | every ingest process writes, `serve` and `classify` read | a row keeps its owner; closing touches only what it names |
| ingester, per-target (`internal/ingestion/ingestion.go`) | work list, worker pool, what each worker fetched and has seen | `Run`, `processTarget`, `persist`, `retireGoneBoard` | ATS boards, job store, target store, other processes | a job closes only on evidence; success means stored; a dead board leaves nothing open; the table converges |
| ingester, collectors (`collectors.go`) | openings stored in this run, groups by employer, touched targets | `RunCollectors`, `runCollector`, `dropOpenings`, `sweepAbsent` | job boards, registrar, job store, other processes | one opening is shown once, a listed one stays visible, a sample closes nothing by absence |
| run log (`internal/runlog`) | `collector_runs` | `LastRun`, `RecordRun`, used by `tooSoon` | other processes | the minimum gap, every attempt on record |
| registry (`internal/company`) | `companies`, `target_companies` | `Upsert`, `SetPriority`, `SetActive`, `EnsureTarget`, `FindTarget` | discovery, ingester, seeding | one row per name and per board, no board changes company |
| discovery (`internal/discovery`) | pool, candidates | `Run`, `probe`, `Guess`, `guessOne` | ATS boards, registry | a name is reported checked only if it was |
| re-check (`cmd/aggregator/boards.go`) | report of one look-up | `runRecheck`, `staleBoards` | registry, job store | deactivates only on full, contrary evidence |
| eligibility (`internal/eligibility`) | `job_eligibility` | `Run`, `Pending`, `Save` | ingester (same jobs) | no verdict passes for another version of the job |
| rules (`internal/filtering`) | none | `Classify` | eligibility | order of evidence; never eligible by default |
| search sources (`internal/ats/jobsearch`, `internal/search`) | query budget, one lock | `Take`, `metered`, `ListJobs`, `Collect`, `dedupeOpenings` | search API, ingester's pool | the budget is never exceeded |
| HTTP client (`internal/httpclient`) | one request's attempts | `Do`, `wait`, `limitedBody` | every source | bounded attempts, none after the deadline |
| robots (`internal/robots`) | one entry per host, loaded once | `Allowed`, `load`, `allows` | careers pages | unknown means no |
| migrations (`internal/database`) | schema version, dirty flag | `MigrateUp`, `MigrateDown*`, `MigrateForce` | signals | no success for partial work |
| lifecycle (`cmd/aggregator/main.go`) | signals, context, resources | `installSignalHandling`, `runServe`, `closeWithTimeout` | every command | a second signal always ends the process |
| API (`internal/api`) | none | request handlers | job store | page arithmetic |

Hard behaviour, by cause: overlapping processes (ingestion, collectors, run
log, registration, classification against ingestion), failure or death between
two statements, boards that answer anything at any time, samples mistaken for
full boards, values read before and used after someone else's write, cancelled
pools, retries that spend a budget. `PROJECT.json` names each at its line.

## The modules

`JobTable` is the jobs table and its statements, an operator for each.
`Ingest` and `Collectors` use it for the two kinds of ingestion; `IngestLive`
puts the boards themselves next to `Ingest`; `RunLog` stands alone, and
`Eligibility` models the verdicts with its own, coarser view of the jobs table.
`Search` puts the searches and their budget on top of `HttpClient`, and implements
`QueryBudget`, the abstract counter.
`Registry` is the registry with the commands that fill it and `Guess` the board
look-up; `Boards` composes the two under the command `discover-boards`. `Robots` is
the checker that `Crawl`'s readers share, `Lifecycle` how a process is signalled and
ends, with `Migrate` on top of it; `Listing` is the read side of the jobs with the
API, and `Rules` the classification of one posting.

`MCSearch` names the callers for TLC, and `MCProgram` puts `Crawl`, `Migrate`,
`Listing` and `Rules` next to each other, one of them at work in each behaviour.
`MCIngest`, `MCIngestLive`, `MCCollectors`, `MCEligibility` and `MCBoards` do more: each adds
rigid variables that pick, in the initial state, which of a few small worlds a
behaviour plays in (one large dimension at a time), and takes the steps of the
specification that stay in it.
`IngestProofs`, `CollectorsProofs`, `RunLogProofs`, `EligibilityProofs`, `SearchProofs`,
`BoardsProofs`, `MigrateProofs` and `ProgramProofs` (about `Crawl`, `Rules` and `Listing`)
hold the proofs. An operator or action whose
comment describes a mistake (`UpsertedStillClosed`, "an upsert that
forgets to reopen") is a mutant: no specification uses it, but `PROJECT.json` names
the property that would catch it.

### JobTable

Ids stand for (source, source_job_id) identities, contents for everything the
content hash covers. A row records its status, the target that stored it, its
content and its age since `last_seen_at`, counted in ticks up to the first
value `CloseStale` can tell apart. A row's company is its target's by foreign
key, so it is not stored again. The status `closed` of the schema is never
written by any statement, so rows are `open` or `removed`.

### Ingest

| Variable | In the program |
|---|---|
| `active`, `ingested` | `target_companies.is_active`, whether `last_successful_ingestion_at` is set |
| `jobs` | the jobs table |
| `todo[p]` | what `Run` listed and its feeder has not yet handed out |
| `pc[p][t]` | where in `processTarget`/`persist`/`retireGoneBoard` the worker with target `t` is |
| `fetched[p][t]`, `seen[p][t]` | `atsJobs` and `seenIDs` of that worker |
| `running[p]` | the process is alive |
| `recheck` | the target `runRecheck` has deactivated and not closed yet |
| `alone[p][t]` | a history variable: nobody else wrote `t`'s rows since `p` began to store its fetch |

`StartRun`, `Dispatch`, `FinishRun`, `Interrupt` are `Run` with its feeder and
pool; `Crash` is death at any point. `FetchBoard`, `FetchGone`, `FetchFails` are
the three outcomes of `ListJobs`. `StoreJob`, `CloseEnded`, `Sweep`, `Record`
are `persist`, one action per statement, in the code's order; the jobs of one
listing may be stored in any order. `Deactivate`, `CloseGone` are
`retireGoneBoard`; `StatementFails` and `RecordFails` their error paths.
`Rediscover` is `TargetStore.Upsert` by discovery, `RecheckDeactivate` and
`RecheckClose` are `discover-boards --recheck --apply`. A listing maps every
identity to what the board says of it: a content, `Bad` (on the board but
unusable: skipped, yet seen), `Ended`, or `Absent`.

What the model abstracts: a listing names an identity once; counters in
`Result`; a statement takes no time. A tick is a day or more, so no tick falls
inside what `persist` does for one sampled target (minutes).

Properties:

- `SuccessMeansStored`: about to record success, with nobody else writing the
  target's rows meanwhile, a run has left every good job open with the content
  read, none that it read as ended open, and on a full board nothing else.
- `ClosedOnEvidence`: a job closes only because a run under way read that it
  ended or (full board) was not listed or the board was gone, because it went
  unseen too long, or because a re-check refused its board.
- `RowsKeepTheirOwner`: a row never disappears, never changes target, and its
  content is only ever replaced by what a run over its own target read.
- `RetiredHasNoOpenJobs`: nothing is open under an inactive target that nobody
  is working on.
- `Converges` (in `IngestLive`): after the world has calmed down, the rows of an
  active target whose board exists come to agree with the board and stay so.

### Collectors

One record per process holds what `runCollector` holds in local variables; `at`
is its place in the code. `Collect` fetches a sample, `Group` forms one
employer's group, drops what an earlier collector of the run stored
(`openingStored`) and finds or creates the target, `Check` drops what other
sources already show (`OpenOpenings`, `dropOpenings`), `Store`, `MoveJob`,
`StoreAgain`, `CloseEnded`, `AgeOut` are `persist` with `movable`, and
`ListTargets`, `AgeOutAbsent` are `sweepAbsent`. `Same` is the relation the two
duplicate checks compute from titles and places: equality of titles worldwide,
and, in the Ethiopian market, also of places, where a place that names no city
equals any Ethiopian city. That relation is not transitive, so the module only
assumes it reflexive and symmetric.

Properties: `ClosedAgedOrEnded` (absence from a sample closes nothing),
`ShownOnce` (between runs no opening is open from two sources),
`ListedStaysVisible` (when a collector closes a job its own listing still
shows, another open job shows that opening), `KeptAreFiled` (whatever was kept
is open, current, and under the employer just read).

Left out: the LinkedIn collector's second provider for priority companies and
`MarkIngestionSucceeded`. All sources share one `StaleAfter`.

### RunLog

`Start` reads the clock, `Read` is `LastRun` with the test, `RecordRun` the
write with `GREATEST`, `Request` the call of the source. `MinGap` is
`MinInterval` less the ten minutes of tolerance. `AskedIsRecorded`,
`NeverLooksOlder` and `GapKept` are its properties; clocks of two processes are
taken to agree. Reading and recording are two statements, so the gap can be
missed by a process that another one overtakes in between. The history variable
`overtaken` marks exactly those; `GapKept` says there is no other way around the
gap.

### Eligibility

`jobs[id]` is what the content hash and the rules see of a row: what the source
posted (`text`), the remote type it states if any (`said`), and the one stored
(`remote`), which outlives the statement. `verdict[id]` is the row of
`job_eligibility`: what it was made from (`of`), the hash and the version it is
stamped with. `run[r]` is a call of `Service.Run`: the keyset position `after` and
the verdicts in memory (`rows`) between `Pending` and `Save`. `StartRun` is
`classifyJobs` by any binary (`Versions`), forced or not; `Read` is `Pending` with
the pool that applies the rules, `Save` the transaction, `Finish` the empty page,
`Stop` any error, cancellation or death. `Upsert` and `Close` are ingestion.

- `JudgedAsPosted`: a verdict that carries the job's present hash was made from
  what that hash stands for, whoever overlaps.
- `FinishedMeansClassified`: a run that returns without an error has left no
  job unclassified that was open from its beginning and that nobody else changed
  (`owed`, a history variable).
- `Settles`: once only runs of the newest binary are left, every open job comes
  to have a current verdict and keeps it, stale batches still in flight included.

The hash does not cover everything the rules read. A job that states a remote
type and then none between two runs keeps the stored type but gets its old hash
back, and its old verdict passes as current; a change of its company's priority
changes the job's market and no hash. So no property says that a verdict is the
rules' answer for the row as it is. Left out: the market and the target country
(one value), deletion of jobs (nothing deletes any), the rules themselves.

### Search, HttpClient and QueryBudget

`HttpClient` is `Client.Do`: `http[c]` is the call that goroutine `c` has under
way, its `attempt` and what retries it is allowed, and `ended` the context of the
process (one for all calls: the program sets no deadline per target). `Attempt` is
the test of the context and the request, `Answer` the status or error and what the
loop makes of it, `Retry` and `Interrupted` the two ways out of `sleep`. A search
returns through it as `good`, `unauthorized`, `bad` (another status), `busy` (429 or
5xx after the last attempt) or `error`.

`Search` models who spends the budget: the companies' `ListJobs` calls in the
ingester's pool, serialised by `searchMu` (`lock`), and then `FreshClient.Collect`
with its loops (`progress`). `Add` and `Undo` are the two atomic operations of
`Budget.Take` on `used`; `Answered`, `Delayed` and `CancelledInDelay` are
`metered`; `NextPage` and `TakeIn` the collector's loop around it. `granted`,
`refused` and `wire` are history variables: what `Take` said and what left the
process. Other sources use the client meanwhile (`OtherSource`).

- `WithinBudget`: no more search requests leave than the budget has, although
  both layers can repeat one. It relies on `WithoutRetries` reaching the client.
- `TakeIsAtomic`: `Search` implements `QueryBudget` with `spent` as `granted`; the
  counter that overshoots and is lowered again is not visible in any answer.
- `AttemptsCounted`, `NothingSentAfterEnd`: the client's own promises.
- `OneSearchAtATime`, and `EverySearchReturns`: the lock is kept through a retry
  and its delay, never by a search that has returned, and every search does return.

Left out: what is in a result, and the delays' lengths.

### Registry

`companies[n]` and `targets[k]` are the rows, keyed as the unique indexes key them:
a company by its normalised name with its normalised website, a board by provider
and board id. A target's `source` is what its metadata says of who registered it.
`task[t]` is one candidate, priority company or employer on its way through
`Dispatch` (the feeder and its pool of `Workers`, or the loop of `Seed` and the
collectors), `ProbePage`, `UpsertCompany`, `SetPriority`, and `UpsertTarget` for each
of its boards: the statements of `Discoverer.Run`, `priority.Seed` and
`Registrar.EnsureTarget`. `Filled` is `ON CONFLICT` with `COALESCE`, `Refused` the
`WHERE` guard that yields `ErrTargetCompanyMismatch`, `SiteTaken` the unique violation.
`CompanyFails` and `TargetFails` are failed statements and a context that ends in one:
the effect may be there and the error is reported all the same. `Stop` is a signal,
`Die` a process that ends between statements, `Retire` ingestion's `SetActive`.

- `RegistryOnlyGains`: a board never changes company, a website or flag is never lost,
  no two companies have one website, a market moves only by a task that states one.
- `ReportedIsRegistered`: a result without an error is true, and stays true.

### Guess and Boards

`board[s]` is what is public at a slot (a slug on one of three ATSs): whether its own
name is a company's or shares a word with it, and what its jobs say. `Answers` is
`probeGreenhouse`, and `classify` for Lever and Ashby, whose streamed answers may break
off early without an error (`Readings`). `Feed`, `NextSlot`, `Answer`, `ProbeFails`,
`Count`, `Swap`, `Cancel` and `NameDone` are a worker of `Guess` in `guessOne`, `CloseFeed`
its feeder. At `maxProbeErrors` failed probes a worker swaps `aborted` and only then cancels
the look-up's context (`canceled`); in between the others go on probing, and any number of
them may fail. `signal` is the caller's cancellation.

`Boards` is the command around it: `LookFor`, `Register`, `RegistrationOver` are
`runDiscoverBoards`, and `LookAgain`, `Judge`, `Condemn`, `RecheckOver` are `runRecheck`
with `--apply` (`Stale` is `staleBoards`). `seen` is what the re-check read before a
look-up of minutes; `Other` and the steps of `Registry` are what everybody else does
meanwhile. The boards themselves change between commands, not within one.

- `CheckedInFull`: what a report says of a finished name rests on an answer for each of
  its slots, wherever workers, the abort and the signal cut in (`SlotsAnswered`); and
  every name is finished unless the context ended, whatever failed (`NothingDropped`).
- `BlockedIsAborted`: a look-up that has returned is reported as aborted just if
  `maxProbeErrors` probes failed. How many more fail before the cancellation is not bounded,
  and nothing says so.
- `RegisteredOnProof`, `CondemnedOnEvidence`: what the command writes, judged by what the
  boards show and not by its own verdicts.
- `EveryLookUpReturns`: nobody waits on a channel that nobody serves.

### Robots and Crawl

`file[o]` is what an origin answers for robots.txt, as lines that are a user-agent line
(ours, `*`, another), a rule with a pattern (a length and the URLs it matches), another
record or unreadable. `After(lines)[n]` is what `parse` remembers after n of them, one `ReadLine` each, and
`Parse` what it makes of the whole file; `entry[o]` is the `sync.Once`
entry, so `StartLoad` lets one caller in and `Unavailable`, by a failure or the first
caller's cancelled context, is everybody's answer. `Permits` is RFC 9309 itself: a rule is
of every agent that is named at the head of its group, and only a rule ends that head
(section 2.2.4: other records interfere with nothing). `parse` has any other record end it, too (`robots.go:205`), so the two agree on
`Unbroken` files only, those that have no such record among the agent lines of a group.

`reader[r]` is a call of `careers.ListJobs` or of the feed client: `AskRobots`, `Load`,
`Request`, `Redirect` and `CutOff` are `page.Fetch` with `RedirectGuard`,
`AfterListing` and `AfterJob` what the client makes of a page. A job that is `over`
(filled, withdrawn, out of date) may be left out. A feed drops as well, by design, what it
dates unreadably (`Undatable`, `feed.go:131-133`, `docs/priority-companies.md:83`), and the
ingester then closes it. A listing may redirect to any page of its site, and `careers.go:153`
takes the links of the page it lands on for the whole list.

- `PermittedIfUnbroken`: every request, redirected ones too, is one that RFC 9309 permits,
  if the file is `Unbroken`. Without that condition the property fails (see "Seen while
  modelling" below).
- `StaysOnSite` (proved, and in no run): redirects stay on the site and never leave https.
- `ListedInFull`: a listing that is reported without an error misses no job of the page it
  landed on, but those over (and, in a feed, dated unreadably), since what a full source
  leaves out is closed. That the page is the right one it does not say, and nothing does.
- `EveryCrawlReturns`: nobody waits for a robots.txt that nobody reads.
- `OneReads` (proved, and in no run): each robots.txt is read by one reader at a time, and
  whoever waits for it waits for one that is at it.

### Lifecycle and Migrate

`prog[p]` is a process of the command line, `signals[p]` what it was sent, `ctx[p]` its
context. `Hear` and `Insist` are the goroutine of `installSignalHandling`; `Connect`,
`ListenFails`, `SeeTheEnd`, `Drain`, `Release` are `runServe`, where `Drain` gives up at
`SHUTDOWN_TIMEOUT` and `Release` is `pgxpool.Close`, which waits for connections;
`CloseInTime` is `run`'s `closeWithTimeout`.

`schema` is `schema_migrations`, `holder` the advisory lock, `mig[p]` the call.
golang-migrate is external and modelled from its use and the comments on it: the lock
(`Lock`, which may come too late: `LockFails`; `Unlock`), a dirty mark around each file (`NextFile`, `RunFile`), and a graceful
stop between files that returns nil as completion does (`StopsHere`). `Check` is
`checkInterrupted` and `MigrateDownStep`'s view of a missing file.

- `MigrateTellsTheTruth`: success means that all that was asked is done. `OneMigrator`
  (proved): one process at a time touches the schema.
- `ShutdownEnds`: a second signal ends anything; `run` ends after the first, and so does
  `serve` unless one of its requests is never answered. Nothing bounds a handler or its query,
  and the pool that `serve` closes last waits for their connections.

### Listing

`rows[j]` is what the filters read of a job, `client` one client of the API: `FirstPage`,
`NextPage`, `FarPage` are requests through `parseFilter`, `Select` is `Store.List`'s
statement, `CountMatches` its second one for a page without rows, `GetJob` is
`Store.Get`. `Wrapped` is arithmetic of ints that are `MaxInt` wide. `RowChanges` and
`TimePasses` disturb the client.

- `EveryJobOnOnePage`: while nothing changes, the pages list every matching job once,
  newest first, each of them can be opened, and any page number is answered, with the
  number of matches.

### Rules

`Posting` is what the patterns and the tables of places make of a job: the places of its
location, the sentences of its description with what they state of which place, its
title, its workplace type. `Classify` is `filtering.Classify`: `StatedBy` picks
the pattern family of a sentence, `BoardScope`, `AtsScope` and `FromLocation` are the
location rules branch by branch, `Decide` the order of evidence. `Signals` keeps the order
of the text, by position: two places for each sentence (what it states, its time zone),
`Silence` where it says nothing, then the title's; `First` is the `neg[0]` or `pos[0]` that
decides. Which words make a sentence say something is data.

- `VerdictHasGrounds`: a posting that plainly requires applicants to be elsewhere is never
  eligible; eligible has grounds in the location, the market or the text; an office
  elsewhere is not eligible because of a region in its address.

## The runs

Passing runs, with the bound that makes each tractable and why it suffices:

| Run | Instance | Shows |
|---|---|---|
| `ingest` | all faults, re-checks, rediscovery, 2 contents, 2 workers, and either 1 job and 1 board (full or a sample) with 2 processes that overlap, or 1 job claimed by a full and a sampled board, or 2 jobs of 1 board, with processes one after another | types, `SuccessMeansStored`, `ClosedOnEvidence`, `RowsKeepTheirOwner` |
| `live` | a full board read by 2 processes that overlap, or a sample read by 2 in turn; 1 job, all faults | `Converges` |
| `collect` | 1 process, 2 job boards, and any two at full size of 3 jobs, 2 employers and 3 contents whose `Same` is not transitive | types, `ShownOnce`, `KeptAreFiled`, `ListedStaysVisible` |
| `collect_overlap` | 2 processes, faults everywhere, the duplicate check may fail; 1 job that 2 employers claim or 2 jobs of one | `ClosedAgedOrEnded` |
| `runlog` | 3 processes, one of them forced, a gap of 2 ticks, a clock of 4 | types, `AskedIsRecorded`, `NeverLooksOlder`, `GapKept` |
| `eligibility` | 2 runs over 1 job with 2 texts and a remote type, or over 2 jobs that come and go; runs in turn over 2 or 3 jobs, pages of 2; 2 versions of the rules | types, `JudgedAsPosted`, `FinishedMeansClassified`, `Settles` |
| `boards` | 2 names, one of them an everyday word with a domain, 2 slots each on Greenhouse and another ATS, and a job board; 2 workers, an abort at 2 failures, 2 commands in turn beside a person's seeding or 1 beside a job board; and in pairs, 2 candidates of a search, a priority company with 2 boards and a job board | types, `CheckedInFull`, `BlockedIsAborted`, `ReportedIsRegistered`, `RegistryOnlyGains`, `RegisteredOnProof`, `CondemnedOnEvidence`, `EveryLookUpReturns` |
| `program` | scenes: a feed behind every robots.txt of up to 3 of 8 lines, and of 4 that begin with an agent line; a careers page of 2 jobs, one of which the feed dates unreadably, and a feed, with a listing that redirects to another page, a redirect to www. and on to http, 2 hops, 2 job pages; 5 pairs of commands from any version of 2, dirty or not; 3 jobs, 2 of one day, 4 filters, page sizes 0 to 4 and pages to 128 with ints to 127; some 15 000 postings | `PermittedIfUnbroken`, `ListedInFull`, `EveryCrawlReturns`, `MigrateTellsTheTruth`, `ShutdownEnds`, `EveryJobOnOnePage`, `VerdictHasGrounds` |
| `search` | 3 companies, a collector with 2 keywords of 2 pages, another source; 1 retry, a budget of 6, of the 14 queries that could be asked for | types, `AttemptsCounted`, `WithinBudget`, `OneSearchAtATime`, `NothingSentAfterEnd`, `TakeIsAtomic`, `EverySearchReturns` |

Why that is enough. Statements name one target and one identity or a set of
them, so what two processes do to each other shows on one row, what two boards
do to each other on one identity, and a failure between two jobs with two. Two
contents tell a refreshed row from a stale one; two employers make jobs move;
three places are the fewest for which sameness is not transitive, three jobs the
fewest for two listed copies and one stored. `StaleAfter` is one tick (none in
`live`): fresh, within the window and beyond it are all reached. The clock of
`RunLog` stops at `MaxTime`, two whole gaps on. Symmetry (of processes and
contents) is used in `ingest`, which has no liveness property. In `live`,
processes do not overlap on the sample: `Tick` waits for persists of samples to
end, and two processes could alternate so that it never comes.
In `eligibility`, one job shows what a late `Save` does to a newer text or a
newer verdict, two jobs what is inserted behind and before the keyset, three the
second page; the versions matter only as equal or not. In `search`, one retry has
everything that several have, and the budget can run out in a company's search, in
its retry, or anywhere in the collector's loops. Its other source is there for
calls with retries: metered ones have none. Every search has ended in its last
state, so deadlock is not checked there, nor in `boards` and `program`, whose processes
end too (`Rounds` bounds the commands).

In `boards`, two workers are what an abort of one can interrupt, two failures the fewest
at which one worker's do not suffice, and two slots the fewest for ambiguity and for a
name that is cut off mid-way; a board is first looked up as one thing and then as
another. In `program`, the parts share nothing but the process they would run in, so one
at work at a time loses nothing. A group of robots.txt takes an agent line, something
between and another line, next to a second group: four lines. Two migrations have a
version between the ends. A day with two jobs needs the tie-break; page 128 of ints to
127 wraps as 2^63 would, and pages beyond 40 (`MaxPageIndex`) are past the end by the
code's own guard. In `rules`, every location meets a few texts and every text of up to two
sentences a few locations: their product is out of reach, and all that the
reading of a text asks of a location (`Heard`, `Pos`) is whether it names places and
takes Ethiopia in, which the few stand for.

What they do not reach: `collect` has one process, so overlapping invocations meet in
`collect_overlap` only, where openings are not compared; the takers of `search` come one at a
time, as the lock and the collectors' loop have them, so `TakeIsAtomic` meets no two of them
between `Add` and its undo (`TakeImplementsBudget` is proved for the model's steps, the same);
in `boards`, no job's title settles a common name, which `OnProof` covers.

Runs that end in a counterexample, each a statement of the documentation that
the code does not keep:

- `retire_overtaken`: `retireGoneBoard` deactivates and closes in two statements
  and `persist` ignores `is_active`, so an overlapping process with an older
  fetch leaves open jobs under an inactive target. (With `Faults` TRUE one
  process is enough: the statement in between fails or the process dies.)
- `unregistered`: an employer whose registration failed is swept as absent, so a
  job listed in this very run can age out.
- `seeded_touched`: a re-check reads a board's source, looks it up for minutes and
  deactivates it by id: a board that a person seeds in between is deactivated.

Seen while modelling, and not a run of its own:

- Two overlapping collectors both find nothing and both store one opening
  (`collectors.go:289`, `296`; `docs/remote-boards.md:117`), and two that start together
  both pass `tooSoon` (`collectors.go:329`, `346`; `docs/remote-boards.md:51`). `ShownOnce`
  and `GapKept` are stated for invocations that do not overlap or overtake each other.
- A record that is no rule between two user-agent lines ends their group
  (`robots.go:205`), where RFC 9309, by which `docs/priority-companies.md:93` and
  `robots.go:1` say every fetch is checked, has such records interfere with nothing. After
  `User-agent: *`, another record, `User-agent: other` and `Disallow: /`, the crawler finds
  no rule for itself and fetches what the standard forbids: TLC's counterexample to
  `PermittedIfUnbroken` without its condition on the file.
- After `Shutdown` has timed out, `serve` still waits, in the deferred `pgxpool.Close`, for
  connections whose handlers run on, without a bound (`main.go:440`, unlike `run`'s
  `closeWithTimeout`). `ShutdownEnds` has that exception.
- A careers listing that is redirected to another page of its site is read as if it were the
  listing, and what is not linked there is closed. Only a page without links is an error.
- `MockRepository` computes `(page-1)*pageSize` unguarded (`job/mock.go`) and has fewer
  filters than `docs/api.md` lists. It serves only without a database and is not modelled.
- `discover` activates a board that a re-check has condemned (`target.go:86`), on purpose.

## Fairness

`IngestLive`, `Eligibility`, `Search`, `Boards`, `Crawl` and `Migrate` assume it. In
`Boards`, weak fairness of a worker's step, the feeder and the command after its look-up;
in `Crawl`, of each reader's step: requests have a timeout, and the first to ask for a
robots.txt answers for the others. In `Migrate` (`ProgramFairness`), of the signal
goroutine and of `serve`'s and `run`'s own steps, but not of handlers with their queries, nor
of migrations: none of them has a timeout, and a request, the lock and a migration file may
take for ever. Outside its scene, a
reader is `off` and a program has ended, so that fairness asks nothing of them and
excludes no behaviour. In `Search`, weak fairness of each
caller's steps: requests have a timeout and waits a timer. The lock needs no more
than weak fairness, since each company asks for it once; the context need not end. In `Eligibility`, weak fairness of
`StartRun` by the newest binary (each `ingest` ends with it) and of a run's own
steps; errors are never required, and `Settles` is about behaviours in which they
and ingestion come to rest. In `IngestLive`: weak fairness of `StartRun`: cron runs `ingest`
again and again. Weak fairness of a worker's step, of `Dispatch` and of
`FinishRun`: the Go scheduler does not starve a goroutine and every HTTP and
database call has a timeout. Weak fairness of `RecheckClose`: the command goes
on. Strong fairness of `Tick`: days pass between runs. Crashes, failures and
changes of the boards are never required, and stop only once `calm` holds; what
was half-done at that moment is arbitrary. A fetch that reports anything
reports the truth of that moment (`Honest`).

## Proofs

`IngestProofs`, for any sets of processes, targets, identities and contents and
any pool size, from `IngestAssumption` and `StaleAfterAssumption`:

- `TypeCorrect`: `[]TypeOK`, by lemmas on what each table operator returns.
- `ClosingIsJustified`: `ClosedOnEvidence`. `MarkMissingAsRemoved` only looks at
  `seenIDs`, so the proof needs `RunInv`: what a worker has seen is part of what
  it fetched, it holds a real listing while persisting, and at the sweep it has
  seen all of it.
- `OwnershipHolds`: `RowsKeepTheirOwner`, statement by statement.
- `SuccessIsStored`: `SuccessMeansStored`. Not inductive by itself: `StoredInv`
  says, for each stage of an undisturbed persist, what is already stored, and
  the proof shows that writers of other targets cannot touch it.
- `SequentialRunsRetire`: with one process at a time, no re-check beside it and no
  failure (`NothingOverlaps`), `RetiredHasNoOpenJobs` does hold, whatever the boards
  answer, however many workers share the run and whatever discovery finds again. So the
  promise of `processTarget`'s comment fails by overlap or failure alone, as
  `retire_overtaken` shows it does. `RetireInv`: a process works on active targets only,
  but for one it has just deactivated; an inactive target has nothing open unless its
  process is about to close it.

`RunLogProofs`: `TypeCorrect`, `RequestsAreRecorded` (by the invariant itself with types),
`LogMovesForward`, and `GapHolds`: `GapKept` for any number of processes, forced
ones among them. `LateEnough` strengthens it: whoever was let through and not
overtaken since looked at the clock late enough after every request made and
every one about to be made.

`EligibilityProofs`, for any runs, jobs, batch size, versions and contents, from
`EligibilityAssumption` (job ids are positive: the keyset starts at 0):
`TypeCorrect`; `VerdictsAreHonest`, by the invariant that judgements in memory
and in the table alike agree with the hash they carry; `FinishedClassified`, by
`OwedInv`: a job owed to a run has its verdict, or is in the batch in memory
with its present hash, or lies beyond both.

`SearchProofs`, for any finite set of users, any budget, retries, keywords and
pages, from `HttpAssumption` and `SearchAssumption`: `NeverOverBudget` and
`TakeImplementsBudget` from `BudgetInv` (the counter is what was granted plus those
who have yet to undo, and while there are any the budget is spent) and `WireInv`
(requests that have left, with those about to, were paid for); `OneByOne` from
`LockInv`, by which the search under way is the one that has the lock;
`AttemptsBounded` from `CallInv`, the number of requests at each place
of the client's loop; `SilentAfterEnd`; `TypeCorrect`.

`BoardsProofs`, for any companies, boards, tasks, processes and any finite pool, from
`RegistryAssumption`, `GuessAssumption` and `BoardsAssumption` (the command's tasks are the
registrations it can make; the slots are finite). Six invariants, each from the ones
before it:

- `RegistryInv`: no two companies have one website, and what a task has behind it is in
  the registry. `OnlyGains` and `ReportsAreTrue` follow, for every step of every command.
- `GuessInv`: a worker has an answer or a failure for every slot it has left behind, a
  finished name for all of them.
- `PoolInv`: while the context lasts, each name is in the feed, with a worker, or done.
  With `GuessInv` and `TallyInv`, `LooksAtAll` follows.
- `TallyInv`: no two workers have one name, and a slot is asked once (`AloneInv`), so the
  probes that failed are those counted and those about to be (`CountInv`); whoever raised the
  count to the limit swaps `aborted`, nobody else does, and the context is canceled by one
  that has (`AbortInv`). `AbortsWhenBlocked` follows.
- `HonestInv`: an answer that speaks for or against a company is what the board shows.
  `OnProof` follows from it, and from the counting of a name's verified boards.
- `Recheck`: what a re-check has read still is the company's, by `OnlyGains`, and what it
  is about to deactivate is what its report says. `OnEvidence` follows, and `TypeCorrect`.

`CollectorsProofs`, for any processes, sources, employers, identities and contents, any
`Same` that is reflexive and symmetric, and any `StaleAfter`, from `CollectorsAssumption`:

- `CollectInv`: rows are filed under registered targets of their own source (`Filed`), and
  what a run holds fits the place in the code it is at (`Work`). `TypeCorrect` and
  `AbsenceClosesNothing` follow, whatever fails and whoever overlaps.
- `AloneInv`, on top of it, where one invocation follows another and no statement fails
  (`Undisturbed`): no opening is open under two sources but for a row that has just moved;
  every posting of an employer that is done with is stored as found or shown by another
  source; what counts as stored in this run is shown, and not by the source that asks.
  `ShownFromOneSource`, `KeptIsFiled` and `ListedIsVisible` follow.

`Undisturbed` is what the run `collect` assumes too. It cannot be dropped: two overlapping
invocations both find nothing and both store one opening, and when the write after
`MoveJob` fails, the row has its old content under the new employer.

`ProgramProofs` has three parts that share one lemma, that a set of natural numbers has a
least one.

- Readers, for any sites, robots files, redirects and limits, from `RobotsAssumption` and
  `CrawlAssumption` (types only: a redirect may lead anywhere): `NothingLeftOut` from
  `CrawlInv`, by which a job of the page landed on is kept, is over, or lies ahead; `OnSite`
  from the transitivity of what a redirect may do; `ByLeave`, `PermittedIfUnbroken` for files
  of any length. `SaidBy` says, without a fold, what the first n lines have said of each
  agent; `AfterIs` shows that `parse` remembers just that, and `ParseIsStandard` that the
  rules it then picks are those `Permits` goes by if the file is `Unbroken` (`RuleIsStandard`). `PermitInv`: a known entry is what its
  file says, and a request that is about to leave was allowed. `OnceInv`: an entry that is
  being loaded has a reader at it, and only one; `ReadByOne` follows.
- Rules, for any posting, from `RulesAssumption`: `VerdictsHaveGrounds`. A sentence that
  requires applicants to be elsewhere leaves a signal that restricts
  (`RequirementHeard`); one that admits comes of a sentence that welcomes (`PosWelcomes`);
  each branch that ends in eligible then has its grounds (`EligibleFrom`,
  `LocationGrounds`).
- Listing, for any jobs, filters, page sizes and pages and any width of an int, from
  `ListingAssumption`: `EveryJobListed`. The clause has exactly one order (`OneOrder`), a
  page goes on where those before it ended (`PageIs`), and the offset is not wrapped where
  the guard lets it through (`OffsetIs`). `HasRead`, the invariant: a client that nothing
  disturbed has got the beginning of that order, as far as the pages it has passed. The
  assumption has a finite table of at most `MaxPageIndex` jobs: beyond that many the guard
  would call a page past the end that is not; the guard's comment rules that out
  (`store.go:485`: "No real result set has anywhere near this many pages"; it is 2^40).

`MigrateProofs`, for any processes and versions, from `MigrateAssumption`: `OneAtATime`,
and `SuccessIsTrue` from `MigrateInv`. A nil that is not a graceful stop's is the end of
the way (`NilIsTrue`), which takes where a command under the lock has come from
(`OnItsWay`, `StepsBack`), and that nobody else moves the schema meanwhile.

Induction over data is had without an operator as a parameter: were there a line after
which `parse` remembers something else than was said, there would be a first one, and the
line before it contradicts that (`LeastNumber`). So functions on numbers take the place of
folds in `Robots` and `Rules`.

Model-checked only: the liveness properties `Converges`, `Settles`, `EverySearchReturns`,
`EveryLookUpReturns`, `EveryCrawlReturns` and `ShutdownEnds`, since fairness and `ENABLED`
are out of the prover's reach. Every other property of a passing run has a theorem.

## Plan

What is left, in order of weight:

1. The composition of `Eligibility` with `JobTable`, so that verdicts meet moves and
   closings statement by statement.
2. `Openings` (`dedupeOpenings`, `freshJob`), `Paging` (Himalayas) and `Backoff` (the
   client's delays), the pure parts that remain, against reference definitions.

## Not modelled

Parsing of providers' payloads, HTML, seed and names files; the regular expressions, the
tables of places and the relevance of titles; JSON, CORS and middleware of the API;
configuration, logging, `MockRepository` and the priority report: text in, text out, no
shared state. `PROJECT.json` gives the status of every component.
