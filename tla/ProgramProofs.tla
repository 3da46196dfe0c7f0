---------------------------- MODULE ProgramProofs ----------------------------
(* Proofs about Crawl, Rules and Listing, for any sites, robots.txt files,  *)
(* readers and limits, any posting, any jobs and sizes of page.             *)
EXTENDS Crawl, Rules, Listing, SequenceTheorems, FiniteSetTheorems, WellFoundedInduction, TLAPS

(* A set of natural numbers has a least one: the first line, or the first   *)
(* signal, of which something holds.                                        *)

Less == {p \in Nat \X Nat : p[1] < p[2]}

LEMMA LessIs == IsWellFoundedOn(Less, Nat)
<1>1. Less = OpToRel(<, Nat)
  BY DEF Less, OpToRel
<1>2. QED BY <1>1, NatLessThanWellFounded

LEMMA LeastNumber == ASSUME NEW T, T \subseteq Nat, T # {} PROVE \E x \in T : \A y \in T : x <= y
<1>1. PICK x \in T : \A y \in T : ~ (<<y, x>> \in Less)
  BY LessIs, WFMin
<1>2. \A y \in T : x <= y
  <2> TAKE y \in T
  <2>1. <<y, x>> \in Nat \X Nat
    OBVIOUS
  <2>2. ~(y < x)
    BY <1>1, <2>1 DEF Less
  <2>3. QED BY <2>2
<1>3. QED BY <1>2

-----------------------------------------------------------------------------
(* The readers (Crawl, Robots).                                            *)

Busy == {"ask", "load", "request"}
Reader == [at : {"off", "idle"} \cup Busy \cup Ends, url : Urls \cup {"-"}, page : Urls \cup {"-"},
           hops : Nat, list : Urls \cup {"-"}, todo : SUBSET Urls, jobs : SUBSET Urls]

CrawlTypeOK ==
    /\ reader \in [Readers -> Reader]
    /\ \A r \in Readers : reader[r].at \in Busy => reader[r].url \in Urls /\ reader[r].page \in Urls

\* The jobs that a reader of the listing u has to report.
Listed(r, u) == Links[u] \ (IF r \in Feeds THEN over \cup Undatable ELSE over)

\* A reader is on the site it was sent to, on the listing or on a job page of it; what it
\* has not kept is over, or lies ahead.
OnItsWay(x, r) ==
    /\ x.at \in Busy =>
          /\ MayRedirect(x.page, x.url)
          /\ x.list # "-" => r \notin Feeds /\ Listed(r, x.list) \subseteq x.jobs \cup x.todo \cup {x.page}
    /\ x.at = "ok" => Listed(r, x.list) \subseteq x.jobs
    /\ x.at = "idle" => x.list = "-"

CrawlInv == CrawlTypeOK /\ \A r \in Readers : OnItsWay(reader[r], r)

\* What a reader may become.
Next1(x, r) ==
    /\ x \in Reader /\ (x.at \in Busy => x.url \in Urls /\ x.page \in Urls)
    /\ OnItsWay(x, r)

LEMMA InitHolds == CrawlInit => CrawlInv
<1> SUFFICES ASSUME CrawlInit PROVE CrawlInv OBVIOUS
<1>1. \A r \in Readers : reader[r] \in {Waiting, NotCalled}
  BY DEF CrawlInit
<1>2. Waiting \in Reader /\ NotCalled \in Reader /\ Waiting.at = "idle" /\ NotCalled.at = "off"
      /\ Waiting.list = "-"
  BY DEF Waiting, NotCalled, Reader
<1>3. reader \in [Readers -> Reader]
  BY <1>2 DEF CrawlInit
<1>4. QED BY <1>1, <1>2, <1>3 DEF CrawlInv, CrawlTypeOK, OnItsWay, Busy

\* Setting one reader to what it may become keeps the others.
LEMMA SetKeeps ==
    ASSUME CrawlInv, NEW r \in Readers, NEW x, Next1(x, r), Set(r, x), UNCHANGED over
    PROVE  CrawlInv'
<1>1. reader' = [reader EXCEPT ![r] = x]
  BY DEF Set
<1>2. reader'[r] = x /\ \A q \in Readers \ {r} : reader'[q] = reader[q]
  BY <1>1 DEF CrawlInv, CrawlTypeOK
<1>3. CrawlTypeOK'
  BY <1>1, <1>2 DEF CrawlInv, CrawlTypeOK, Next1
<1>4. \A q \in Readers : OnItsWay(reader[q], q)'
  BY <1>2 DEF CrawlInv, Next1, OnItsWay, Listed
<1>5. QED BY <1>3, <1>4 DEF CrawlInv

LEMMA Stays == ASSUME NEW u PROVE MayRedirect(u, u)
BY DEF MayRedirect

\* The next page of those left, or the end.
LEMMA OnwardWay ==
    ASSUME NEW r \in Readers, r \notin Feeds, NEW x \in Reader, Listed(r, x.list) \subseteq x.jobs \cup x.todo,
           NEW y \in Onward(r, x)
    PROVE  Next1(y, r)
<1>1. CASE x.todo = {}
  <2>1. y = [x EXCEPT !.at = "ok"]
    BY <1>1 DEF Onward
  <2>2. y \in Reader /\ y.at = "ok" /\ y.jobs = x.jobs /\ y.list = x.list
    BY <2>1 DEF Reader, Ends
  <2>3. QED BY <1>1, <2>2 DEF Next1, OnItsWay, Busy
<1>2. CASE x.todo # {}
  <2>1. PICK u \in x.todo : y = [x EXCEPT !.at = "ask", !.url = u, !.page = u, !.hops = 0, !.todo = @ \ {u}]
    BY <1>2 DEF Onward
  <2>2. u \in Urls /\ x.todo \ {u} \in SUBSET Urls
    BY DEF Reader
  <2>3. /\ y \in Reader /\ y.at = "ask" /\ y.url = u /\ y.page = u
        /\ y.jobs = x.jobs /\ y.todo = x.todo \ {u} /\ y.list = x.list
    BY <2>1, <2>2 DEF Reader, Busy
  <2>4. QED BY <2>2, <2>3, Stays DEF Next1, OnItsWay, Busy
<1>3. QED BY <1>1, <1>2

\* A fetch that is over, of a page whose job is over when it is said to be.
LEMMA FetchedWay ==
    ASSUME CrawlInv, NEW r \in Readers, reader[r].at \in Busy,
           NEW how, how \in {"gone", "stale"} => reader[r].page \in over, Fetched(r, how),
           UNCHANGED over
    PROVE  CrawlInv'
<1>1. /\ reader[r] \in Reader /\ reader[r].url \in Urls /\ reader[r].page \in Urls
      /\ OnItsWay(reader[r], r)
  BY DEF CrawlInv, CrawlTypeOK
<1>2. ASSUME NEW at \in {"error", "gone"} PROVE Next1(At(r, at), r)
  BY <1>1 DEF At, Next1, Reader, Ends, OnItsWay, Busy
<1>3. ASSUME OnListing(r), NEW x \in AfterListing(r, reader[r].url) PROVE Next1(x, r)
  <2>1. PICK u \in Urls : u = reader[r].url /\ Links[u] \in SUBSET Urls
    BY <1>1, CrawlAssumption
  <2>2. CASE r \in Feeds
    <3>1. x = [At(r, "ok") EXCEPT !.list = u, !.jobs = Listed(r, u)]
      BY <1>3, <2>1, <2>2 DEF AfterListing, FeedJobs, Listed
    <3>2. x \in Reader /\ x.at = "ok" /\ x.list = u /\ x.jobs = Listed(r, u)
      BY <1>1, <2>1, <3>1 DEF At, Reader, Ends, Listed
    <3>3. QED BY <3>2 DEF Next1, OnItsWay, Busy
  <2>3. CASE r \notin Feeds /\ x = At(r, "error")
    BY <1>2, <2>3
  <2>4. CASE r \notin Feeds /\ x \in Onward(r, [reader[r] EXCEPT !.list = u, !.todo = Links[u]])
    <3>1. PICK y : y = [reader[r] EXCEPT !.list = u, !.todo = Links[u]]
      OBVIOUS
    <3>2. y \in Reader /\ y.list = u /\ y.todo = Links[u]
      BY <1>1, <2>1, <3>1 DEF Reader
    <3>3. Listed(r, y.list) \subseteq y.jobs \cup y.todo
      BY <3>2 DEF Listed
    <3>4. QED BY <2>4, <3>1, <3>2, <3>3, OnwardWay
  <2>5. QED BY <1>3, <2>1, <2>2, <2>3, <2>4 DEF AfterListing
<1>4. ASSUME ~OnListing(r), NEW x \in AfterJob(r, how) PROVE Next1(x, r)
  <2> DEFINE jobs == IF Keeps(r, how) THEN reader[r].jobs \cup {reader[r].page} ELSE reader[r].jobs
             y == [reader[r] EXCEPT !.jobs = jobs]
             listed == Listed(r, reader[r].list)
  <2>1. y \in Reader /\ y.jobs = jobs /\ y.todo = reader[r].todo /\ y.list = reader[r].list
    BY <1>1 DEF Reader
  <2>2. r \notin Feeds /\ listed \subseteq reader[r].jobs \cup reader[r].todo \cup {reader[r].page}
    BY <1>1, <1>4 DEF OnItsWay, OnListing
  <2>3. ~Keeps(r, how) => reader[r].page \notin listed
    BY <2>2 DEF Keeps, Listed
  <2>4. listed \subseteq y.jobs \cup y.todo
    BY <2>1, <2>2, <2>3
  <2>5. x \in Onward(r, y)
    BY <1>4 DEF AfterJob
  <2>6. QED BY <2>1, <2>2, <2>4, <2>5, OnwardWay
<1>5. PICK x : Set(r, x) /\ Next1(x, r)
  BY <1>2, <1>3, <1>4 DEF Fetched
<1>6. QED BY <1>5, SetKeeps

\* Each step of a reader, then any step.
LEMMA BeginKeeps == ASSUME CrawlInv, NEW r \in Readers, Begin(r) PROVE CrawlInv'
<1>1. Start[r] \in Urls /\ reader[r] \in Reader
  BY CrawlAssumption DEF CrawlInv, CrawlTypeOK
<1>2. reader[r].list = "-"
  BY DEF Begin, CrawlInv, OnItsWay
<1>3. PICK x : x = Fetch(r, Start[r])
  OBVIOUS
<1>4. x \in Reader /\ x.at = "ask" /\ x.url = Start[r] /\ x.page = Start[r] /\ x.list = "-"
  BY <1>1, <1>2, <1>3 DEF Fetch, Reader, Busy
<1>5. Next1(x, r)
  BY <1>1, <1>4, Stays DEF Next1, OnItsWay, Busy
<1>6. QED BY <1>3, <1>5, SetKeeps DEF Begin

\* Going on with the same page.
LEMMA SamePage ==
    ASSUME CrawlInv, NEW r \in Readers, reader[r].at \in Busy, NEW at \in Busy
    PROVE  Next1(At(r, at), r)
<1>1. /\ reader[r] \in Reader /\ reader[r].url \in Urls /\ reader[r].page \in Urls
      /\ OnItsWay(reader[r], r)
  BY DEF CrawlInv, CrawlTypeOK
<1>2. QED BY <1>1 DEF Next1, At, Reader, OnItsWay, Busy

LEMMA AskKeeps == ASSUME CrawlInv, NEW r \in Readers, AskRobots(r) PROVE CrawlInv'
<1>1. reader[r].at \in Busy /\ UNCHANGED over /\ "load" \in Busy /\ "request" \in Busy
  BY DEF AskRobots, Busy
<1>2. CASE Set(r, At(r, "load"))
  BY <1>1, <1>2, SamePage, SetKeeps
<1>3. CASE Set(r, At(r, "request"))
  BY <1>1, <1>3, SamePage, SetKeeps
<1>4. CASE Fetched(r, "failed")
  BY <1>1, <1>4, FetchedWay
<1>5. QED BY <1>2, <1>3, <1>4 DEF AskRobots

LEMMA LoadKeeps == ASSUME CrawlInv, NEW r \in Readers, Load(r) PROVE CrawlInv'
<1>1. reader[r].at \in Busy /\ "ask" \in Busy
  BY DEF Load, Busy
<1>2. QED BY <1>1, SamePage, SetKeeps DEF Load

LEMMA RequestKeeps == ASSUME CrawlInv, NEW r \in Readers, Request(r) \/ CutOff(r) PROVE CrawlInv'
<1>1. reader[r].at \in Busy /\ UNCHANGED over
  BY DEF Request, CutOff, Busy
<1>2. PICK how : Fetched(r, how) /\ (how \in {"gone", "stale"} => reader[r].page \in over)
  BY DEF Request, CutOff
<1>3. QED BY <1>1, <1>2, FetchedWay

LEMMA RedirectKeeps == ASSUME CrawlInv, NEW r \in Readers, Redirect(r) PROVE CrawlInv'
<1>1. /\ reader[r].at \in Busy /\ UNCHANGED over
      /\ reader[r] \in Reader /\ reader[r].url \in Urls /\ reader[r].page \in Urls
      /\ OnItsWay(reader[r], r)
  BY DEF Redirect, Busy, CrawlInv, CrawlTypeOK
<1>2. ASSUME NEW v \in RedirectTo[reader[r].url], MayRedirect(reader[r].url, v)
      PROVE  Next1([reader[r] EXCEPT !.at = "ask", !.url = v, !.hops = @ + 1], r)
  <2> DEFINE x == [reader[r] EXCEPT !.at = "ask", !.url = v, !.hops = @ + 1]
  <2>1. v \in Urls
    BY <1>1, CrawlAssumption
  <2>2. /\ x \in Reader /\ x.at = "ask" /\ x.url = v
        /\ x.page = reader[r].page /\ x.jobs = reader[r].jobs /\ x.todo = reader[r].todo
        /\ x.list = reader[r].list
    <3>1. reader[r].hops + 1 \in Nat /\ "ask" \in Busy
      BY <1>1 DEF Reader, Busy
    <3>2. QED BY <1>1, <2>1, <3>1 DEF Reader
  <2>3. MayRedirect(reader[r].page, v)
    BY <1>1, <1>2 DEF MayRedirect, OnItsWay
  <2>4. QED BY <1>1, <2>1, <2>2, <2>3 DEF Next1, OnItsWay, Busy
<1>3. CASE Fetched(r, "failed")
  BY <1>1, <1>3, FetchedWay
<1>4. QED BY <1>1, <1>2, <1>3, SetKeeps DEF Redirect

LEMMA StepKeeps == CrawlInv /\ [CrawlNext]_crawlVars => CrawlInv'
<1> SUFFICES ASSUME CrawlInv, [CrawlNext]_crawlVars PROVE CrawlInv' OBVIOUS
<1>1. ASSUME NEW r \in Readers, CrawlStep(r) PROVE CrawlInv'
  BY <1>1, BeginKeeps, AskKeeps, LoadKeeps, RequestKeeps, RedirectKeeps DEF CrawlStep
<1>2. CASE Cancel \/ UNCHANGED crawlVars
  <2>1. UNCHANGED <<reader, over>>
    BY <1>2 DEF Cancel, crawlVars
  <2>2. QED BY <2>1 DEF CrawlInv, CrawlTypeOK, OnItsWay, Listed
<1>3. QED BY <1>1, <1>2 DEF CrawlNext

-----------------------------------------------------------------------------
(* What has been said of an agent once n lines are read.  To the checker, a *)
(* rule is of the agents of the last run of agent lines with nothing among  *)
(* them.                                                                    *)

InGroup(lines, n, who) ==
    \E j \in 1..n :
        /\ lines[j].key = "user-agent" /\ lines[j].value = who
        /\ \A k \in (j + 1)..n : lines[k].key = "user-agent" => lines[k - 1].key = "user-agent"

RuleRead(lines, i, who) == IsRule(lines[i]) /\ lines[i].value.len > 0 /\ InGroup(lines, i - 1, who)

Rule(lines, i) == [allow |-> lines[i].key = "allow", pattern |-> lines[i].value]
RulesOf(lines, n, who) == {Rule(lines, i) : i \in {i \in 1..n : RuleRead(lines, i, who)}}
Names(lines, n) == \E i \in 1..n : lines[i].key = "user-agent" /\ lines[i].value = "us"
AgentLast(lines, n) == n > 0 /\ lines[n].key = "user-agent"

SaidBy(lines, n) ==
    [specific |-> RulesOf(lines, n, "us"), wildcard |-> RulesOf(lines, n, "*"),
     named |-> Names(lines, n),
     inSpecific |-> InGroup(lines, n, "us"), inWild |-> InGroup(lines, n, "*"),
     afterAgent |-> AgentLast(lines, n)]

\* Before the first line, nothing.
LEMMA SaidFirst == ASSUME NEW lines PROVE SaidBy(lines, 0) = Fresh
<1>1. 1..0 = {}
  OBVIOUS
<1>2. /\ RulesOf(lines, 0, "us") = {} /\ RulesOf(lines, 0, "*") = {}
      /\ Names(lines, 0) = FALSE
      /\ InGroup(lines, 0, "us") = FALSE /\ InGroup(lines, 0, "*") = FALSE /\ AgentLast(lines, 0) = FALSE
  BY <1>1 DEF RulesOf, Names, InGroup, AgentLast
<1>3. QED BY <1>2 DEF SaidBy, Fresh

\* An agent line goes on with the group of the agent lines before it, or begins one.
LEMMA AgentLine ==
    ASSUME NEW lines \in Seq(Line), NEW n \in 1..Len(lines), lines[n].key = "user-agent", NEW who
    PROVE  InGroup(lines, n, who) <=> (AgentLast(lines, n - 1) /\ InGroup(lines, n - 1, who)) \/ lines[n].value = who
<1>1. ASSUME lines[n].value = who PROVE InGroup(lines, n, who)
  BY <1>1 DEF InGroup
<1>2. ASSUME AgentLast(lines, n - 1), InGroup(lines, n - 1, who) PROVE InGroup(lines, n, who)
  <2>1. PICK j \in 1..(n - 1) :
            /\ lines[j].key = "user-agent" /\ lines[j].value = who
            /\ \A k \in (j + 1)..(n - 1) : lines[k].key = "user-agent" => lines[k - 1].key = "user-agent"
    BY <1>2 DEF InGroup
  <2>2. \A k \in (j + 1)..n : k = n \/ k \in (j + 1)..(n - 1)
    OBVIOUS
  <2>3. j \in 1..n /\ lines[n - 1].key = "user-agent"
    BY <1>2 DEF AgentLast
  <2>4. QED BY <2>1, <2>2, <2>3 DEF InGroup
<1>3. ASSUME InGroup(lines, n, who), lines[n].value # who
      PROVE  AgentLast(lines, n - 1) /\ InGroup(lines, n - 1, who)
  <2>1. PICK j \in 1..n :
            /\ lines[j].key = "user-agent" /\ lines[j].value = who
            /\ \A k \in (j + 1)..n : lines[k].key = "user-agent" => lines[k - 1].key = "user-agent"
    BY <1>3 DEF InGroup
  <2>2. j # n
    BY <1>3, <2>1
  <2>3. j \in 1..(n - 1) /\ n \in (j + 1)..n /\ \A k \in (j + 1)..(n - 1) : k \in (j + 1)..n
    BY <2>2
  <2>4. QED BY <2>1, <2>3 DEF InGroup, AgentLast
<1>4. QED BY <1>1, <1>2, <1>3

\* Any other line leaves the group as it is.
LEMMA OtherLine ==
    ASSUME NEW lines \in Seq(Line), NEW n \in 1..Len(lines), lines[n].key # "user-agent", NEW who
    PROVE  InGroup(lines, n, who) <=> InGroup(lines, n - 1, who)
<1>1. ASSUME InGroup(lines, n - 1, who) PROVE InGroup(lines, n, who)
  <2>1. PICK j \in 1..(n - 1) :
            /\ lines[j].key = "user-agent" /\ lines[j].value = who
            /\ \A k \in (j + 1)..(n - 1) : lines[k].key = "user-agent" => lines[k - 1].key = "user-agent"
    BY <1>1 DEF InGroup
  <2>2. j \in 1..n /\ \A k \in (j + 1)..n : k = n \/ k \in (j + 1)..(n - 1)
    OBVIOUS
  <2>3. QED BY <2>1, <2>2 DEF InGroup
<1>2. ASSUME InGroup(lines, n, who) PROVE InGroup(lines, n - 1, who)
  <2>1. PICK j \in 1..n :
            /\ lines[j].key = "user-agent" /\ lines[j].value = who
            /\ \A k \in (j + 1)..n : lines[k].key = "user-agent" => lines[k - 1].key = "user-agent"
    BY <1>2 DEF InGroup
  <2>2. j # n
    BY <2>1
  <2>3. j \in 1..(n - 1) /\ \A k \in (j + 1)..(n - 1) : k \in (j + 1)..n
    BY <2>2
  <2>4. QED BY <2>1, <2>3 DEF InGroup
<1>3. QED BY <1>1, <1>2

\* A line adds its own rule to those before it, if it is one.
LEMMA RulesGrow ==
    ASSUME NEW lines \in Seq(Line), NEW n \in 1..Len(lines), NEW who
    PROVE  RulesOf(lines, n, who) =
               IF RuleRead(lines, n, who) THEN RulesOf(lines, n - 1, who) \cup {Rule(lines, n)}
               ELSE RulesOf(lines, n - 1, who)
<1>1. 1..n = (1..(n - 1)) \cup {n}
  OBVIOUS
<1>2. QED BY <1>1 DEF RulesOf

\* The file names this program once one of its lines does.
LEMMA NamesGrow ==
    ASSUME NEW lines \in Seq(Line), NEW n \in 1..Len(lines)
    PROVE  Names(lines, n) <=> Names(lines, n - 1) \/ (lines[n].key = "user-agent" /\ lines[n].value = "us")
<1>1. 1..n = (1..(n - 1)) \cup {n}
  OBVIOUS
<1>2. QED BY <1>1 DEF Names

\* ReadLine keeps what has been read to what has been said.
LEMMA SaidNext ==
    ASSUME NEW lines \in Seq(Line), NEW n \in 1..Len(lines)
    PROVE  SaidBy(lines, n) = ReadLine(SaidBy(lines, n - 1), lines[n])
<1> DEFINE g == SaidBy(lines, n - 1)
           line == lines[n]
<1>0. line.key \in {"user-agent", "allow", "disallow", "other", "unreadable"}
  BY DEF Line
<1>a. /\ g.specific = RulesOf(lines, n - 1, "us") /\ g.wildcard = RulesOf(lines, n - 1, "*")
      /\ g.named = Names(lines, n - 1)
      /\ g.inSpecific = InGroup(lines, n - 1, "us") /\ g.inWild = InGroup(lines, n - 1, "*")
      /\ g.afterAgent = AgentLast(lines, n - 1)
  BY DEF SaidBy
<1>b. /\ Names(lines, n) \in BOOLEAN /\ Names(lines, n - 1) \in BOOLEAN
      /\ AgentLast(lines, n) \in BOOLEAN /\ AgentLast(lines, n - 1) \in BOOLEAN
      /\ \A who : InGroup(lines, n, who) \in BOOLEAN /\ InGroup(lines, n - 1, who) \in BOOLEAN
  BY DEF Names, AgentLast, InGroup
<1>1. CASE line.key = "user-agent"
  <2>1. AgentLast(lines, n) = TRUE
    BY <1>1 DEF AgentLast
  <2>2. /\ InGroup(lines, n, "us") = ((g.afterAgent /\ g.inSpecific) \/ line.value = "us")
        /\ InGroup(lines, n, "*") = ((g.afterAgent /\ g.inWild) \/ line.value = "*")
        /\ Names(lines, n) = (g.named \/ line.value = "us")
    BY <1>1, <1>a, <1>b, AgentLine, NamesGrow, Zenon
  <2>3. /\ RulesOf(lines, n, "us") = g.specific /\ RulesOf(lines, n, "*") = g.wildcard
    <3>1. \A who : ~RuleRead(lines, n, who)
      BY <1>1 DEF RuleRead, IsRule
    <3>2. \A who : RulesOf(lines, n, who) = RulesOf(lines, n - 1, who)
      BY <3>1, RulesGrow
    <3>3. QED BY <3>2, <1>a
  <2>4. ReadLine(g, line) = ReadAgent(g, line.value)
    BY <1>1 DEF ReadLine
  <2>5. QED BY <2>1, <2>2, <2>3, <2>4 DEF SaidBy, ReadAgent
<1>2. CASE line.key \in {"allow", "disallow"}
  <2>1. line.key # "user-agent"
    BY <1>2
  <2>2. /\ AgentLast(lines, n) = FALSE
        /\ InGroup(lines, n, "us") = g.inSpecific /\ InGroup(lines, n, "*") = g.inWild
        /\ Names(lines, n) = g.named
    BY <2>1, <1>a, <1>b, OtherLine, NamesGrow DEF AgentLast
  <2>3. /\ RulesOf(lines, n, "us") = With(g.specific, g.inSpecific, line)
        /\ RulesOf(lines, n, "*") = With(g.wildcard, g.inWild, line)
    <3>1. \A who : RulesOf(lines, n, who) =
              IF line.value.len > 0 /\ InGroup(lines, n - 1, who)
              THEN RulesOf(lines, n - 1, who) \cup {Rule(lines, n)} ELSE RulesOf(lines, n - 1, who)
      BY <1>2, RulesGrow DEF RuleRead, IsRule
    <3>2. QED BY <3>1, <1>a DEF With, Rule
  <2>4. ReadLine(g, line) = [g EXCEPT !.afterAgent = FALSE,
                      !.specific = With(@, g.inSpecific, line),
                      !.wildcard = With(@, g.inWild, line)]
    BY <1>2, <2>1 DEF ReadLine
  <2>5. QED BY <2>2, <2>3, <2>4 DEF SaidBy
<1>3. CASE line.key \in {"other", "unreadable"}
  <2>1. line.key \notin {"user-agent", "allow", "disallow"}
    BY <1>3
  <2>2. /\ AgentLast(lines, n) = FALSE
        /\ InGroup(lines, n, "us") = g.inSpecific /\ InGroup(lines, n, "*") = g.inWild
        /\ Names(lines, n) = g.named
    BY <2>1, <1>a, <1>b, OtherLine, NamesGrow DEF AgentLast
  <2>3. /\ RulesOf(lines, n, "us") = g.specific /\ RulesOf(lines, n, "*") = g.wildcard
    <3>1. \A who : ~RuleRead(lines, n, who)
      BY <2>1 DEF RuleRead, IsRule
    <3>2. \A who : RulesOf(lines, n, who) = RulesOf(lines, n - 1, who)
      BY <3>1, RulesGrow
    <3>3. QED BY <3>2, <1>a
  <2>4. ReadLine(g, line) = [g EXCEPT !.afterAgent = FALSE]
    BY <2>1 DEF ReadLine
  <2>5. QED BY <2>2, <2>3, <2>4 DEF SaidBy
<1>4. QED BY <1>0, <1>1, <1>2, <1>3

\* So it is after every line: of the lines after which it is not, there would be a first.
LEMMA AfterIs ==
    ASSUME NEW lines \in Seq(Line)
    PROVE  \A n \in 0..Len(lines) : After(lines)[n] = SaidBy(lines, n)
<1> DEFINE Reads(g) == g = [n \in 0..Len(lines) |-> IF n = 0 THEN Fresh ELSE ReadLine(g[n - 1], lines[n])]
           all == [n \in 0..Len(lines) |-> SaidBy(lines, n)]
<1>1. Reads(all)
  <2>1. ASSUME NEW n \in 0..Len(lines)
        PROVE  SaidBy(lines, n) = IF n = 0 THEN Fresh ELSE ReadLine(all[n - 1], lines[n])
    <3>1. CASE n = 0
      BY <3>1, SaidFirst
    <3>2. CASE n # 0
      <4>1. n \in 1..Len(lines) /\ n - 1 \in 0..Len(lines)
        BY <3>2
      <4>2. all[n - 1] = SaidBy(lines, n - 1)
        BY <4>1
      <4>3. QED BY <3>2, <4>1, <4>2, SaidNext
    <3>3. QED BY <3>1, <3>2
  <2>2. QED BY <2>1
<1>2. Reads(After(lines))
  <2>1. After(lines) = CHOOSE g : Reads(g)
    BY DEF After
  <2>2. QED BY <1>1, <2>1
<1>3. DEFINE wrong == {n \in 0..Len(lines) : After(lines)[n] # SaidBy(lines, n)}
<1>4. SUFFICES ASSUME wrong # {} PROVE FALSE
  OBVIOUS
<1>5. PICK n \in wrong : \A m \in wrong : n <= m
  <2>1. wrong \subseteq Nat
    OBVIOUS
  <2>2. QED BY <1>4, <2>1, LeastNumber
<1>6. CASE n = 0
  BY <1>2, <1>6, SaidFirst
<1>7. CASE n # 0
  <2>1. n \in 1..Len(lines) /\ n - 1 \in 0..Len(lines) /\ n - 1 \notin wrong
    BY <1>5, <1>7
  <2>2. After(lines)[n - 1] = SaidBy(lines, n - 1)
    BY <2>1
  <2>3. After(lines)[n] = ReadLine(After(lines)[n - 1], lines[n])
    BY <1>2, <1>7, <2>1
  <2>4. QED BY <2>1, <2>2, <2>3, SaidNext
<1>8. QED BY <1>6, <1>7

\* Where nothing stands among the agent lines of a group, the checker reads a rule as
\* RFC 9309 does: between two agent lines of two groups there is a rule, and of one there is
\* none.
LEMMA RuleIsStandard ==
    ASSUME NEW lines \in Seq(Line), Unbroken(lines),
           \A i \in DOMAIN lines : lines[i].key # "unreadable",
           NEW i \in 1..Len(lines), NEW who
    PROVE  RuleRead(lines, i, who) <=> RuleOf(lines, i, who)
<1>0. Len(lines) \in Nat /\ DOMAIN lines = 1..Len(lines)
  OBVIOUS
<1>1. \A k \in 1..Len(lines) : lines[k].key \in {"user-agent", "allow", "disallow", "other"}
  BY <1>0 DEF Line
<1> DEFINE InARow(j, k) == \A h \in (j + 1)..k : IsAgent(lines[h]) => IsAgent(lines[h - 1])
           NoRule(j, k) == \A h \in (j + 1)..k : IsAgent(lines[h]) => \A m \in j..h : ~IsRule(lines[m])
<1>2. ASSUME NEW j \in 1..(i - 1), IsAgent(lines[j]), InARow(j, i) PROVE NoRule(j, i)
  <2> SUFFICES ASSUME NEW h \in (j + 1)..i, IsAgent(lines[h]), NEW m \in j..h, IsRule(lines[m]) PROVE FALSE
    OBVIOUS
  <2>1. m \in (j + 1)..(h - 1)
    BY <1>2 DEF IsAgent, IsRule
  <2> DEFINE after == {g \in (m + 1)..h : IsAgent(lines[g])}
  <2>2. after \subseteq Nat /\ h \in after
    BY <2>1
  <2>3. PICK g \in after : \A e \in after : g <= e
    BY <2>2, LeastNumber
  <2>4. g \in (j + 1)..i /\ g \in (m + 1)..h /\ IsAgent(lines[g])
    BY <2>1, <2>3
  <2>5. IsAgent(lines[g - 1])
    BY <1>2, <2>4
  <2>6. g - 1 # m
    BY <2>5 DEF IsAgent, IsRule
  <2>7. g - 1 \in after
    BY <2>4, <2>5, <2>6
  <2>8. QED BY <2>2, <2>3, <2>7
<1>3. ASSUME NEW j \in 1..(i - 1), IsAgent(lines[j]), NoRule(j, i) PROVE InARow(j, i)
  <2> SUFFICES ASSUME NEW h \in (j + 1)..i, IsAgent(lines[h]), ~IsAgent(lines[h - 1]) PROVE FALSE
    OBVIOUS
  <2>1. \A m \in j..h : ~IsRule(lines[m])
    BY <1>3
  <2>2. h - 1 \in 1..Len(lines) /\ h - 1 \in j..h /\ j < h /\ j \in DOMAIN lines /\ h \in DOMAIN lines
    BY <1>0
  <2>3. lines[h - 1].key = "other"
    BY <1>1, <2>1, <2>2 DEF IsAgent, IsRule
  <2>4. \E m \in j..h : IsRule(lines[m])
    BY <1>3, <2>2, <2>3 DEF Unbroken
  <2>5. QED BY <2>1, <2>4
<1>4. ASSUME IsRule(lines[i]), NEW j \in 1..(i - 1)
      PROVE  InARow(j, i) <=> \A h \in (j + 1)..(i - 1) : IsAgent(lines[h]) => IsAgent(lines[h - 1])
  <2>1. \A h : h \in (j + 1)..i <=> h = i \/ h \in (j + 1)..(i - 1)
    OBVIOUS
  <2>2. ~IsAgent(lines[i])
    BY <1>4 DEF IsAgent, IsRule
  <2>3. QED BY <2>1, <2>2
<1>5. IsRule(lines[i]) =>
          (InGroup(lines, i - 1, who) <=>
               \E j \in 1..(i - 1) : IsAgent(lines[j]) /\ lines[j].value = who /\ InARow(j, i))
  <2>1. InGroup(lines, i - 1, who) <=>
            \E j \in 1..(i - 1) :
                /\ IsAgent(lines[j]) /\ lines[j].value = who
                /\ \A h \in (j + 1)..(i - 1) : IsAgent(lines[h]) => IsAgent(lines[h - 1])
    BY DEF InGroup, IsAgent
  <2> HIDE DEF InARow
  <2>2. QED BY <1>4, <2>1
<1>6. \A j \in 1..(i - 1) : IsAgent(lines[j]) => (InARow(j, i) <=> NoRule(j, i))
  BY <1>2, <1>3
<1>7. RuleOf(lines, i, who) <=>
          /\ IsRule(lines[i]) /\ lines[i].value.len > 0
          /\ \E j \in 1..(i - 1) : IsAgent(lines[j]) /\ lines[j].value = who /\ NoRule(j, i)
  BY DEF RuleOf
<1> HIDE DEF InARow, NoRule
<1>8. QED BY <1>5, <1>6, <1>7 DEF RuleRead

\* What the checker makes of such a file is what RFC 9309 makes of it.
LEMMA ParseIsStandard ==
    ASSUME NEW lines \in Seq(Line), Unbroken(lines), NEW u \in Urls
    PROVE  Allows(Parse(lines), u) <=> Permits(lines, u)
<1> DEFINE who == IF Names(lines, Len(lines)) THEN "us" ELSE "*"
<1>0. Len(lines) \in Nat /\ DOMAIN lines = 1..Len(lines)
  OBVIOUS
<1>1. CASE \E i \in DOMAIN lines : lines[i].key = "unreadable"
  <2>1. Parse(lines) = NothingAllowed
    BY <1>1 DEF Parse
  <2>2. ~Allows(NothingAllowed, u)
    <3> DEFINE no == [allow |-> FALSE, pattern |-> [len |-> 1, hits |-> Urls]]
    <3>1. no \in {r \in NothingAllowed : u \in r.pattern.hits} /\ \A r \in NothingAllowed : ~r.allow
      BY DEF NothingAllowed
    <3>2. QED BY <3>1 DEF Allows
  <2>3. QED BY <1>1, <2>1, <2>2 DEF Permits
<1>2. CASE \A i \in DOMAIN lines : lines[i].key # "unreadable"
  <2>1. After(lines)[Len(lines)] = SaidBy(lines, Len(lines))
    BY <1>0, AfterIs
  <2>2. Parse(lines) = RulesOf(lines, Len(lines), who)
    BY <1>2, <2>1 DEF Parse, SaidBy
  <2>3. Governing(lines) = {i \in 1..Len(lines) : RuleOf(lines, i, who)}
    BY <1>0 DEF Governing, Names, IsAgent
  <2> HIDE DEF who
  <2>4. Parse(lines) = {Rule(lines, i) : i \in Governing(lines)}
    <3>1. \A i \in 1..Len(lines) : RuleRead(lines, i, who) <=> RuleOf(lines, i, who)
      BY <1>2, RuleIsStandard
    <3>2. {i \in 1..Len(lines) : RuleRead(lines, i, who)} = Governing(lines)
      BY <2>3, <3>1
    <3>3. QED BY <2>2, <3>2 DEF RulesOf
  <2> DEFINE hit == {r \in Parse(lines) : u \in r.pattern.hits}
             at == {i \in Governing(lines) : u \in lines[i].value.hits}
  <2>5. \A i : /\ Rule(lines, i).pattern = lines[i].value
               /\ Rule(lines, i).allow <=> lines[i].key = "allow"
    BY DEF Rule
  <2>6. hit = {Rule(lines, i) : i \in at}
    BY <2>4, <2>5
  <2>7. ASSUME NEW i
        PROVE (\A q \in hit : q.pattern.len <= lines[i].value.len)
              <=> (\A k \in at : lines[k].value.len <= lines[i].value.len)
    BY <2>5, <2>6
  <2>8. (\E r \in hit : r.allow /\ \A q \in hit : q.pattern.len <= r.pattern.len)
        <=> (\E i \in at : lines[i].key = "allow" /\ \A k \in at : lines[k].value.len <= lines[i].value.len)
    BY <2>5, <2>6, <2>7
  <2>9. hit = {} <=> at = {}
    BY <2>6
  <2>10. QED BY <1>2, <2>8, <2>9 DEF Allows, Permits
<1>3. QED BY <1>1, <1>2

-----------------------------------------------------------------------------
(* An answer of the checker is there to stay, and is what the file says.    *)

RobotsTypeOK ==
    /\ file \in [Origins -> {NoFile, NoAnswer} \cup [status : {"found"}, lines : Files]]
    /\ entry \in [Origins -> [at : {"new", "loading", "known", "unavailable"},
                            rules : {Unread.rules} \cup {Loaded(o).rules : o \in Origins}]]

Honest == \A o \in Origins : entry[o].at = "known" => entry[o] = Loaded(o)

Asked == \A r \in Readers : reader[r].at = "request" => Allowed(reader[r].url)

PermitInv == RobotsTypeOK /\ Honest /\ Asked

LEMMA PermitInit == CrawlInit => PermitInv
<1> SUFFICES ASSUME CrawlInit PROVE PermitInv OBVIOUS
<1>1. RobotsTypeOK /\ Honest
  BY DEF CrawlInit, RobotsInit, RobotsTypeOK, Honest, Unread
<1>2. \A r \in Readers : reader[r].at # "request"
  BY DEF CrawlInit, Waiting, NotCalled
<1>3. QED BY <1>1, <1>2 DEF PermitInv, Asked

\* What reading an origin's file leaves alone, and what it comes to.
LEMMA EntryKeeps ==
    ASSUME CrawlInv, PermitInv, NEW o \in Origins,
           StartLoad(o) \/ FinishLoad(o) \/ UNCHANGED robotsVars
    PROVE  /\ RobotsTypeOK' /\ Honest'
           /\ \A u \in Urls : Allowed(u) => Allowed(u)'
<1>1. file' = file /\ \A q : Loaded(q)' = Loaded(q)
  BY DEF StartLoad, FinishLoad, robotsVars, Loaded
<1>2. Loaded(o).at \in {"known", "unavailable"} /\ Loaded(o) = [at |-> Loaded(o).at, rules |-> Loaded(o).rules]
      /\ Unavailable = [at |-> "unavailable", rules |-> Unread.rules]
  BY DEF Loaded, Unavailable, Unread
<1>3. CASE StartLoad(o)
  <2>1. /\ entry[o].at = "new" /\ entry' = [entry EXCEPT ![o] = [entry[o] EXCEPT !.at = "loading"]]
        /\ entry \in [Origins -> [at : {"new", "loading", "known", "unavailable"},
                            rules : {Unread.rules} \cup {Loaded(q).rules : q \in Origins}]]
    BY <1>3 DEF StartLoad, PermitInv, RobotsTypeOK
  <2>2. [entry[o] EXCEPT !.at = "loading"] \in
            [at : {"new", "loading", "known", "unavailable"}, rules : {Unread.rules} \cup {Loaded(q).rules : q \in Origins}]
    BY <2>1
  <2>3. RobotsTypeOK'
    BY <1>1, <2>1, <2>2 DEF PermitInv, RobotsTypeOK
  <2>4. \A q \in Origins : q # o => entry'[q] = entry[q]
    BY <2>1
  <2>5. entry'[o].at = "loading"
    BY <2>1
  <2>6. QED BY <1>1, <2>1, <2>3, <2>4, <2>5, RobotsAssumption DEF PermitInv, Honest, Allowed
<1>4. CASE FinishLoad(o)
  <2>1. PICK e \in {Loaded(o), Unavailable} : entry[o].at = "loading" /\ entry' = [entry EXCEPT ![o] = e]
    BY <1>4 DEF FinishLoad
  <2>2. e \in [at : {"new", "loading", "known", "unavailable"}, rules : {Unread.rules} \cup {Loaded(q).rules : q \in Origins}]
    BY <1>2, <2>1
  <2>3. RobotsTypeOK'
    BY <1>1, <2>1, <2>2 DEF PermitInv, RobotsTypeOK
  <2>4. entry'[o] = e /\ \A q \in Origins : q # o => entry'[q] = entry[q]
    BY <2>1 DEF PermitInv, RobotsTypeOK
  <2>5. e.at = "known" => e = Loaded(o)
    BY <1>2, <2>1
  <2>6. QED BY <1>1, <2>1, <2>3, <2>4, <2>5, RobotsAssumption DEF PermitInv, Honest, Allowed
<1>5. CASE UNCHANGED robotsVars
  BY <1>5 DEF robotsVars, PermitInv, RobotsTypeOK, Honest, Allowed, Loaded
<1>6. QED BY <1>3, <1>4, <1>5

\* A reader may go on to the request only of a page that is allowed.
LEMMA MoveKeeps ==
    ASSUME CrawlInv, PermitInv, NEW o \in Origins,
           StartLoad(o) \/ FinishLoad(o) \/ UNCHANGED robotsVars,
           NEW r \in Readers, NEW x, Set(r, x), x.at = "request" => x.url \in Urls /\ Allowed(x.url)
    PROVE  PermitInv'
<1>1. reader'[r] = x /\ \A q \in Readers \ {r} : reader'[q] = reader[q]
  BY DEF Set, CrawlInv, CrawlTypeOK
<1>2. ASSUME NEW q \in Readers, reader'[q].at = "request"
      PROVE  \E v : v = reader'[q].url /\ Allowed(v)'
  <2>1. PICK v \in Urls : v = reader'[q].url /\ Allowed(v)
    BY <1>1, <1>2 DEF PermitInv, Asked, CrawlInv, CrawlTypeOK, Busy
  <2>2. Allowed(v)'
    BY <2>1, EntryKeeps
  <2>3. QED BY <2>1, <2>2
<1>3. Asked'
  BY <1>2 DEF Asked, Allowed
<1>4. QED BY <1>3, EntryKeeps DEF PermitInv

\* A fetch that is over leads to no request, and to no robots.txt, before another question.
LEMMA FetchedAsks ==
    ASSUME CrawlInv, NEW r \in Readers, reader[r].at \in Busy, NEW how, Fetched(r, how)
    PROVE  \E x : Set(r, x) /\ x.at \notin {"request", "load"}
<1>1. reader[r] \in Reader
  BY DEF CrawlInv, CrawlTypeOK
<1>2. ASSUME NEW at \in {"error", "gone", "ok"} PROVE At(r, at).at \notin {"request", "load"}
  BY <1>1 DEF At, Reader
<1>3. ASSUME NEW y \in Reader, NEW x \in Onward(r, y) PROVE x.at \notin {"request", "load"}
  BY DEF Onward, Reader
<1>4. ASSUME OnListing(r), reader[r].url \in Urls, NEW x \in AfterListing(r, reader[r].url) PROVE x.at \notin {"request", "load"}
  <2>1. [reader[r] EXCEPT !.list = reader[r].url, !.todo = Links[reader[r].url]] \in Reader
    BY <1>1, <1>4, CrawlAssumption DEF Reader
  <2>2. [At(r, "ok") EXCEPT !.list = reader[r].url,
                            !.jobs = FeedJobs(reader[r].url)].at \notin {"request", "load"}
    BY <1>1 DEF At, Reader
  <2>3. QED BY <1>2, <1>3, <1>4, <2>1, <2>2 DEF AfterListing
<1>5. ASSUME NEW x \in AfterJob(r, how), reader[r].page \in Urls PROVE x.at \notin {"request", "load"}
  <2> DEFINE jobs == IF Keeps(r, how) THEN reader[r].jobs \cup {reader[r].page} ELSE reader[r].jobs
  <2>1. [reader[r] EXCEPT !.jobs = jobs] \in Reader
    BY <1>1, <1>5 DEF Reader
  <2>2. QED BY <1>3, <1>5, <2>1 DEF AfterJob
<1>6. reader[r].url \in Urls /\ reader[r].page \in Urls
  BY DEF CrawlInv, CrawlTypeOK
<1>7. QED BY <1>2, <1>4, <1>5, <1>6 DEF Fetched

LEMMA PermitKeeps == CrawlInv /\ PermitInv /\ [CrawlNext]_crawlVars => PermitInv'
<1> SUFFICES ASSUME CrawlInv, PermitInv, [CrawlNext]_crawlVars PROVE PermitInv' OBVIOUS
<1>1. ASSUME NEW r \in Readers, CrawlStep(r) PROVE PermitInv'
  <2> DEFINE o == OriginOf[reader[r].url]
  <2>0. reader[r] \in Reader
    BY DEF CrawlInv, CrawlTypeOK
  <2>1. CASE Begin(r)
    <3>1. Fetch(r, Start[r]).at = "ask"
      BY <2>0 DEF Fetch, Reader
    <3>2. Start[r] \in Urls /\ OriginOf[Start[r]] \in Origins
      BY CrawlAssumption, RobotsAssumption
    <3>3. QED BY <2>1, <3>1, <3>2, MoveKeeps DEF Begin
  <2> DEFINE Busily == reader[r].at \in Busy
  <2>2. ASSUME Busily PROVE reader[r].url \in Urls /\ reader[r].page \in Urls /\ o \in Origins
    BY <2>2, RobotsAssumption DEF CrawlInv, CrawlTypeOK
  <2>3. ASSUME Busily, NEW how, Fetched(r, how), UNCHANGED robotsVars PROVE PermitInv'
    <3>1. PICK x : Set(r, x) /\ x.at \notin {"request", "load"}
      BY <2>3, FetchedAsks
    <3>2. QED BY <2>2, <2>3, <3>1, MoveKeeps
  <2>4. CASE AskRobots(r)
    <3>1. Busily
      BY <2>4 DEF AskRobots, Busy
    <3>2. CASE StartLoad(o) /\ Set(r, At(r, "load"))
      <4>1. At(r, "load").at = "load"
        BY <2>0 DEF At, Reader
      <4>2. QED BY <2>2, <3>1, <3>2, <4>1, MoveKeeps
    <3>3. CASE Allowed(reader[r].url) /\ Set(r, At(r, "request")) /\ UNCHANGED robotsVars
      <4>1. At(r, "request").url = reader[r].url
        BY <2>0 DEF At, Reader
      <4>2. QED BY <2>2, <3>1, <3>3, <4>1, MoveKeeps
    <3>4. CASE Fetched(r, "failed") /\ UNCHANGED robotsVars
      BY <2>3, <3>1, <3>4
    <3>5. QED BY <2>4, <3>2, <3>3, <3>4 DEF AskRobots
  <2>5. CASE Load(r)
    <3>1. Busily /\ FinishLoad(o) /\ Set(r, At(r, "ask"))
      BY <2>5 DEF Load, Busy
    <3>2. At(r, "ask").at = "ask"
      BY <2>0 DEF At, Reader
    <3>3. QED BY <2>2, <3>1, <3>2, MoveKeeps
  <2>6. CASE Request(r) \/ CutOff(r)
    <3>1. Busily /\ UNCHANGED robotsVars /\ \E how : Fetched(r, how)
      BY <2>6 DEF Request, CutOff, Busy
    <3>2. QED BY <2>3, <3>1
  <2>7. CASE Redirect(r)
    <3>1. Busily /\ UNCHANGED robotsVars
      BY <2>7 DEF Redirect, Busy
    <3>2. ASSUME NEW v, Set(r, [reader[r] EXCEPT !.at = "ask", !.url = v, !.hops = @ + 1])
          PROVE  PermitInv'
      <4>1. [reader[r] EXCEPT !.at = "ask", !.url = v, !.hops = @ + 1].at = "ask"
        BY <2>0 DEF Reader
      <4>2. QED BY <2>2, <3>1, <3>2, <4>1, MoveKeeps
    <3>3. QED BY <2>3, <2>7, <3>1, <3>2 DEF Redirect
  <2>8. QED BY <1>1, <2>1, <2>4, <2>5, <2>6, <2>7 DEF CrawlStep
<1>2. CASE Cancel \/ UNCHANGED crawlVars
  <2>1. UNCHANGED <<file, entry, reader>>
    BY <1>2 DEF Cancel, crawlVars, robotsVars
  <2>2. \A q : Loaded(q)' = Loaded(q)
    BY <2>1 DEF Loaded
  <2>3. RobotsTypeOK' /\ Honest'
    BY <2>1, <2>2 DEF PermitInv, RobotsTypeOK, Honest
  <2>4. Asked'
    BY <2>1 DEF PermitInv, Asked, Allowed
  <2>5. QED BY <2>3, <2>4 DEF PermitInv
<1>3. QED BY <1>1, <1>2 DEF CrawlNext

\* Whoever may ask, may fetch.
LEMMA AllowedMayFetch ==
    ASSUME PermitInv, NEW u \in Urls, Allowed(u), Unbroken(file[OriginOf[u]].lines) PROVE MayFetch(u)
<1> DEFINE o == OriginOf[u]
           f == file[o]
<1>1. o \in Origins /\ f \in {NoFile, NoAnswer} \cup [status : {"found"}, lines : Files]
  BY RobotsAssumption DEF PermitInv, RobotsTypeOK
<1>2. entry[o] = Loaded(o) /\ entry[o].at = "known" /\ Allows(entry[o].rules, u)
  BY <1>1 DEF Allowed, PermitInv, Honest
<1>3. f.status # "unavailable"
  BY <1>2 DEF Loaded, Unavailable, Unread
<1>4. CASE f.status = "none"
  BY <1>4 DEF MayFetch
<1>5. CASE f.status = "found" /\ f.lines \in Files
  <2>1. entry[o].rules = Parse(f.lines)
    BY <1>2, <1>5 DEF Loaded
  <2>2. QED BY <1>2, <1>5, <2>1, ParseIsStandard, RobotsAssumption DEF MayFetch
<1>6. QED BY <1>1, <1>3, <1>4, <1>5 DEF NoFile, NoAnswer

-----------------------------------------------------------------------------
(* Each robots.txt has one reader.                                          *)

\* Who reads a file has been let in.
LetIn == \A r \in Readers : reader[r].at = "load" => entry[OriginOf[reader[r].url]].at = "loading"

OnceInv == OneReads /\ LetIn

LEMMA OnceInit == CrawlInit => OnceInv
<1> SUFFICES ASSUME CrawlInit PROVE OnceInv OBVIOUS
<1>1. ASSUME NEW r \in Readers PROVE reader[r].at # "load"
  <2>1. reader[r] \in {Waiting, NotCalled}
    BY DEF CrawlInit
  <2>2. QED BY <2>1 DEF Waiting, NotCalled
<1>2. ASSUME NEW o \in Origins PROVE entry[o].at = "new"
  BY DEF CrawlInit, RobotsInit, Unread
<1>3. QED BY <1>1, <1>2 DEF OnceInv, OneReads, LetIn

\* A reader that neither begins nor ends to read a file leaves everything as it is.
LEMMA OthersRead ==
    ASSUME CrawlInv, OnceInv, UNCHANGED entry, NEW r \in Readers, reader[r].at # "load",
           NEW x, Set(r, x), x.at # "load"
    PROVE  OnceInv'
<1>1. reader'[r] = x /\ \A q \in Readers \ {r} : reader'[q] = reader[q]
  BY DEF Set, CrawlInv, CrawlTypeOK
<1>2. QED BY <1>1 DEF OnceInv, OneReads, LetIn

LEMMA OnceKeeps == CrawlInv /\ PermitInv /\ OnceInv /\ [CrawlNext]_crawlVars => OnceInv'
<1> SUFFICES ASSUME CrawlInv, PermitInv, OnceInv, [CrawlNext]_crawlVars PROVE OnceInv' OBVIOUS
<1>1. ASSUME NEW r \in Readers, CrawlStep(r) PROVE OnceInv'
  <2> DEFINE o == OriginOf[reader[r].url]
  <2>1. reader[r] \in Reader
    BY DEF CrawlInv, CrawlTypeOK
  <2>2. ASSUME NEW at PROVE At(r, at).at = at /\ At(r, at).url = reader[r].url
    BY <2>1 DEF At, Reader
  <2>3. ASSUME NEW how, reader[r].at \in Busy, reader[r].at # "load", Fetched(r, how), UNCHANGED robotsVars
        PROVE  OnceInv'
    BY <2>3, FetchedAsks, OthersRead DEF robotsVars
  <2>4. CASE Begin(r)
    <3>1. Fetch(r, Start[r]).at = "ask"
      BY <2>1 DEF Fetch, Reader
    <3>2. QED BY <2>4, <3>1, OthersRead DEF Begin, robotsVars
  <2>5. CASE AskRobots(r)
    <3>1. reader[r].at = "ask" /\ reader[r].url \in Urls /\ o \in Origins
      BY <2>5, RobotsAssumption DEF AskRobots, CrawlInv, CrawlTypeOK, Busy
    <3>2. CASE StartLoad(o) /\ Set(r, At(r, "load"))
      <4>1. /\ reader'[r].at = "load" /\ OriginOf[reader'[r].url] = o
            /\ \A q \in Readers \ {r} : reader'[q] = reader[q]
        BY <2>2, <3>2 DEF Set, CrawlInv, CrawlTypeOK
      <4>2. /\ entry[o].at = "new" /\ entry'[o].at = "loading"
            /\ \A q \in Origins : q # o => entry'[q] = entry[q]
        BY <3>1, <3>2 DEF StartLoad, PermitInv, RobotsTypeOK
      <4>3. \A q \in Readers \ {r} : reader[q].at = "load" =>
                OriginOf[reader[q].url] \in Origins /\ OriginOf[reader[q].url] # o
        BY <4>2, RobotsAssumption DEF OnceInv, LetIn, CrawlInv, CrawlTypeOK, Busy
      <4>4. OneReads'
        BY <4>1, <4>2, <4>3 DEF OnceInv, OneReads
      <4>5. LetIn'
        BY <4>1, <4>2, <4>3 DEF OnceInv, LetIn
      <4>6. QED BY <4>4, <4>5 DEF OnceInv
    <3>3. CASE Set(r, At(r, "request")) /\ UNCHANGED robotsVars
      BY <2>2, <3>1, <3>3, OthersRead DEF robotsVars
    <3>4. CASE Fetched(r, "failed") /\ UNCHANGED robotsVars
      BY <2>3, <3>1, <3>4 DEF Busy
    <3>5. QED BY <2>5, <3>2, <3>3, <3>4 DEF AskRobots
  <2>6. CASE Load(r)
    <3>1. reader[r].at = "load" /\ reader[r].url \in Urls /\ o \in Origins
      BY <2>6, RobotsAssumption DEF Load, CrawlInv, CrawlTypeOK, Busy
    <3>2. reader'[r].at = "ask" /\ \A q \in Readers \ {r} : reader'[q] = reader[q]
      BY <2>2, <2>6 DEF Load, Set, CrawlInv, CrawlTypeOK
    <3>3. PICK e \in {Loaded(o), Unavailable} : entry' = [entry EXCEPT ![o] = e]
      BY <2>6 DEF Load, FinishLoad
    <3>4. entry'[o].at # "loading" /\ \A q \in Origins : q # o => entry'[q] = entry[q]
      BY <3>1, <3>3 DEF PermitInv, RobotsTypeOK, Loaded, Unavailable, Unread
    <3>5. \A q \in Readers \ {r} : reader[q].at = "load" =>
              OriginOf[reader[q].url] \in Origins /\ OriginOf[reader[q].url] # o
      BY <3>1, RobotsAssumption DEF OnceInv, OneReads, CrawlInv, CrawlTypeOK, Busy
    <3>6. OneReads'
      BY <3>1, <3>2, <3>4 DEF OnceInv, OneReads
    <3>7. LetIn'
      BY <3>2, <3>4, <3>5 DEF OnceInv, LetIn
    <3>8. QED BY <3>6, <3>7 DEF OnceInv
  <2>7. CASE Request(r) \/ CutOff(r)
    <3>1. reader[r].at = "request" /\ UNCHANGED robotsVars /\ \E how : Fetched(r, how)
      BY <2>7 DEF Request, CutOff
    <3>2. QED BY <2>3, <3>1 DEF Busy
  <2>8. CASE Redirect(r)
    <3>1. reader[r].at = "request" /\ UNCHANGED robotsVars
      BY <2>8 DEF Redirect
    <3>2. ASSUME NEW v, Set(r, [reader[r] EXCEPT !.at = "ask", !.url = v, !.hops = @ + 1])
          PROVE  OnceInv'
      <4>1. [reader[r] EXCEPT !.at = "ask", !.url = v, !.hops = @ + 1].at = "ask"
        BY <2>1 DEF Reader
      <4>2. QED BY <3>1, <3>2, <4>1, OthersRead DEF robotsVars
    <3>3. CASE Fetched(r, "failed")
      BY <2>3, <3>1, <3>3 DEF Busy
    <3>4. QED BY <2>8, <3>2, <3>3 DEF Redirect
  <2>9. QED BY <1>1, <2>4, <2>5, <2>6, <2>7, <2>8 DEF CrawlStep
<1>2. CASE Cancel \/ UNCHANGED crawlVars
  BY <1>2 DEF Cancel, crawlVars, robotsVars, OnceInv, OneReads, LetIn
<1>3. QED BY <1>1, <1>2 DEF CrawlNext

-----------------------------------------------------------------------------
(* Theorems.                                                               *)

\* Whatever job pages fail, are forbidden or redirect, a reader that reports a listing misses
\* no job that the page it landed on links to and that is not over; a feed, none that has no
\* date or one that can be read (Crawl.ListedInFull).
THEOREM NothingLeftOut == CrawlSpec => []ListedInFull
<1>1. CrawlInv => ListedInFull
  BY DEF CrawlInv, OnItsWay, Listed, ListedInFull
<1>2. QED BY <1>1, InitHolds, StepKeeps, PTL DEF CrawlSpec

\* However many redirects it follows, a reader stays on the site it was sent to, and on
\* https if it was sent there (Crawl.StaysOnSite).
THEOREM OnSite == CrawlSpec => []StaysOnSite
<1>1. CrawlInv => StaysOnSite
  BY DEF CrawlInv, OnItsWay, Busy, StaysOnSite
<1>2. QED BY <1>1, InitHolds, StepKeeps, PTL DEF CrawlSpec

\* No page is requested but by leave of its origin's robots.txt, read as RFC 9309 has it,
\* whatever else the file says and however many readers share the answer, if no record of
\* another kind stands among the agent lines of a group.  Of other files it is not true: there
\* parse leaves the standard (Crawl.PermittedIfUnbroken).
THEOREM ByLeave == CrawlSpec => []PermittedIfUnbroken
<1>1. CrawlInv /\ PermitInv => PermittedIfUnbroken
  <2> SUFFICES ASSUME CrawlInv, PermitInv, NEW r \in Readers, reader[r].at = "request",
                      Unbroken(file[OriginOf[reader[r].url]].lines)
               PROVE  MayFetch(reader[r].url)
    BY DEF PermittedIfUnbroken
  <2>1. reader[r].url \in Urls /\ Allowed(reader[r].url)
    BY DEF CrawlInv, CrawlTypeOK, Busy, PermitInv, Asked
  <2>2. QED BY <2>1, AllowedMayFetch
<1>2. QED BY <1>1, InitHolds, StepKeeps, PermitInit, PermitKeeps, PTL DEF CrawlSpec

\* One reader at a time reads a robots.txt, for any number of readers, redirects, failures
\* and a cancellation, and nobody waits for one that no reader is at (Crawl.OneReads).
THEOREM ReadByOne == CrawlSpec => []OneReads
<1>1. CrawlInv /\ PermitInv /\ OnceInv => OneReads
  BY DEF OnceInv
<1>2. QED BY <1>1, InitHolds, StepKeeps, PermitInit, PermitKeeps, OnceInit, OnceKeeps, PTL DEF CrawlSpec

-----------------------------------------------------------------------------
(* The rules (Rules).                                                      *)

LEMMA MinIs == ASSUME NEW T, T \subseteq Nat, T # {} PROVE Min(T) \in T /\ \A y \in T : Min(T) <= y
BY LeastNumber DEF Min

\* Where the signals of a posting come from.
LEMMA SignalsFrom ==
    ASSUME NEW p \in Posting
    PROVE  /\ DOMAIN Signals(p) = 1..(2 * Len(p.text) + Len(p.title))
           /\ \A n \in 1..(2 * Len(p.text)) : Signals(p)[n] = ScanDescription(p.text)[n]
           /\ \A n \in DOMAIN Signals(p) \ (1..(2 * Len(p.text))) :
                  \E i \in DOMAIN p.title : Signals(p)[n] = Statement("only in", p.title[i][1], FALSE, p.title[i][2])
<1> DEFINE a == ScanDescription(p.text)
           b == ScanTitle(p.title)
<1>1. p.text \in Seq(Sentence) /\ p.title \in Seq(PlaceKinds \X BOOLEAN)
  BY DEF Posting
<1>2. Len(p.text) \in Nat /\ Len(p.title) \in Nat /\ DOMAIN p.title = 1..Len(p.title)
  BY <1>1
<1>3. DOMAIN a = 1..(2 * Len(p.text)) /\ a \in Seq(Range(a) \cup Range(b)) /\ Len(a) = 2 * Len(p.text)
  <2>1. a \in [1..(2 * Len(p.text)) -> Range(a) \cup Range(b)]
    BY DEF ScanDescription, Range
  <2>2. QED BY <1>2, <2>1
<1>4. DOMAIN b = 1..Len(p.title) /\ b \in Seq(Range(a) \cup Range(b)) /\ Len(b) = Len(p.title)
  <2>1. b \in [1..Len(p.title) -> Range(a) \cup Range(b)]
    BY <1>2 DEF ScanTitle, Range
  <2>2. QED BY <1>2, <2>1
<1>5. \A i \in 1..Len(p.title) : b[i] = Statement("only in", p.title[i][1], FALSE, p.title[i][2])
  BY <1>2 DEF ScanTitle
<1> HIDE DEF a, b
<1>6. Signals(p) = a \o b
  BY DEF Signals, a, b
<1>7. /\ DOMAIN Signals(p) = 1..(Len(a) + Len(b))
      /\ \A n \in 1..(Len(a) + Len(b)) : Signals(p)[n] = IF n <= Len(a) THEN a[n] ELSE b[n - Len(a)]
  <2> DEFINE R == Range(a) \cup Range(b)
  <2>1. a \in Seq(R) /\ b \in Seq(R)
    BY <1>3, <1>4
  <2> HIDE DEF R
  <2>2. /\ (a \o b) \in Seq(R) /\ Len(a \o b) = Len(a) + Len(b)
        /\ \A n \in 1..(Len(a) + Len(b)) : (a \o b)[n] = IF n <= Len(a) THEN a[n] ELSE b[n - Len(a)]
    BY <2>1, ConcatProperties
  <2>3. DOMAIN (a \o b) = 1..Len(a \o b)
    BY <2>2, LenProperties
  <2>4. QED BY <1>6, <2>2, <2>3
<1>8. ASSUME NEW n \in DOMAIN Signals(p) \ (1..(2 * Len(p.text)))
      PROVE  \E i \in DOMAIN p.title : Signals(p)[n] = Statement("only in", p.title[i][1], FALSE, p.title[i][2])
  <2>1. n \in 1..(Len(a) + Len(b)) /\ n \notin 1..Len(a) /\ Len(a) \in Nat
    BY <1>2, <1>3, <1>7
  <2>2. n - Len(a) \in 1..Len(p.title) /\ ~(n <= Len(a))
    BY <1>4, <2>1
  <2>3. Signals(p)[n] = b[n - Len(a)]
    BY <1>7, <2>1, <2>2
  <2>4. n - Len(a) \in DOMAIN p.title
    BY <1>2, <2>2
  <2>5. QED BY <1>5, <2>2, <2>3, <2>4
<1>9. ASSUME NEW n \in 1..(2 * Len(p.text)) PROVE Signals(p)[n] = a[n]
  <2>1. Len(a) = 2 * Len(p.text) /\ Len(a) \in Nat /\ Len(b) \in Nat
    BY <1>2, <1>3, <1>4
  <2>2. n \in 1..(Len(a) + Len(b)) /\ n <= Len(a)
    BY <2>1
  <2>3. QED BY <1>7, <2>2
<1>10. QED BY <1>3, <1>4, <1>7, <1>8, <1>9 DEF a

\* Each sentence has two places among the signals: what it states, and its time zone.
LEMMA ScanIs ==
    ASSUME NEW p \in Posting, NEW n \in 1..(2 * Len(p.text))
    PROVE  \E i \in DOMAIN p.text :
              /\ n = 2 * i - 1 \/ n = 2 * i
              /\ ScanDescription(p.text)[n] =
                    IF p.text[i].negated THEN Silence
                    ELSE IF n = 2 * i - 1 THEN StatedBy(p.text[i]) ELSE ZoneOf(p.text[i])
<1>1. p.text \in Seq(Sentence) /\ Len(p.text) \in Nat /\ DOMAIN p.text = 1..Len(p.text)
  BY DEF Posting
<1> DEFINE i == (n + 1) \div 2
<1>2. i \in 1..Len(p.text) /\ (n % 2 = 1 => n = 2 * i - 1) /\ (n % 2 # 1 => n = 2 * i)
  BY <1>1
<1>3. ScanDescription(p.text)[n] = IF p.text[i].negated THEN Silence
                                   ELSE IF n % 2 = 1 THEN StatedBy(p.text[i]) ELSE ZoneOf(p.text[i])
  BY DEF ScanDescription
<1> HIDE DEF i
<1>4. n % 2 = 1 <=> n = 2 * i - 1
  BY <1>2
<1>5. QED BY <1>1, <1>2, <1>3, <1>4

LEMMA OddIn ==
    ASSUME NEW i \in Int, NEW t \in Nat, NEW u \in Nat, 1 <= i, i <= t
    PROVE  2 * i - 1 \in 1..(2 * t) /\ 2 * i - 1 \in 1..(2 * t + u)
OBVIOUS

\* A sentence that is not negated is heard.
LEMMA StatedAt ==
    ASSUME NEW p \in Posting, NEW i \in DOMAIN p.text, ~p.text[i].negated
    PROVE  /\ 2 * i - 1 \in DOMAIN Signals(p)
           /\ Signals(p)[2 * i - 1] = StatedBy(p.text[i])
<1>1. p.text \in Seq(Sentence) /\ Len(p.text) \in Nat /\ DOMAIN p.text = 1..Len(p.text)
      /\ p.title \in Seq(PlaceKinds \X BOOLEAN) /\ Len(p.title) \in Nat
  BY DEF Posting
<1> DEFINE n == 2 * i - 1
<1>2. /\ n \in 1..(2 * Len(p.text)) /\ n \in 1..(2 * Len(p.text) + Len(p.title))
      /\ (n + 1) \div 2 = i /\ n % 2 = 1
  <2>1. i \in Int /\ 1 <= i /\ i <= Len(p.text)
    BY <1>1
  <2>2. n + 1 = 2 * i
    BY <2>1
  <2>3. (2 * i) \div 2 = i
    BY <2>1
  <2>4. n % 2 = 1
    BY <2>1
  <2>5. n \in 1..(2 * Len(p.text)) /\ n \in 1..(2 * Len(p.text) + Len(p.title))
    BY <1>1, <2>1, OddIn
  <2> HIDE DEF n
  <2>6. QED BY <2>2, <2>3, <2>4, <2>5
<1>3. ScanDescription(p.text)[n] = StatedBy(p.text[i])
  BY <1>2 DEF ScanDescription
<1>4. QED BY <1>2, <1>3, SignalsFrom

\* The family that speaks: the one found in the order the patterns are tried.
LEMMA Speaks ==
    ASSUME NEW s \in Sentence
    PROVE  LET f == IF Said(s) = {} THEN "none" ELSE Families[Min(Said(s))]
           IN /\ f # "none" => f \in s.says
              /\ "only" \in s.says \/ "residency" \in s.says =>
                    f \in {"only", "residency"} \/ (f = "outside" /\ "outside" \in s.says)
              /\ f \in {"none", "outside", "only", "residency", "hint", "authorization", "not outside", "open"}
<1>1. DOMAIN Families = 1..7
  BY DEF Families
<1>2. Said(s) \subseteq 1..7
  BY <1>1 DEF Said
<1>3. /\ Families[1] = "outside" /\ Families[2] = "only" /\ Families[3] = "residency"
      /\ Families[4] = "hint" /\ Families[5] = "authorization" /\ Families[6] = "not outside" /\ Families[7] = "open"
  BY DEF Families
<1>4. ("only" \in s.says => 2 \in Said(s)) /\ ("residency" \in s.says => 3 \in Said(s))
  <2>1. 2 \in DOMAIN Families /\ 3 \in DOMAIN Families
    BY <1>1
  <2>2. QED BY <2>1, <1>3 DEF Said
<1>5. CASE Said(s) = {}
  BY <1>4, <1>5
<1>6. CASE Said(s) # {}
  <2>1. PICK m \in Said(s) : m = Min(Said(s)) /\ \A n \in Said(s) : m <= n
    <3>1. Said(s) \subseteq Nat
      BY <1>2
    <3>2. QED BY <1>6, <3>1, MinIs
  <2>2. m \in 1..7 /\ Families[m] \in s.says
    BY <1>2 DEF Said
  <2>3. "only" \in s.says \/ "residency" \in s.says => m \in {1, 2, 3}
    BY <1>4, <2>1, <2>2
  <2>4. m \in {1, 2, 3, 4, 5, 6, 7}
    BY <2>2
  <2>5. Families[m] \in {"outside", "only", "residency", "hint", "authorization", "not outside", "open"}
    BY <1>3, <2>4
  <2>6. "only" \in s.says \/ "residency" \in s.says => Families[m] \in {"outside", "only", "residency"}
    BY <1>3, <2>3
  <2>7. QED BY <1>6, <2>1, <2>2, <2>5, <2>6
<1>7. QED BY <1>5, <1>6

\* What a sentence says of places and of hours, by the words in it.
LEMMA SentenceSays ==
    ASSUME NEW s \in Sentence
    PROVE  /\ Requires(s) => StatedBy(s) = Statement("only in", s.of, TRUE, FALSE)
           /\ ~s.negated /\ Admits(StatedBy(s)) # "none" => Welcomes(s)
           /\ ~s.negated /\ Admits(ZoneOf(s)) # "none" => Welcomes(s)
<1> DEFINE f == IF Said(s) = {} THEN "none" ELSE Families[Min(Said(s))]
           places == IF s.except THEN "not in" ELSE "only in"
<1>1. /\ f # "none" => f \in s.says
      /\ "only" \in s.says \/ "residency" \in s.says => f \in {"only", "residency"} \/ (f = "outside" /\ "outside" \in s.says)
      /\ f \in {"none", "outside", "only", "residency", "hint", "authorization", "not outside", "open"}
  BY Speaks
<1>2. /\ f = "outside" => StatedBy(s) = Statement("not in", s.of, FALSE, FALSE)
      /\ f = "only" => StatedBy(s) = Statement(places, s.of, TRUE, s.relocation)
      /\ f = "residency" => StatedBy(s) = Statement(places, s.of, TRUE, FALSE)
      /\ f = "hint" => StatedBy(s) = Statement("only in", s.of, FALSE, TRUE)
      /\ f = "authorization" => StatedBy(s) = Statement("authorized in", s.of, FALSE, FALSE)
      /\ f = "not outside" => StatedBy(s) = Statement("only in", s.of, FALSE, FALSE)
      /\ f = "open" => StatedBy(s) = Statement("open", s.of, TRUE, FALSE)
      /\ f = "none" => StatedBy(s) = Silence
  <2> HIDE DEF f
  <2>1. StatedBy(s) =
         CASE f = "outside" -> Statement("not in", s.of, FALSE, FALSE)
         [] f = "only" -> Statement(places, s.of, TRUE, s.relocation)
         [] f = "residency" -> Statement(places, s.of, TRUE, FALSE)
         [] f = "hint" -> Statement("only in", s.of, FALSE, TRUE)
         [] f = "authorization" -> Statement("authorized in", s.of, FALSE, FALSE)
         [] f = "not outside" -> Statement("only in", s.of, FALSE, FALSE)
         [] f = "open" -> Statement("open", s.of, TRUE, FALSE)
         [] OTHER -> Silence
    BY DEF StatedBy, f
  <2>2. QED BY <2>1
<1> HIDE DEF f
<1>3. ASSUME Requires(s) PROVE StatedBy(s) = Statement("only in", s.of, TRUE, FALSE)
  <2>1. f \in {"only", "residency"} /\ s.relocation = FALSE /\ s.except = FALSE
    BY <1>1, <1>3 DEF Requires, Sentence
  <2>2. QED BY <1>2, <2>1
<1>4. ASSUME NEW kind, NEW of, NEW strong, NEW weak
      PROVE  /\ Statement(kind, of, strong, weak).kind = kind
             /\ Statement(kind, of, strong, weak).strong = strong
             /\ Statement(kind, of, strong, weak).weak = weak
             /\ Statement(kind, of, strong, weak).covers = Covers(of)
             /\ Statement(kind, of, strong, weak).zone = "none"
  BY DEF Statement
<1>5. ASSUME ~s.negated, Admits(StatedBy(s)) # "none" PROVE Welcomes(s)
  <2>0. PICK x : x = StatedBy(s)
    OBVIOUS
  <2>1. (x.kind = "only in" /\ x.strong) \/ (x.kind = "open" /\ x.strong) \/ (x.kind = "zone" /\ x.zone = "in")
    BY <1>5, <2>0 DEF Admits
  <2>2. f \in {"only", "residency", "open"}
    <3>1. ASSUME f \in {"none", "outside", "authorization"} PROVE FALSE
      <4>1. PICK kind \in {"nothing", "not in", "authorized in"} : x = Statement(kind, s.of, FALSE, FALSE) \/ x = Statement(kind, "country", FALSE, FALSE)
        BY <1>2, <2>0, <3>1 DEF Silence
      <4>2. x.kind = kind
        <5>1. \A of : Statement(kind, of, FALSE, FALSE).kind = kind
          BY DEF Statement
        <5>2. QED BY <4>1, <5>1
      <4>3. QED BY <2>1, <4>2
    <3>2. ASSUME f \in {"hint", "not outside"} PROVE FALSE
      <4>1. PICK weak : x = Statement("only in", s.of, FALSE, weak)
        BY <1>2, <2>0, <3>2
      <4>2. x.kind = "only in" /\ x.strong = FALSE
        BY <4>1 DEF Statement
      <4>3. QED BY <2>1, <4>2
    <3>3. QED BY <1>1, <3>1, <3>2
  <2>3. QED BY <1>1, <1>5, <2>2 DEF Welcomes
<1>6. ASSUME ~s.negated, Admits(ZoneOf(s)) # "none" PROVE Welcomes(s)
  <2>1. s.zone # "none"
    <3>1. Silence.kind = "nothing"
      BY DEF Silence, Statement
    <3>2. Admits(Silence) = "none"
      BY <3>1 DEF Admits
    <3>3. QED BY <1>6, <3>2 DEF ZoneOf
  <2>2. ZoneOf(s).kind = "zone" /\ ZoneOf(s).zone = s.zone
    BY <2>1 DEF ZoneOf, Statement
  <2>3. s.zone = "in"
    BY <1>6, <2>2 DEF Admits
  <2>4. QED BY <1>6, <2>3 DEF Welcomes
<1>7. QED BY <1>3, <1>5, <1>6

\* What speaks for candidates in Ethiopia is a sentence that welcomes them.
LEMMA PosWelcomes ==
    ASSUME NEW p \in Posting, NEW n \in Pos(p)
    PROVE  /\ \E i \in DOMAIN p.text : Welcomes(p.text[i])
           /\ Admits(Signals(p)[n]) = "timezone_window" => ~Limits(p)
<1>0. PICK x : x = Signals(p)[n]
  OBVIOUS
<1>1. n \in DOMAIN Signals(p) /\ Admits(x) # "none" /\ ~(x.kind = "zone" /\ Limits(p))
  BY <1>0 DEF Pos, Heard
<1>2. n \in 1..(2 * Len(p.text))
  <2>1. ASSUME n \in DOMAIN Signals(p) \ (1..(2 * Len(p.text))) PROVE FALSE
    <3>1. PICK i \in DOMAIN p.title : x = Statement("only in", p.title[i][1], FALSE, p.title[i][2])
      BY <1>0, <2>1, SignalsFrom
    <3>2. x.kind = "only in" /\ x.strong = FALSE
      BY <3>1 DEF Statement
    <3>3. QED BY <1>1, <3>2 DEF Admits
  <2>2. QED BY <1>1, <2>1
<1>3. PICK i \in DOMAIN p.text :
          /\ n = 2 * i - 1 \/ n = 2 * i
          /\ x = IF p.text[i].negated THEN Silence
                 ELSE IF n = 2 * i - 1 THEN StatedBy(p.text[i]) ELSE ZoneOf(p.text[i])
  <2>1. x = ScanDescription(p.text)[n]
    BY <1>0, <1>2, SignalsFrom
  <2>2. QED BY <1>2, <2>1, ScanIs
<1>4. Admits(Silence) = "none"
  BY DEF Silence, Statement, Admits
<1>5. ~p.text[i].negated /\ (x = StatedBy(p.text[i]) \/ x = ZoneOf(p.text[i]))
  BY <1>1, <1>3, <1>4
<1>6. p.text[i] \in Sentence
  BY DEF Posting
<1>7. Welcomes(p.text[i])
  BY <1>1, <1>5, <1>6, SentenceSays
<1>8. Admits(x) = "timezone_window" => x.kind = "zone"
  BY DEF Admits
<1>9. QED BY <1>0, <1>1, <1>7, <1>8

\* A requirement to be elsewhere is heard, whatever the location says.
LEMMA RequirementHeard ==
    ASSUME NEW p \in Posting, NEW i \in DOMAIN p.text, Requires(p.text[i])
    PROVE  Neg(p) # {}
<1> DEFINE n == 2 * i - 1
           x == Statement("only in", p.text[i].of, TRUE, FALSE)
<1>1. p.text[i] \in Sentence /\ ~p.text[i].negated /\ ~Covers(p.text[i].of)
  BY DEF Posting, Requires
<1>2. n \in DOMAIN Signals(p) /\ Signals(p)[n] = x
  BY <1>1, StatedAt, SentenceSays
<1>3. x.weak = FALSE /\ x.kind = "only in" /\ ~x.covers
  BY <1>1 DEF Statement
<1>4. Restricts(x) # "none"
  <2>1. Restricts(x) = "restricted_places"
    BY <1>3 DEF Restricts
  <2>2. QED BY <2>1
<1> HIDE DEF n, x
<1>5. QED BY <1>2, <1>3, <1>4 DEF Neg, Heard

LEMMA Statuses3 ==
    ASSUME NEW status, NEW basis
    PROVE  Is(status, basis).status = status /\ Is(status, basis).basis = basis
BY DEF Is

\* Where the job is, on an ATS.
LEMMA AtsGrounds ==
    ASSUME NEW p \in Posting, AtsScope(p).status = "eligible"
    PROVE  /\ TakesIn(p.loc)
           /\ p.type \in {"hybrid", "onsite"} /\ ~p.loc.remote /\ ~p.loc.worldwide =>
                  p.loc.places \cap (Elsewhere \cup {"ethiopia"}) = {}
<1> DEFINE l == p.loc
           remote == p.type = "remote" \/ l.remote
           office == (p.type = "hybrid" \/ l.hybrid) \/ (p.type = "onsite" \/ l.onsite)
           specific == l.places \cap (Elsewhere \cup {"ethiopia"}) # {}
           cities == l.places \cap {"city", "city state"} # {} \/ l.unknown
           open == TakesIn(l) /\ (l.worldwide \/ ~specific \/ l.listed)
           no == Is("ineligible", "onsite_elsewhere")
<1>1. AtsScope(p) =
         CASE TakesIn(l) /\ ~l.worldwide /\ ~remote /\ office ->
                IF specific THEN Is("ineligible", "onsite_elsewhere") ELSE Is("uncertain", "no_signal")
         [] open /\ ~remote /\ ~l.worldwide /\ l.listed /\ ~office ->
                IF p.office # "no" THEN Is("ineligible", "onsite_elsewhere")
                ELSE Is("eligible", "region_includes_africa")
         [] open /\ (remote \/ l.worldwide) ->
                Is("eligible", IF l.worldwide THEN "worldwide"
                               ELSE IF OnlyExceptions(l) THEN "exclusion_list_ok" ELSE "region_includes_africa")
         [] open /\ ~remote /\ ~l.worldwide /\ ~l.listed /\ ~office -> Is("uncertain", "no_signal")
         [] ~open /\ remote -> Is("ineligible", "restricted_places")
         [] ~TakesIn(l) /\ ~remote /\ office -> Is("ineligible", "onsite_elsewhere")
         [] ~open /\ ~remote /\ ~office ->
                IF p.office = "yes" THEN Is("ineligible", "onsite_elsewhere")
                ELSE IF p.home \/ ~cities THEN Is("ineligible", "restricted_places")
                ELSE Is("uncertain", "no_signal")
  BY DEF AtsScope
<1>2. l \in Location
  BY DEF Posting
<1>3. l.worldwide \in BOOLEAN /\ l.remote \in BOOLEAN /\ l.hybrid \in BOOLEAN /\ l.onsite \in BOOLEAN
      /\ l.listed \in BOOLEAN /\ TakesIn(l) \in BOOLEAN
  BY <1>2 DEF Location, TakesIn
<1>4. p.type \in {"hybrid", "onsite"} => office
  OBVIOUS
<1> HIDE DEF l, remote, office, specific, cities
<1>5. ASSUME ~TakesIn(l) PROVE AtsScope(p).status # "eligible"
  BY <1>1, <1>3, <1>5, Statuses3
<1>6. ASSUME TakesIn(l), ~l.worldwide, ~remote, office, specific PROVE AtsScope(p).status # "eligible"
  BY <1>1, <1>3, <1>6, Statuses3
<1>7. QED
  BY <1>4, <1>5, <1>6 DEF l, remote, specific

\* Where applicants may be, on a job board.
LEMMA BoardGrounds == ASSUME NEW p \in Posting, BoardScope(p.loc).status = "eligible" PROVE TakesIn(p.loc)
<1> DEFINE l == p.loc
<1>1. ASSUME ~TakesIn(l) PROVE BoardScope(l).status = "ineligible"
  <2>1. BoardScope(l) = Is("ineligible", IF \E q \in l.excluded : Covers(q) THEN "excluded" ELSE "restricted_places")
    BY <1>1 DEF BoardScope
  <2>2. QED BY <2>1, Statuses3
<1>2. QED BY <1>1

\* A location admits only by taking Ethiopia in, and an office elsewhere never.
LEMMA LocationGrounds ==
    ASSUME NEW p \in Posting, FromLocation(p).status = "eligible"
    PROVE  /\ TakesIn(p.loc) \/ (~HasScope(p.loc) /\ p.loc.zone = "in")
           /\ ~p.board /\ p.type \in {"hybrid", "onsite"} /\ ~p.loc.remote /\ ~p.loc.worldwide =>
                  p.loc.places \cap Elsewhere = {}
<1> DEFINE l == p.loc
<1>1. CASE HasScope(l)
  <2>1. FromLocation(p) = IF p.board THEN BoardScope(l) ELSE AtsScope(p)
    BY <1>1 DEF FromLocation
  <2>2. QED BY <2>1, AtsGrounds, BoardGrounds
<1>2. CASE ~HasScope(l) /\ l.zone = "in"
  BY <1>2 DEF HasScope
<1>3. CASE ~HasScope(l) /\ l.zone # "in"
  <2>1. FromLocation(p) = Is("ineligible", "timezone_outside") \/ FromLocation(p) = Is("uncertain", "no_signal")
    BY <1>3 DEF FromLocation
  <2>2. QED BY <2>1, Statuses3
<1>4. QED BY <1>1, <1>2, <1>3

\* What makes a verdict eligible.
LEMMA EligibleFrom ==
    ASSUME NEW p \in Posting, Decide(p).status = "eligible"
    PROVE  \/ "ethiopia" \in p.loc.places /\ Decide(p).basis = "local_ethiopia"
           \/ /\ p.market = "ethiopia" /\ ~HasScope(p.loc) /\ Neg(p) = {}
              /\ Decide(p).basis = "local_ethiopia"
           \/ Neg(p) = {} /\ Pos(p) # {} /\ Decide(p).basis = Admits(First(p, Pos(p)))
           \/ Neg(p) = {} /\ Pos(p) = {} /\ Decide(p) = FromLocation(p)
<1>1. CASE "ethiopia" \in p.loc.places
  BY <1>1, Statuses3 DEF Decide
<1>2. CASE "ethiopia" \notin p.loc.places /\ p.market = "ethiopia" /\ ~p.board /\ ~HasScope(p.loc) /\ Neg(p) = {}
  BY <1>2, Statuses3 DEF Decide
<1>3. CASE Decide(p) = DecideFromSignals(p)
  <2>1. CASE Neg(p) # {}
    <3>1. \/ DecideFromSignals(p) = Is("uncertain", "conflicting_signals")
          \/ DecideFromSignals(p) = Is("ineligible", Restricts(First(p, Neg(p))))
      BY <2>1 DEF DecideFromSignals
    <3>2. QED BY <1>3, <3>1, Statuses3
  <2>2. CASE Neg(p) = {} /\ Pos(p) # {}
    <3>1. DecideFromSignals(p) = Is("eligible", Admits(First(p, Pos(p))))
      BY <2>2 DEF DecideFromSignals
    <3>2. QED BY <1>3, <2>2, <3>1, Statuses3
  <2>3. CASE Neg(p) = {} /\ Pos(p) = {}
    <3>1. \/ DecideFromSignals(p) = Is("uncertain", "conflicting_signals")
          \/ DecideFromSignals(p) = FromLocation(p)
      BY <2>3 DEF DecideFromSignals
    <3>2. QED BY <1>3, <2>3, <3>1, Statuses3
  <2>4. QED BY <2>1, <2>2, <2>3
<1>4. QED BY <1>1, <1>2, <1>3 DEF Decide

\* The first of what speaks for candidates is one of it.
LEMMA FirstPos ==
    ASSUME NEW p \in Posting, Pos(p) # {}
    PROVE  \E n \in Pos(p) : First(p, Pos(p)) = Signals(p)[n]
<1>1. Pos(p) \subseteq Nat
  <2>1. DOMAIN Signals(p) = 1..(2 * Len(p.text) + Len(p.title))
    BY SignalsFrom
  <2>2. Pos(p) \subseteq DOMAIN Signals(p)
    BY DEF Pos, Heard
  <2>3. Len(p.text) \in Nat /\ Len(p.title) \in Nat
    <3>1. p.text \in Seq(Sentence) /\ p.title \in Seq(PlaceKinds \X BOOLEAN)
      BY DEF Posting
    <3>2. QED BY <3>1
  <2>4. ASSUME NEW t \in Nat, NEW u \in Nat PROVE 1..(2 * t + u) \subseteq Nat
    OBVIOUS
  <2>5. DOMAIN Signals(p) \subseteq Nat
    BY <2>1, <2>3, <2>4
  <2>6. QED BY <2>2, <2>5
<1>2. QED BY <1>1, MinIs DEF First

RulesInv == posting \in Posting /\ verdict \in {Unjudged, Decide(posting)}

LEMMA RulesHold == RulesInit => RulesInv
BY RulesAssumption DEF RulesInit, RulesInv

LEMMA ClassifyKeeps == RulesInv /\ [Classify]_rulesVars => RulesInv'
<1> SUFFICES ASSUME RulesInv, [Classify]_rulesVars PROVE RulesInv' OBVIOUS
<1>1. posting' = posting /\ Decide(posting)' = Decide(posting)
  BY DEF Classify, rulesVars
<1>2. QED BY <1>1 DEF RulesInv, Classify, rulesVars

\* Whatever a posting says, in any number of sentences, a requirement to be elsewhere keeps
\* it from being called eligible; eligible is said on grounds, and never of an office
\* elsewhere (Rules.VerdictHasGrounds).
THEOREM VerdictsHaveGrounds == RulesSpec => []VerdictHasGrounds
<1>1. ASSUME RulesInv PROVE VerdictHasGrounds
  <2> DEFINE p == posting
             l == posting.loc
  <2>1. CASE verdict = Unjudged
    <3>1. verdict.status # "eligible"
      BY <2>1 DEF Unjudged
    <3>2. QED BY <3>1 DEF VerdictHasGrounds, NeverAgainstARequirement, EligibleOnGrounds, OfficeElsewhere
  <2>2. CASE verdict = Decide(p) /\ verdict.status = "eligible"
    <3>0. p \in Posting /\ p.type \in {"remote", "hybrid", "onsite", "unknown"}
      BY <1>1 DEF RulesInv, Posting
    <3>1. Somewhere(p, Requires) => Neg(p) # {}
      BY <3>0, RequirementHeard DEF Somewhere
    <3>2. Pos(p) # {} =>
              /\ Somewhere(p, Welcomes)
              /\ Admits(First(p, Pos(p))) = "timezone_window" => ~Limits(p)
      BY <3>0, FirstPos, PosWelcomes DEF Somewhere
    <3>3. \/ "ethiopia" \in l.places /\ verdict.basis = "local_ethiopia"
          \/ p.market = "ethiopia" /\ ~HasScope(l) /\ Neg(p) = {} /\ verdict.basis = "local_ethiopia"
          \/ Neg(p) = {} /\ Pos(p) # {} /\ verdict.basis = Admits(First(p, Pos(p)))
          \/ Neg(p) = {} /\ Pos(p) = {} /\ verdict = FromLocation(p)
      BY <2>2, <3>0, EligibleFrom
    <3>4. NeverAgainstARequirement
      BY <3>1, <3>3 DEF NeverAgainstARequirement
    <3>5. EligibleOnGrounds
      BY <2>2, <3>0, <3>2, <3>3, LocationGrounds DEF EligibleOnGrounds, Limits
    <3>6. OfficeElsewhere
      <4> SUFFICES ASSUME ~p.board, ~l.worldwide, ~l.remote, l.places \cap Elsewhere # {},
                          p.type \in {"hybrid", "onsite"}, "ethiopia" \notin l.places, ~Somewhere(p, Welcomes)
                   PROVE  FALSE
        BY DEF OfficeElsewhere
      <4>1. HasScope(l)
        BY DEF HasScope
      <4>2. verdict = FromLocation(p)
        BY <3>2, <3>3, <4>1
      <4>3. QED BY <2>2, <3>0, <4>2, LocationGrounds
    <3>7. QED BY <3>4, <3>5, <3>6 DEF VerdictHasGrounds
  <2>3. CASE verdict.status # "eligible"
    BY <2>3 DEF VerdictHasGrounds, NeverAgainstARequirement, EligibleOnGrounds, OfficeElsewhere
  <2>4. QED BY <1>1, <2>1, <2>2, <2>3 DEF RulesInv
<1>2. QED BY <1>1, RulesHold, ClassifyKeeps, PTL DEF RulesSpec

-----------------------------------------------------------------------------
(* The job API (Listing).                                                  *)

LEMMA MatchesFinite ==
    ASSUME NEW f
    PROVE  /\ Matches(f) \subseteq Jobs /\ IsFiniteSet(Matches(f))
           /\ Cardinality(Matches(f)) \in Nat /\ Cardinality(Matches(f)) <= MaxPageIndex
<1>1. Matches(f) \subseteq Jobs
  BY DEF Matches
<1>2. IsFiniteSet(Jobs) /\ Cardinality(Jobs) <= MaxPageIndex /\ Cardinality(Jobs) \in Nat /\ MaxPageIndex \in Nat
  BY ListingAssumption, FS_CardinalityType
<1>3. IsFiniteSet(Matches(f)) /\ Cardinality(Matches(f)) <= Cardinality(Jobs)
  BY <1>1, <1>2, FS_Subset
<1>4. Cardinality(Matches(f)) \in Nat
  BY <1>3, FS_CardinalityType
<1>5. QED BY <1>1, <1>2, <1>3, <1>4

\* An order holds every match once.
InOrder(o, s) ==
    /\ o \in Seq(s) /\ Len(o) = Cardinality(s) /\ DOMAIN o = 1..Cardinality(s) /\ Cardinality(s) \in Nat
    /\ \A m, n \in DOMAIN o : m # n => o[m] # o[n]
    /\ \A m, n \in DOMAIN o : m < n => ~Before(o[n], o[m])
    /\ \A j \in s : \E n \in DOMAIN o : o[n] = j

LEMMA OrderHolds ==
    ASSUME NEW s, s \subseteq Jobs, IsFiniteSet(s), NEW o \in Orders(s)
    PROVE  InOrder(o, s)
<1> DEFINE D == 1..Cardinality(s)
<1>1. Cardinality(s) \in Nat
  BY FS_CardinalityType
<1>2. /\ o \in [D -> s] /\ \A m, n \in D : m # n => o[m] # o[n]
      /\ \A m, n \in DOMAIN o : m < n => ~Before(o[n], o[m])
  BY DEF Orders, SetToSeqs
<1>3. o \in Seq(s) /\ Len(o) = Cardinality(s) /\ DOMAIN o = D
  BY <1>1, <1>2
<1>4. o \in Injection(D, s)
  BY <1>2 DEF Injection, IsInjective
<1>5. IsFiniteSet(D) /\ Cardinality(D) = Cardinality(s)
  BY <1>1, FS_Interval
<1>6. o \in Surjection(D, s)
  BY <1>4, <1>5, FS_Injection
<1>7. \A j \in s : \E n \in D : o[n] = j
  BY <1>6 DEF Surjection
<1>8. QED BY <1>1, <1>2, <1>3, <1>7 DEF InOrder

\* Of two jobs one comes before the other, so that the clause leaves one order.
LEMMA OneOrder ==
    ASSUME NEW s, s \subseteq Jobs, IsFiniteSet(s), NEW o \in Orders(s), NEW q \in Orders(s)
    PROVE  o = q
<1>1. /\ o \in Seq(s) /\ DOMAIN o = 1..Cardinality(s) /\ Cardinality(s) \in Nat
      /\ \A m, n \in DOMAIN o : m # n => o[m] # o[n]
      /\ \A m, n \in DOMAIN o : m < n => ~Before(o[n], o[m])
      /\ \A j \in s : \E n \in DOMAIN o : o[n] = j
  <2>1. InOrder(o, s)
    BY OrderHolds
  <2>2. QED BY <2>1 DEF InOrder
<1>2. /\ q \in Seq(s) /\ DOMAIN q = 1..Cardinality(s) /\ Cardinality(s) \in Nat
      /\ \A m, n \in DOMAIN q : m # n => q[m] # q[n]
      /\ \A m, n \in DOMAIN q : m < n => ~Before(q[n], q[m])
      /\ \A j \in s : \E n \in DOMAIN q : q[n] = j
  <2>1. InOrder(q, s)
    BY OrderHolds
  <2>2. QED BY <2>1 DEF InOrder
<1> DEFINE D == 1..Cardinality(s)
           apart == {n \in D : o[n] # q[n]}
<1>3. ASSUME apart # {} PROVE FALSE
  <2>1. PICK k \in apart : \A n \in apart : k <= n
    <3>1. apart \subseteq Nat
      BY <1>1
    <3>2. QED BY <1>3, <3>1, LeastNumber
  <2>2. k \in D /\ o[k] \in s /\ q[k] \in s /\ o[k] # q[k] /\ D \subseteq Nat
    BY <1>1, <1>2
  <2>3. PICK m \in D : o[m] = q[k]
    BY <1>1, <2>2
  <2>4. PICK n \in D : q[n] = o[k]
    BY <1>2, <2>2
  <2>5. k < m
    <3>1. m # k
      BY <2>2, <2>3
    <3>2. ASSUME m < k PROVE FALSE
      <4>1. m \notin apart
        BY <2>1, <2>2, <3>2
      <4>2. q[m] = q[k]
        BY <2>3, <4>1
      <4>3. QED BY <1>2, <2>2, <2>3, <3>1, <4>2
    <3>3. QED BY <2>2, <3>1, <3>2
  <2>6. k < n
    <3>1. n # k
      BY <2>2, <2>4
    <3>2. ASSUME n < k PROVE FALSE
      <4>1. n \notin apart
        BY <2>1, <2>2, <3>2
      <4>2. o[n] = o[k]
        BY <2>4, <4>1
      <4>3. QED BY <1>1, <2>2, <2>4, <3>1, <4>2
    <3>3. QED BY <2>2, <3>1, <3>2
  <2>7. ~Before(q[k], o[k])
    BY <1>1, <2>2, <2>3, <2>5
  <2>8. ~Before(o[k], q[k])
    BY <1>2, <2>2, <2>4, <2>6
  <2>9. o[k] \in Nat /\ q[k] \in Nat /\ Posted[o[k]] \in Nat /\ Posted[q[k]] \in Nat
    BY <2>2, ListingAssumption
  <2>10. QED BY <2>2, <2>7, <2>8, <2>9 DEF Before
<1>4. o \in [D -> s] /\ q \in [D -> s]
  BY <1>1, <1>2
<1>5. \A n \in D : o[n] = q[n]
  BY <1>3
<1> HIDE DEF D, apart
<1>6. QED BY <1>4, <1>5

-----------------------------------------------------------------------------
(* Numbers.                                                                 *)

LEMMA Mod == ASSUME NEW a \in Nat, NEW b \in Nat, a < b PROVE a % b = a
OBVIOUS

\* A product within an int is not wrapped.
LEMMA WrappedIs == ASSUME NEW n \in 0..MaxInt PROVE Wrapped(n) = n
<1>1. MaxInt \in Nat
  BY ListingAssumption
<1>2. n + MaxInt + 1 \in Nat /\ 2 * MaxInt + 2 \in Nat /\ n + MaxInt + 1 < 2 * MaxInt + 2
  BY <1>1
<1>3. (n + MaxInt + 1) % (2 * MaxInt + 2) = n + MaxInt + 1
  BY <1>2, Mod
<1>4. QED BY <1>1, <1>3 DEF Wrapped

\* A page within the limit starts at an int, one beyond it past every job.
LEMMA Division ==
    ASSUME NEW size \in Nat \ {0}, NEW page \in Nat \ {0}
    PROVE  /\ (page - 1) * size \in Nat /\ (page + 1 - 1) * size = (page - 1) * size + size
           /\ page - 1 > MaxPageIndex \div size => (page - 1) * size > MaxPageIndex
           /\ ~(page - 1 > MaxPageIndex \div size) => (page - 1) * size <= MaxPageIndex
<1>1. MaxPageIndex \in Nat
  BY ListingAssumption
<1>2. PICK x \in Nat : page = x + 1
  <2>1. page - 1 \in Nat /\ page = (page - 1) + 1
    OBVIOUS
  <2>2. QED BY <2>1
<1> DEFINE d == MaxPageIndex \div size
<1>3. d \in Nat /\ size * d <= MaxPageIndex /\ MaxPageIndex < size * d + size
  BY <1>1
<1> HIDE DEF d
<1>4. ASSUME x > d PROVE x * size > MaxPageIndex
  <2>1. PICK e \in Nat : x = d + 1 + e
    <3>1. x - d - 1 \in Nat /\ x = d + 1 + (x - d - 1)
      BY <1>3, <1>4
    <3>2. QED BY <3>1
  <2>2. x * size = size * d + size + e * size /\ e * size \in Nat /\ size * d \in Nat
    BY <1>3, <2>1
  <2>3. QED BY <1>1, <1>3, <2>2
<1>5. ASSUME ~(x > d) PROVE x * size <= MaxPageIndex
  <2>1. PICK e \in Nat : d = x + e
    <3>1. d - x \in Nat /\ d = x + (d - x)
      BY <1>3, <1>5
    <3>2. QED BY <3>1
  <2>2. size * d = x * size + e * size /\ e * size \in Nat /\ x * size \in Nat
    BY <1>3, <2>1
  <2>3. QED BY <1>1, <1>3, <2>2
<1>6. page - 1 = x /\ page + 1 - 1 = x + 1 /\ x * size \in Nat /\ (x + 1) * size = x * size + size
  BY <1>2
<1>7. QED BY <1>4, <1>5, <1>6 DEF d

-----------------------------------------------------------------------------
(* What a client has been told, while nothing changes.                      *)

Serving == {"asked", "count", "told"}
Client == [at : {"away", "refused", "not found"} \cup Serving, filter : Filters \cup {Away.filter},
           size : Int, from : Int, page : Int, got : Seq(Jobs), jobs : Seq(Jobs), total : Nat, calm : BOOLEAN]

InRange(c) == c.page \in 1..MaxInt /\ c.size \in 1..MaxPageSize

\* How many jobs lie on the pages that c has been told.
Passed(c) == (c.page - 1) * c.size + IF c.at = "told" THEN c.size ELSE 0

\* s: the jobs that match what c asks for.
HasRead(c, s) ==
    /\ c.from = 1 => \A o \in Orders(s) : c.got = SubSeq(o, 1, Least(Passed(c), Len(o)))
    /\ c.at # "asked" => Orders(s) # {}
    /\ c.at = "count" => Cardinality(s) <= Passed(c)
    /\ c.at = "told" =>
          /\ c.total = Cardinality(s) /\ ToSet(c.jobs) \subseteq s
          /\ c.jobs = <<>> => Cardinality(s) <= Passed(c)

Knows(c, s) ==
    /\ c \in Client
    /\ c.at \in Serving => InRange(c)
    /\ c.calm => c.at # "not found"
    /\ c.calm /\ c.at \in Serving => HasRead(c, s)

ListingInv == Knows(client, Matches(client.filter))

LEMMA MatchesSame ==
    ASSUME UNCHANGED <<time, rows>>, NEW f, client'.filter = f
    PROVE  Matches(client.filter)' = Matches(f)
BY DEF Matches, Visible, Market

\* What parseFilter lets through: a number of jobs to skip that is no negative one.
LEMMA RangesAre ==
    ASSUME NEW c \in Client, InRange(c)
    PROVE  c.page \in Nat \ {0} /\ c.size \in Nat \ {0} /\ (c.page - 1) * c.size \in Nat
<1>1. MaxInt \in Nat /\ MaxPageSize \in Nat
  BY ListingAssumption
<1>2. c.page \in Nat \ {0} /\ c.size \in Nat \ {0}
  BY <1>1 DEF InRange
<1>3. QED BY <1>2, Division

\* A first page is asked for with nothing told.
LEMMA FirstKnows ==
    ASSUME NEW c \in Client, c.got = <<>>, c.page = c.from, c.at = "asked", InRange(c), NEW f
    PROVE  Knows(c, Matches(f))
<1>1. c.size \in Nat \ {0}
  BY RangesAre
<1>2. ASSUME c.from = 1, NEW o \in Orders(Matches(f)) PROVE c.got = SubSeq(o, 1, Least(Passed(c), Len(o)))
  <2>1. Passed(c) = 0
    BY <1>1, <1>2 DEF Passed
  <2>2. Len(o) \in Nat
    BY MatchesFinite, OrderHolds DEF InOrder
  <2>3. Least(0, Len(o)) = 0
    BY <2>2 DEF Least
  <2>4. SubSeq(o, 1, 0) = <<>>
    BY SubSeqEmpty
  <2>5. QED BY <2>1, <2>3, <2>4
<1>3. QED BY <1>2 DEF Knows, HasRead, Serving

LEMMA AwayIs ==
    /\ Away \in Client /\ Away.at = "away" /\ Away.got = <<>> /\ Away.page = 1 /\ Away.from = 1
    /\ Away.jobs = <<>> /\ Away.calm = TRUE
<1>1. <<>> \in Seq(Jobs)
  OBVIOUS
<1> DEFINE f == CHOOSE f \in Filters : TRUE
<1>2. Away = [at |-> "away", filter |-> f, size |-> 1, from |-> 1, page |-> 1,
         got |-> <<>>, jobs |-> <<>>, total |-> 0, calm |-> TRUE]
  BY DEF Away
<1> HIDE DEF f
<1>3. QED BY <1>1, <1>2 DEF Client, Serving

LEMMA ListingStarts == ListingInit => ListingInv
<1> SUFFICES ASSUME ListingInit PROVE ListingInv OBVIOUS
<1>1. client = Away
  BY DEF ListingInit
<1>2. QED BY <1>1, AwayIs DEF ListingInv, Knows, Serving

\* To be refused is to know nothing.
LEMMA RefusedKnows == ASSUME NEW c \in Client, c.at = "refused", NEW s PROVE Knows(c, s)
BY DEF Knows, Serving

\* A request, in range or not.
LEMMA AskKnows ==
    ASSUME NEW x \in Client, Ask(x), UNCHANGED <<time, rows>>,
           NEW y, y = [x EXCEPT !.at = "asked"], InRange(y) => Knows(y, Matches(y.filter))
    PROVE  ListingInv'
<1> DEFINE z == [x EXCEPT !.at = "refused"]
<1>1. z \in Client /\ z.at = "refused"
  BY DEF Client
<1>2. y.page = x.page /\ y.size = x.size
  BY DEF Client
<1>3. Knows(client', Matches(client'.filter))
  BY <1>1, <1>2, RefusedKnows DEF Ask, InRange
<1>4. PICK f : f = client'.filter
  OBVIOUS
<1>5. QED BY <1>3, <1>4, MatchesSame DEF ListingInv

LEMMA FirstPageKeeps == ASSUME ListingInv, FirstPage \/ FarPage PROVE ListingInv'
<1>1. PICK x : Ask(x) /\ x \in Client /\ x.got = <<>> /\ x.page = x.from
  <2>1. CASE FirstPage
    <3>1. PICK f \in Filters, n \in Sizes : Ask([Away EXCEPT !.filter = f, !.size = n])
      BY <2>1 DEF FirstPage
    <3>2. PICK x : x = [Away EXCEPT !.filter = f, !.size = n]
      OBVIOUS
    <3>3. n \in Int
      BY ListingAssumption
    <3>4. x \in Client /\ x.got = <<>> /\ x.page = x.from
      BY <3>2, <3>3, AwayIs DEF Client
    <3>5. QED BY <3>1, <3>2, <3>4
  <2>2. CASE FarPage
    <3>1. PICK f \in Filters, n \in Sizes, p \in Pages :
              Ask([Away EXCEPT !.filter = f, !.size = n, !.from = p, !.page = p])
      BY <2>2 DEF FarPage
    <3>2. PICK x : x = [Away EXCEPT !.filter = f, !.size = n, !.from = p, !.page = p]
      OBVIOUS
    <3>3. n \in Int /\ p \in Int
      BY ListingAssumption
    <3>4. x \in Client /\ x.got = <<>> /\ x.page = x.from
      BY <3>2, <3>3, AwayIs DEF Client
    <3>5. QED BY <3>1, <3>2, <3>4
  <2>3. QED BY <2>1, <2>2
<1>2. PICK y : y = [x EXCEPT !.at = "asked"]
  OBVIOUS
<1>3. y \in Client /\ y.at = "asked" /\ y.got = <<>> /\ y.page = y.from
  BY <1>1, <1>2 DEF Client, Serving
<1>4. UNCHANGED <<time, rows>>
  BY DEF FirstPage, FarPage
<1>5. QED BY <1>1, <1>2, <1>3, <1>4, FirstKnows, AskKnows

LEMMA NextPageKeeps == ASSUME ListingInv, NextPage PROVE ListingInv'
<1> DEFINE c == client
           s == Matches(client.filter)
<1>1. c \in Client /\ c.at = "told" /\ InRange(c) /\ UNCHANGED <<time, rows>>
      /\ (c.calm => HasRead(c, s))
  BY DEF ListingInv, Knows, NextPage, Serving
<1>2. PICK x : x = [c EXCEPT !.page = @ + 1] /\ Ask(x)
  BY DEF NextPage
<1>3. PICK y : y = [x EXCEPT !.at = "asked"]
  OBVIOUS
<1>4. x \in Client
  <2>0. c.page \in Int
    BY <1>1 DEF Client
  <2>1. c.page + 1 \in Int
    BY <2>0
  <2>2. QED BY <1>1, <1>2, <2>1 DEF Client
<1>5. /\ y \in Client /\ y.at = "asked" /\ y.page = c.page + 1 /\ y.size = c.size /\ y.from = c.from
      /\ y.got = c.got /\ y.filter = c.filter /\ y.calm = c.calm
  BY <1>1, <1>2, <1>3, <1>4 DEF Client, Serving
<1>6. Passed(y) = Passed(c)
  <2>1. c.page \in Nat \ {0} /\ c.size \in Nat \ {0} /\ (c.page - 1) * c.size \in Nat
    BY <1>1, RangesAre
  <2>2. (c.page + 1 - 1) * c.size = (c.page - 1) * c.size + c.size
    BY <2>1, Division
  <2>3. Passed(y) = (c.page + 1 - 1) * c.size
    BY <1>5, <2>1, <2>2 DEF Passed
  <2>4. Passed(c) = (c.page - 1) * c.size + c.size
    BY <1>1 DEF Passed
  <2>5. QED BY <2>1, <2>2, <2>3, <2>4
<1>7. c.calm => HasRead(y, s)
  BY <1>1, <1>5, <1>6 DEF HasRead
<1>8. InRange(y) => Knows(y, s)
  BY <1>5, <1>7 DEF Knows
<1>9. QED BY <1>1, <1>2, <1>3, <1>4, <1>5, <1>8, AskKnows

\* What is told of a page.
LEMMA ToldIs ==
    ASSUME client \in Client, client.calm, NEW jobs \in Seq(Jobs), NEW total \in Nat, NEW c, c = Told(jobs, total)
    PROVE  /\ c \in Client /\ c.at = "told" /\ c.jobs = jobs /\ c.got = client.got \o jobs /\ c.total = total
           /\ c.page = client.page /\ c.size = client.size /\ c.from = client.from
           /\ c.filter = client.filter /\ c.calm
<1>1. client.got \o jobs \in Seq(Jobs)
  BY ConcatProperties DEF Client
<1>2. c = [client EXCEPT !.at = "told", !.jobs = jobs, !.got = client.got \o jobs, !.total = total]
  BY DEF Told
<1>3. QED BY <1>1, <1>2 DEF Client, Serving

LEMMA ToldStays ==
    ASSUME client \in Client, ~client.calm, NEW jobs \in Seq(Jobs), NEW total \in Nat, NEW c, c = Told(jobs, total)
    PROVE  /\ c \in Client /\ ~c.calm /\ c.page = client.page /\ c.size = client.size /\ c.filter = client.filter
           /\ c.at = "told"
<1>1. c = [client EXCEPT !.at = "told", !.jobs = jobs, !.got = client.got, !.total = total]
  BY DEF Told
<1>2. QED BY <1>1 DEF Client, Serving

\* The offset of a page within the limit never overflows.
LEMMA OffsetIs ==
    ASSUME client \in Client, InRange(client)
    PROVE  /\ ~FarOff => Offset = (client.page - 1) * client.size
           /\ FarOff => (client.page - 1) * client.size > MaxPageIndex
<1>1. client.page \in Nat \ {0} /\ client.size \in Nat \ {0} /\ (client.page - 1) * client.size \in Nat
  BY RangesAre
<1>2. MaxPageIndex \in 0..MaxInt /\ MaxInt \in Nat
  BY ListingAssumption
<1>3. ASSUME ~FarOff PROVE Offset = (client.page - 1) * client.size
  <2>1. (client.page - 1) * client.size <= MaxPageIndex
    BY <1>1, <1>3, Division DEF FarOff
  <2>2. (client.page - 1) * client.size \in 0..MaxInt
    BY <1>1, <1>2, <2>1
  <2>3. QED BY <2>2, WrappedIs DEF Offset
<1>4. QED BY <1>1, <1>3, Division DEF FarOff

\* page is what o, an order of s, has after the first at of its jobs.
GoesOn(s, o, at, size, page) ==
    /\ page \in Seq(s) /\ ToSet(page) \subseteq s
    /\ page = <<>> => Len(o) <= at
    /\ SubSeq(o, 1, Least(at, Len(o))) \o page = SubSeq(o, 1, Least(at + size, Len(o)))

\* Page after page, the order is told from its beginning.
LEMMA PageIs ==
    ASSUME NEW s, s \subseteq Jobs, IsFiniteSet(s), NEW o \in Orders(s),
           NEW at \in Nat, NEW size \in Nat \ {0},
           NEW page, page = SubSeq(o, at + 1, Least(at + size, Len(o)))
    PROVE  GoesOn(s, o, at, size, page)
<1> DEFINE n == Least(at + size, Len(o))
<1>0. page = SubSeq(o, at + 1, n)
  OBVIOUS
<1>1. o \in Seq(s) /\ Len(o) \in Nat
  BY OrderHolds DEF InOrder
<1>2. n \in Nat /\ n <= Len(o) /\ n <= at + size /\ (n = Len(o) \/ n = at + size)
  BY <1>1 DEF Least
<1> HIDE DEF n
<1>3. \A i \in (at + 1)..n : o[i] \in s
  <2> TAKE i \in (at + 1)..n
  <2>1. i \in 1..Len(o)
    BY <1>1, <1>2
  <2>2. QED BY <1>1, <2>1, ElementOfSeq
<1>4. /\ page \in Seq(s) /\ Len(page) = IF at + 1 <= n THEN n - (at + 1) + 1 ELSE 0
  <2>1. at + 1 \in Int /\ n \in Int
    BY <1>2
  <2>2. /\ SubSeq(o, at + 1, n) \in Seq(s)
        /\ Len(SubSeq(o, at + 1, n)) = IF at + 1 <= n THEN n - (at + 1) + 1 ELSE 0
    BY <1>3, <2>1, SubSeqProperties
  <2>3. QED BY <1>0, <2>2
<1>5. ASSUME page = <<>> PROVE Len(o) <= at
  <2>0. Len(<<>>) = 0
    OBVIOUS
  <2>1. Len(page) = 0
    BY <1>5, <2>0
  <2>2. ~(at + 1 <= n)
    BY <1>2, <1>4, <2>1
  <2>3. QED BY <1>1, <1>2, <2>2
<1>6. ToSet(page) \subseteq s
  <2>1. \A i \in DOMAIN page : page[i] \in s
    BY <1>4, ElementOfSeq, LenProperties
  <2>2. QED BY <2>1 DEF ToSet
<1>7. CASE at <= Len(o)
  <2>1. Least(at, Len(o)) = at
    BY <1>1, <1>7 DEF Least
  <2>2. at \in (1 - 1)..Len(o) /\ n \in at..Len(o) /\ 1 \in 1..(Len(o) + 1)
    BY <1>1, <1>2, <1>7
  <2>3. SubSeq(o, 1, at) \o SubSeq(o, at + 1, n) = SubSeq(o, 1, n)
    BY <1>1, <2>2, ConcatAdjacentSubSeq
  <2>4. QED BY <1>0, <1>4, <1>5, <1>6, <2>1, <2>3 DEF n, GoesOn
<1>8. CASE ~(at <= Len(o))
  <2>1. Least(at, Len(o)) = Len(o) /\ n = Len(o)
    BY <1>1, <1>2, <1>8 DEF Least
  <2>2. page = <<>>
    <3>1. at + 1 \in Int /\ n \in Int /\ n < at + 1
      BY <1>1, <1>8, <2>1
    <3>2. QED BY <1>0, <3>1, SubSeqEmpty
  <2>3. SubSeq(o, 1, Len(o)) \in Seq(s)
    BY <1>1, SubSeqFull
  <2>4. SubSeq(o, 1, Len(o)) \o <<>> = SubSeq(o, 1, Len(o))
    BY <2>3, ConcatEmptySeq
  <2>5. QED BY <1>4, <1>5, <1>6, <2>1, <2>2, <2>4 DEF n, GoesOn
<1>9. QED BY <1>7, <1>8

\* A page past the end leaves what was read as it is.
LEMMA CountedKnows ==
    ASSUME ListingInv, client.at = "asked", Orders(Matches(client.filter)) # {},
           Cardinality(Matches(client.filter)) <= (client.page - 1) * client.size,
           NEW y, y = [client EXCEPT !.at = "count", !.jobs = <<>>]
    PROVE  Knows(y, Matches(client.filter)) /\ y.filter = client.filter
<1> DEFINE s == Matches(client.filter)
<1>1. client \in Client /\ InRange(client) /\ (client.calm => HasRead(client, s))
  BY DEF ListingInv, Knows, Serving
<1>2. <<>> \in Seq(Jobs)
  OBVIOUS
<1>3. /\ y \in Client /\ y.at = "count" /\ y.page = client.page /\ y.size = client.size /\ y.from = client.from
      /\ y.got = client.got /\ y.filter = client.filter /\ y.calm = client.calm
  BY <1>1, <1>2 DEF Client, Serving
<1>4. (client.page - 1) * client.size \in Nat
  BY <1>1, RangesAre
<1>5. Passed(y) = (client.page - 1) * client.size /\ Passed(client) = (client.page - 1) * client.size
  BY <1>3, <1>4 DEF Passed
<1>6. client.calm => HasRead(y, s)
  BY <1>1, <1>3, <1>5 DEF HasRead
<1>7. QED BY <1>1, <1>3, <1>6 DEF Knows, InRange

\* A page that is told goes on where the pages before it ended.
LEMMA ServedKnows ==
    ASSUME ListingInv, client.at = "asked", ~FarOff, NEW order \in Orders(Matches(client.filter)),
           NEW y, y = Told(Page(order), Len(order))
    PROVE  Knows(y, Matches(client.filter)) /\ y.filter = client.filter
<1> DEFINE s == Matches(client.filter)
           at == (client.page - 1) * client.size
<1>1. client \in Client /\ InRange(client) /\ (client.calm => HasRead(client, s))
  BY DEF ListingInv, Knows, Serving
<1>2. at \in Nat /\ client.size \in Nat \ {0} /\ Offset = at
  BY <1>1, RangesAre, OffsetIs
<1>3. s \subseteq Jobs /\ IsFiniteSet(s)
  BY MatchesFinite
<1>4. Len(order) = Cardinality(s) /\ Len(order) \in Nat
  BY <1>3, OrderHolds DEF InOrder
<1>5. PICK page : page = Page(order)
  OBVIOUS
<1>6. /\ page \in Seq(s) /\ ToSet(page) \subseteq s
      /\ page = <<>> => Len(order) <= at
      /\ SubSeq(order, 1, Least(at, Len(order))) \o page = SubSeq(order, 1, Least(at + client.size, Len(order)))
  <2>1. PICK size \in Nat \ {0} : size = client.size
    BY <1>2
  <2>2. PICK from \in Nat : from = at
    BY <1>2
  <2>3. page = SubSeq(order, from + 1, Least(from + size, Len(order)))
    BY <1>2, <1>5, <2>1, <2>2 DEF Page
  <2>4. PICK t : t = s
    OBVIOUS
  <2>5. t \subseteq Jobs /\ IsFiniteSet(t) /\ order \in Orders(t)
    BY <1>3, <2>4
  <2>6. GoesOn(t, order, from, size, page)
    BY <2>3, <2>5, PageIs
  <2>7. QED BY <2>1, <2>2, <2>4, <2>6 DEF GoesOn
<1>7. page \in Seq(Jobs)
  BY <1>3, <1>6
<1>8. CASE ~client.calm
  <2>1. y \in Client /\ ~y.calm /\ y.page = client.page /\ y.size = client.size /\ y.filter = client.filter
    BY <1>1, <1>4, <1>5, <1>7, <1>8, ToldStays
  <2>2. QED BY <1>1, <2>1 DEF Knows, InRange
<1>9. CASE client.calm
  <2>1. /\ y \in Client /\ y.at = "told" /\ y.jobs = page /\ y.got = client.got \o page /\ y.total = Len(order)
        /\ y.page = client.page /\ y.size = client.size /\ y.from = client.from
        /\ y.filter = client.filter /\ y.calm
    <3>1. PICK total \in Nat : total = Len(order)
      BY <1>4
    <3>2. y = Told(page, total) /\ client \in Client
      BY <1>1, <1>5, <3>1
    <3> HIDE DEF s, at
    <3>3. QED BY <1>7, <1>9, <3>1, <3>2, ToldIs
  <2>2. Passed(client) = at /\ Passed(y) = at + client.size
    BY <1>2, <2>1 DEF Passed
  <2>3. ASSUME y.from = 1, NEW o \in Orders(s) PROVE y.got = SubSeq(o, 1, Least(Passed(y), Len(o)))
    <3>1. o = order
      BY <1>3, OneOrder
    <3>2. client.got = SubSeq(order, 1, Least(at, Len(order)))
      BY <1>1, <1>9, <2>1, <2>2, <2>3 DEF HasRead
    <3>3. QED BY <1>6, <2>1, <2>2, <3>1, <3>2
  <2>4. y.jobs = <<>> => Cardinality(s) <= Passed(y)
    BY <1>2, <1>4, <1>6, <2>1, <2>2
  <2>5. HasRead(y, s)
    BY <1>4, <1>6, <2>1, <2>3, <2>4 DEF HasRead
  <2>6. QED BY <1>1, <2>1, <2>5 DEF Knows, InRange
<1>10. QED BY <1>8, <1>9

\* What is known of one state of the table is known while the table stays.
LEMMA TableStays ==
    ASSUME UNCHANGED <<time, rows>>, Knows(client', Matches(client.filter)), client'.filter = client.filter
    PROVE  ListingInv'
<1>1. Matches(client.filter)' = Matches(client.filter)
  BY DEF Matches, Visible, Market
<1>2. QED BY <1>1 DEF ListingInv

LEMMA SelectKeeps == ASSUME ListingInv, Select PROVE ListingInv'
<1> DEFINE s == Matches(client.filter)
           at == (client.page - 1) * client.size
           counted == [client EXCEPT !.at = "count", !.jobs = <<>>]
<1>1. client.at = "asked" /\ client \in Client /\ InRange(client) /\ UNCHANGED <<time, rows>>
  BY DEF Select, ListingInv, Knows, Serving
<1>2. PICK order \in Orders(s) :
          client' = CASE FarOff -> [client EXCEPT !.at = "count", !.jobs = <<>>]
                      [] ~FarOff /\ Offset < 0 -> [client EXCEPT !.at = "failed"]
                      [] ~FarOff /\ Offset >= 0 /\ Page(order) = <<>> /\ client.page > 1 ->
                             [client EXCEPT !.at = "count", !.jobs = <<>>]
                      [] OTHER -> Told(Page(order), Len(order))
  BY DEF Select
<1>3. at \in Nat /\ client.size \in Nat \ {0} /\ (~FarOff => Offset = at) /\ (FarOff => at > MaxPageIndex)
  BY <1>1, RangesAre, OffsetIs
<1>4. /\ s \subseteq Jobs /\ IsFiniteSet(s) /\ Cardinality(s) \in Nat /\ Cardinality(s) <= MaxPageIndex
      /\ MaxPageIndex \in Nat /\ Len(order) = Cardinality(s)
  BY MatchesFinite, OrderHolds, ListingAssumption DEF InOrder
<1>5. CASE client' = counted /\ Cardinality(s) <= at
  BY <1>1, <1>2, <1>5, CountedKnows, TableStays
<1>6. CASE ~FarOff /\ client' = Told(Page(order), Len(order))
  BY <1>1, <1>6, ServedKnows, TableStays
<1>7. ~FarOff /\ Page(order) = <<>> => Cardinality(s) <= at
  <2> SUFFICES ASSUME ~FarOff, Page(order) = <<>> PROVE Cardinality(s) <= at
    OBVIOUS
  <2> HIDE DEF at
  <2>1. Page(order) = SubSeq(order, at + 1, Least(at + client.size, Len(order)))
    BY <1>3 DEF Page
  <2>2. Page(order) = <<>> => Len(order) <= at
    BY <1>3, <1>4, <2>1, PageIs DEF GoesOn
  <2>3. QED BY <1>4, <2>2
<1>8. FarOff => Cardinality(s) <= at
  <2> HIDE DEF at, s
  <2>1. QED BY <1>3, <1>4
<1>9. ~FarOff => ~(Offset < 0)
  <2> HIDE DEF at
  <2>1. QED BY <1>3
<1>10. (client' = counted /\ Cardinality(s) <= at) \/ (~FarOff /\ client' = Told(Page(order), Len(order)))
  <2> HIDE DEF counted, at, s
  <2>1. client' = CASE FarOff -> counted
                      [] ~FarOff /\ Offset < 0 -> [client EXCEPT !.at = "failed"]
                      [] ~FarOff /\ Offset >= 0 /\ Page(order) = <<>> /\ client.page > 1 -> counted
                      [] OTHER -> Told(Page(order), Len(order))
    BY <1>2 DEF counted
  <2>2. QED BY <1>7, <1>8, <1>9, <2>1
<1>11. QED BY <1>5, <1>6, <1>10

LEMMA CountMatchesKeeps == ASSUME ListingInv, CountMatches PROVE ListingInv'
<1> DEFINE s == Matches(client.filter)
           at == (client.page - 1) * client.size
<1>1. client.at = "count" /\ client \in Client /\ InRange(client) /\ UNCHANGED <<time, rows>>
      /\ (client.calm => HasRead(client, s)) /\ client' = Told(<<>>, Cardinality(s))
  BY DEF CountMatches, ListingInv, Knows, Serving
<1>2. s \subseteq Jobs /\ IsFiniteSet(s) /\ Cardinality(s) \in Nat /\ <<>> \in Seq(Jobs)
  BY MatchesFinite
<1>3. CASE ~client.calm
  <2>1. /\ client' \in Client /\ ~client'.calm /\ client'.page = client.page /\ client'.size = client.size
        /\ client'.filter = client.filter
    BY <1>1, <1>2, <1>3, ToldStays
  <2>2. Knows(client', s)
    BY <1>1, <2>1 DEF Knows, InRange
  <2>3. QED BY <1>1, <2>1, <2>2, TableStays
<1>4. CASE client.calm
  <2>1. PICK n \in Nat : n = Cardinality(s)
    BY <1>2
  <2>2. PICK none \in Seq(Jobs) : none = <<>>
    BY <1>2
  <2>3. PICK y : y = Told(none, n)
    OBVIOUS
  <2>4. /\ y \in Client /\ y.at = "told" /\ y.jobs = none /\ y.got = client.got \o none /\ y.total = n
        /\ y.page = client.page /\ y.size = client.size /\ y.from = client.from
        /\ y.filter = client.filter /\ y.calm
    BY <1>1, <1>4, <2>3, ToldIs
  <2>5. at \in Nat /\ client.size \in Nat \ {0}
    BY <1>1, RangesAre
  <2>6. Passed(client) = at /\ Passed(y) = at + client.size
    BY <1>1, <2>4, <2>5 DEF Passed
  <2>7. Cardinality(s) <= at
    BY <1>1, <1>4, <2>6 DEF HasRead
  <2>8. y.got = client.got
    BY <1>1, <2>2, <2>4, ConcatEmptySeq DEF Client
  <2>9. ASSUME y.from = 1, NEW o \in Orders(s) PROVE y.got = SubSeq(o, 1, Least(Passed(y), Len(o)))
    <3>1. Len(o) = Cardinality(s)
      BY <1>2, OrderHolds DEF InOrder
    <3>2. Least(at, Len(o)) = Len(o) /\ Least(at + client.size, Len(o)) = Len(o)
      <4> HIDE DEF at, s
      <4>1. QED BY <1>2, <2>5, <2>7, <3>1 DEF Least
    <3>3. client.got = SubSeq(o, 1, Least(at, Len(o)))
      BY <1>1, <1>4, <2>4, <2>6, <2>9 DEF HasRead
    <3>4. QED BY <2>6, <2>8, <3>2, <3>3
  <2>10. Cardinality(s) <= Passed(y)
    <3> HIDE DEF at, s
    <3>1. QED BY <1>2, <2>5, <2>6, <2>7
  <2>11. Orders(s) # {} /\ ToSet(y.jobs) = {}
    <3>1. ToSet(<<>>) = {}
      BY DEF ToSet
    <3>2. QED BY <1>1, <1>4, <2>2, <2>4, <3>1 DEF HasRead
  <2>12. HasRead(y, s)
    BY <2>1, <2>4, <2>9, <2>10, <2>11 DEF HasRead
  <2>13. Knows(y, s)
    BY <1>1, <2>4, <2>12 DEF Knows, InRange
  <2>14. QED BY <1>1, <2>1, <2>2, <2>3, <2>4, <2>13, TableStays
<1>5. QED BY <1>3, <1>4

\* A job that was told is visible while nothing changes.
LEMMA GetJobKeeps == ASSUME ListingInv, GetJob PROVE ListingInv'
<1> DEFINE s == Matches(client.filter)
<1>1. client.at = "told" /\ client \in Client /\ (client.calm => HasRead(client, s)) /\ UNCHANGED <<time, rows>>
  BY DEF GetJob, ListingInv, Knows, Serving
<1>2. PICK j \in ToSet(client.jobs) : ~Visible(j) /\ client' = [client EXCEPT !.at = "not found"]
  BY DEF GetJob
<1>3. ~client.calm
  <2>1. ASSUME client.calm PROVE j \in s
    BY <1>1, <1>2, <2>1 DEF HasRead
  <2>2. j \notin s
    BY <1>2 DEF Matches
  <2>3. QED BY <2>1, <2>2
<1>4. client' \in Client /\ client'.at = "not found" /\ ~client'.calm /\ client'.filter = client.filter
  BY <1>1, <1>2, <1>3 DEF Client
<1>5. Knows(client', s)
  BY <1>4 DEF Knows, Serving
<1>6. QED BY <1>1, <1>4, <1>5, TableStays

\* Once something changes, what was told before says nothing.
LEMMA ChangeKeeps == ASSUME ListingInv, RowChanges \/ TimePasses PROVE ListingInv'
<1>1. client \in Client /\ client.at \in Serving /\ InRange(client) /\ Disturbed
  BY DEF RowChanges, TimePasses, ListingInv, Knows, Serving
<1>2. <<>> \in Seq(Jobs)
  OBVIOUS
<1>3. PICK none \in Seq(Jobs) : none = <<>>
  BY <1>2
<1>4. PICK y : y = [client EXCEPT !.calm = FALSE, !.got = none, !.from = 1]
  OBVIOUS
<1>5. y \in Client /\ y.at = client.at /\ ~y.calm /\ y.page = client.page /\ y.size = client.size
  <2>1. y \in Client
    <3>1. PICK no \in BOOLEAN : no = FALSE
      OBVIOUS
    <3>2. PICK one \in Int : one = 1
      OBVIOUS
    <3>3. y = [client EXCEPT !.calm = no, !.got = none, !.from = one]
      BY <1>4, <3>1, <3>2
    <3>4. QED BY <1>1, <3>3 DEF Client
  <2>2. y.at = client.at /\ y.page = client.page /\ y.size = client.size /\ y.calm = FALSE
    BY <1>1, <1>4 DEF Client
  <2>3. QED BY <2>1, <2>2
<1>6. client' = y
  BY <1>1, <1>3, <1>4 DEF Disturbed
<1>7. QED BY <1>1, <1>5, <1>6 DEF ListingInv, Knows, InRange

LEMMA ListingKeeps == ListingInv /\ [ListingNext]_listingVars => ListingInv'
<1> SUFFICES ASSUME ListingInv, [ListingNext]_listingVars PROVE ListingInv' OBVIOUS
<1>1. CASE UNCHANGED listingVars
  BY <1>1 DEF listingVars, ListingInv, Matches, Visible, Market
<1>2. CASE ListingNext
  BY <1>2, FirstPageKeeps, NextPageKeeps, SelectKeeps, CountMatchesKeeps, GetJobKeeps, ChangeKeeps DEF ListingNext
<1>3. QED BY <1>1, <1>2

\* However many jobs there are and whatever size of page is asked for, page after page lists
\* every matching job once, newest first, as long as nothing changes, and no page however far
\* is an error (Listing.EveryJobOnOnePage).
THEOREM EveryJobListed == ListingSpec => []EveryJobOnOnePage
<1>1. ASSUME ListingInv PROVE EveryJobOnOnePage
  <2> DEFINE s == Matches(client.filter)
  <2>1. /\ client \in Client /\ (client.calm => client.at # "not found") /\ client.at # "failed"
        /\ (client.at = "told" => InRange(client) /\ (client.calm => HasRead(client, s)))
    BY <1>1 DEF ListingInv, Knows, Client, Serving
  <2>2. ASSUME client.calm, client.at = "told", client.jobs = <<>>, client.from = 1
        PROVE  /\ ToSet(client.got) = s /\ Len(client.got) = Cardinality(s)
               /\ \A m, n \in DOMAIN client.got : m < n => Posted[client.got[m]] >= Posted[client.got[n]]
    <3>1. PICK o \in Orders(s) : client.got = SubSeq(o, 1, Least(Passed(client), Len(o)))
      BY <2>1, <2>2 DEF HasRead
    <3>2. /\ s \subseteq Jobs /\ o \in Seq(s) /\ Len(o) = Cardinality(s) /\ Len(o) \in Nat
          /\ \A m, n \in DOMAIN o : m < n => ~Before(o[n], o[m])
          /\ \A j \in s : \E n \in DOMAIN o : o[n] = j
      BY MatchesFinite, OrderHolds DEF InOrder
    <3>3. Passed(client) \in Nat /\ Len(o) <= Passed(client)
      <4>1. (client.page - 1) * client.size \in Nat /\ client.size \in Nat
        BY <2>1, <2>2, RangesAre
      <4>2. Passed(client) \in Nat
        BY <2>2, <4>1 DEF Passed
      <4>3. QED BY <2>1, <2>2, <3>2, <4>2 DEF HasRead
    <3>4. Least(Passed(client), Len(o)) = Len(o)
      BY <3>2, <3>3 DEF Least
    <3>5. client.got = o
      BY <3>1, <3>2, <3>4, SubSeqFull
    <3>6. DOMAIN o = 1..Len(o) /\ \A n \in DOMAIN o : o[n] \in s /\ Posted[o[n]] \in Nat
      <4>1. DOMAIN o = 1..Len(o)
        BY <3>2, LenProperties
      <4>2. \A n \in DOMAIN o : o[n] \in s
        BY <3>2, <4>1, ElementOfSeq
      <4>3. \A j \in s : Posted[j] \in Nat
        BY <3>2, ListingAssumption
      <4>4. QED BY <4>1, <4>2, <4>3
    <3>7. ToSet(o) = s
      BY <3>2, <3>6 DEF ToSet
    <3>8. \A m, n \in DOMAIN o : m < n => Posted[o[m]] >= Posted[o[n]]
      BY <3>2, <3>6 DEF Before
    <3>9. QED BY <3>2, <3>5, <3>7, <3>8
  <2>3. QED BY <2>1, <2>2 DEF EveryJobOnOnePage, HasRead
<1>2. QED BY <1>1, ListingStarts, ListingKeeps, PTL DEF ListingSpec
==============================================================================
