----------------------------- MODULE MCProgram -----------------------------
(* Instances of the program's other parts small enough for TLC: a scene is  *)
(* one of them at work, and the others stand still.                         *)
EXTENDS Crawl, Migrate, Listing, Rules

CONSTANTS site, www, plain, list, moved, j1, j2, j1w, j1p, items, careers, rss

-----------------------------------------------------------------------------
(* A careers page of two jobs, one of which moves to www. and from there to  *)
(* http; the page itself may lead to another, which links back to it.        *)

MCUrls == {list, moved, j1, j2, j1w, j1p, items}
MCOriginOf == [u \in MCUrls |-> CASE u = j1w -> www [] u = j1p -> plain [] OTHER -> site]
MCSiteOf == [o \in Origins |-> site]
MCStart == [r \in Readers |-> IF r = rss THEN items ELSE list]
MCLinks == [u \in MCUrls |-> CASE u \in {list, items} -> {j1, j2} [] u = moved -> {list, j1} [] OTHER -> {}]
MCRedirectTo == [u \in MCUrls |-> CASE u = list -> {moved} [] u = j1 -> {j1w} [] u = j1w -> {j1p, j1} [] OTHER -> {}]

Blank == [len |-> 0, hits |-> {}]
All == [len |-> 1, hits |-> MCUrls]
JobPages == [len |-> 2, hits |-> {j1, j2, j1w, j1p}]
Feed == [len |-> 2, hits |-> {items}]
MCPatterns == {Blank, All, JobPages, Feed}

For(who) == [key |-> "user-agent", value |-> who]
Allow(p) == [key |-> "allow", value |-> p]
Disallow(p) == [key |-> "disallow", value |-> p]
Other == [key |-> "other", value |-> "-"]
Lines == {For("us"), For("*"), For("other"), Disallow(All), Disallow(Blank), Allow(Feed),
          Disallow(Feed), Other}
Texts == UNION {[1..n -> Lines] : n \in 0..3} \cup {t \in [1..4 -> Lines] : t[1].key = "user-agent"}
Some == {<<For("*"), Disallow(JobPages)>>, <<For("*"), Disallow(All), For("us"), Allow(All)>>,
         <<For("*"), [key |-> "unreadable", value |-> "-"]>>}
MCFiles == Texts \cup Some

Serves(t) == [status |-> "found", lines |-> t]

\* A feed behind any file of a few lines.
RobotsScene ==
    /\ file \in {[o \in Origins |-> IF o = site THEN Serves(t) ELSE NoFile] : t \in Texts}
    /\ over = {}

\* A careers page and a feed behind a few files.
CrawlScene ==
    /\ file \in [Origins -> {Serves(t) : t \in Some} \cup {NoFile, NoAnswer}] /\ file[plain] = NoFile
    /\ over \in SUBSET {j1, j2}

CrawlRests == file = [o \in Origins |-> NoFile] /\ over = {}

-----------------------------------------------------------------------------
(* Commands that are started side by side.                                  *)

CONSTANTS p1, p2

Together == {<<"serve", "run">>, <<"migrate-up", "migrate-down --all">>, <<"migrate-up", "migrate-down">>,
             <<"migrate-down", "migrate-force">>, <<"migrate-down --all", "migrate-down">>}

-----------------------------------------------------------------------------
(* Three jobs, two of one day, for clients that page through them.           *)

MCJobs == 1..3
MCPosted == <<0, 1, 1>>
MCExpires == <<0, 2, 0>>
MCMarketOf == <<"ethiopia", "worldwide", "worldwide">>

Every == [priority |-> FALSE, market |-> "any", relevant |-> FALSE, eligibility |-> {}]
MCFilters == {Every, [Every EXCEPT !.priority = TRUE], [Every EXCEPT !.market = "worldwide"],
              [Every EXCEPT !.relevant = TRUE, !.eligibility = {"eligible", "unclassified"}]}

ListingScene ==
    /\ time = 1 /\ rows \in [Jobs -> {"closed", "unclassified", "eligible", "ineligible"}]
    /\ ListingInit

ListingRests ==
    time = 0 /\ rows = [j \in Jobs |-> "closed"] /\ client = [Away EXCEPT !.at = "refused"]

-----------------------------------------------------------------------------
(* Postings: any location next to a few texts, and any text next to a few   *)
(* locations.                                                               *)

Nowhere == [text |-> FALSE, places |-> {}, excluded |-> {}, worldwide |-> FALSE, remote |-> FALSE,
            hybrid |-> FALSE, onsite |-> FALSE, zone |-> "none", listed |-> FALSE, unknown |-> FALSE]
In(places) == [Nowhere EXCEPT !.text = TRUE, !.places = places]

Named == {In({p, q}) : p, q \in PlaceKinds} \cup {In({})}
Excepted == UNION {{[l EXCEPT !.excluded = {p}] : p \in {"ethiopia", "region with", "country"}} : l \in {In({}), In({"region with"}), In({"country"})}}
Wide == {[l EXCEPT !.worldwide = w] : l \in Named \cup Excepted, w \in BOOLEAN}
Worked == UNION {{l, [l EXCEPT !.remote = TRUE], [l EXCEPT !.hybrid = TRUE], [l EXCEPT !.onsite = TRUE]} : l \in Wide}
Listed == UNION {IF "region with" \in l.places THEN {l, [l EXCEPT !.listed = TRUE]} ELSE {l} : l \in Worked}
Locations ==
    {Nowhere} \cup {[l EXCEPT !.unknown = u] : l \in Listed, u \in BOOLEAN}
    \cup {[l EXCEPT !.zone = z] : l \in {In({}), In({"country"}), In({"region with"})}, z \in Zones}

Says(f, p) == [says |-> {f}, of |-> p, negated |-> FALSE, except |-> FALSE, relocation |-> FALSE,
               export |-> FALSE, zone |-> "none", located |-> FALSE]
Some1 == {Says(f, p) : f \in ToSet(Families), p \in {"region with", "country", "ethiopia"}}
Turned == UNION {{s, [s EXCEPT !.negated = TRUE], [s EXCEPT !.except = TRUE], [s EXCEPT !.relocation = TRUE],
                  [s EXCEPT !.export = TRUE], [s EXCEPT !.says = @ \cup {"open"}]} : s \in Some1}
Hours == {[Says("open", "country") EXCEPT !.says = {}, !.zone = z, !.located = l] :
             z \in Zones \ {"none"}, l \in BOOLEAN}
Sentences == Turned \cup Hours
Short == {<<>>} \cup {<<s>> : s \in Sentences}
Plainly == {s \in Some1 : s.of # "ethiopia"} \cup Hours
Long == Plainly \X Plainly

Job(board, market, l, type, text) ==
    [board |-> board, market |-> market, loc |-> l, type |-> type, text |-> text, title |-> <<>>,
     office |-> "no", home |-> FALSE, hires |-> FALSE]
Worldwide(l, type, text) == Job(FALSE, "worldwide", l, type, text)

Located ==
    {Job(b, "worldwide", l, t, text) : b \in BOOLEAN, l \in Locations, t \in {"remote", "onsite", "unknown"}, text \in {<<>>}}
    \cup UNION {{[Worldwide(l, "unknown", <<>>) EXCEPT !.office = o, !.home = h, !.hires = r] :
                     o \in {"no", "region", "yes"}, h \in BOOLEAN, r \in BOOLEAN} : l \in Locations}
Described ==
    UNION {{Job(of[1], of[2], l, "remote", text) : text \in Short \cup Long} :
              l \in {In({}), In({"country"}), In({"region with"})},
              of \in {<<FALSE, "ethiopia">>, <<TRUE, "worldwide">>}}
Headed ==
    UNION {{[Worldwide(l, "hybrid", text) EXCEPT !.title = <<<<p, weak>>>>] : p \in PlaceKinds, weak \in BOOLEAN} :
              l \in {Nowhere, In({"country"}), In({"region with"}), In({"region with", "city"})}, text \in {<<>>} \cup {<<s>> : s \in Some1}}
MCPostings == Located \cup Described \cup Headed

Idle == Worldwide(Nowhere, "unknown", <<>>)
RulesRest == posting = Idle /\ verdict = Is("uncertain", "no_signal")

-----------------------------------------------------------------------------
VARIABLE scene \* what is at work

Called(r) == scene = "crawl" \/ (scene = "robots" /\ r = rss)

MCInit ==
    /\ \/ scene = "robots" /\ RobotsScene
       \/ scene = "crawl" /\ CrawlScene
       \/ scene \in {"commands", "listing", "rules"} /\ CrawlRests
    /\ reader = [r \in Readers |-> IF Called(r) THEN Waiting ELSE NotCalled] /\ CrawlInit
    /\ IF scene = "commands"
       THEN \E t \in Together : prog = [p \in Programs |-> New(IF p = p1 THEN t[1] ELSE t[2])]
       ELSE prog = [p \in Programs |-> NotStarted]
    /\ Command(p1) \in {"serve", "run"} => schema = [version |-> 0, dirty |-> FALSE]
    /\ MigrateInit
    /\ scene = "commands" \/ schema = [version |-> 0, dirty |-> FALSE]
    /\ IF scene = "listing" THEN ListingScene ELSE ListingRests
    /\ IF scene = "rules" THEN RulesInit ELSE RulesRest

MCNext ==
    /\ UNCHANGED scene
    /\ \/ CrawlNext /\ UNCHANGED <<programVars, listingVars, rulesVars>>
       \/ ProgramNext /\ UNCHANGED <<crawlVars, listingVars, rulesVars>>
       \/ scene = "listing" /\ ListingNext /\ UNCHANGED <<crawlVars, programVars, rulesVars>>
       \/ Classify /\ UNCHANGED <<crawlVars, programVars, listingVars>>

MCSpec == MCInit /\ [][MCNext]_<<crawlVars, programVars, listingVars, rulesVars, scene>> /\ CrawlFairness /\ ProgramFairness
=============================================================================
