------------------------------ MODULE Listing ------------------------------
(***************************************************************************)
(* The public job API (internal/api) over job.Store's List and Get: a      *)
(* client that pages through the jobs and opens them while ingestion and   *)
(* classification change the table.                                        *)
(***************************************************************************)
EXTENDS Integers, Sequences, FiniteSets, SequencesExt

CONSTANTS Jobs,         \* ids, in the order the rows were inserted
          Posted,       \* Posted[j]: when j was posted, or first seen
          Expires,      \* Expires[j]: its application deadline; 0 is none
          OfPriority,   \* jobs of priority companies
          MarketOf,     \* MarketOf[j]: the market of the target j came through
          Relevant,     \* jobs whose role is relevant, once they are classified
          Filters,      \* what clients ask for
          Sizes, Pages, \* page_size and page, as numbers
          MaxPageSize,
          MaxPageIndex, \* beyond which a page is past the end
          MaxInt,       \* of an int
          MaxAge,       \* WithMaxAge; 0 is no limit
          MaxTime       \* bounds the clock

Statuses == {"eligible", "ineligible", "uncertain"}
Filter == [priority : BOOLEAN, market : {"any", "ethiopia", "worldwide"}, relevant : BOOLEAN,
           eligibility : SUBSET (Statuses \cup {"unclassified"})]

ASSUME ListingAssumption ==
    /\ Jobs \subseteq Nat /\ IsFiniteSet(Jobs) /\ Cardinality(Jobs) <= MaxPageIndex
    /\ Posted \in [Jobs -> Nat] /\ Expires \in [Jobs -> Nat]
    /\ OfPriority \subseteq Jobs /\ Relevant \subseteq Jobs
    /\ MarketOf \in [Jobs -> {"ethiopia", "worldwide"}]
    /\ Filters \subseteq Filter /\ Sizes \subseteq Int /\ Pages \subseteq Int
    /\ MaxPageSize \in Nat \ {0} /\ MaxInt \in Nat /\ MaxPageIndex \in 0..MaxInt
    /\ MaxAge \in Nat /\ MaxTime \in Nat

VARIABLES
    time,    \* now()
    rows,    \* rows[j]: closed, or open and its verdict
    client   \* where a client is: what it asks for, and what it has been told

listingVars == <<time, rows, client>>

Away == [at |-> "away", filter |-> CHOOSE f \in Filters : TRUE, size |-> 1, from |-> 1, page |-> 1,
         got |-> <<>>, jobs |-> <<>>, total |-> 0, calm |-> TRUE]

ListingInit ==
    /\ time \in 0..MaxTime
    /\ rows \in [Jobs -> {"closed", "unclassified"} \cup Statuses]
    /\ client = Away

-----------------------------------------------------------------------------
(* What is served.                                                         *)

\* Open, not past its deadline, and not too old: the same for List and Get.
Visible(j) ==
    /\ rows[j] # "closed"
    /\ Expires[j] = 0 \/ Expires[j] > time
    /\ MaxAge = 0 \/ Posted[j] >= time - MaxAge

\* A priority company's job is in the Ethiopian list wherever it came from.
Market(j) == IF j \in OfPriority THEN "ethiopia" ELSE MarketOf[j]

Matches(f) ==
    {j \in Jobs :
        /\ Visible(j)
        /\ f.priority => j \in OfPriority
        /\ f.market # "any" => f.market = Market(j)
        /\ f.eligibility # {} => rows[j] \in f.eligibility
        /\ f.relevant => j \in Relevant /\ rows[j] # "unclassified"}

\* Newest first, and no more said of two of one day.
BeforeByDay(j, k) == Posted[j] > Posted[k]

\* ORDER BY posted_at DESC, id DESC.
Before(j, k) == Posted[j] > Posted[k] \/ (Posted[j] = Posted[k] /\ j > k)

\* Any order that the clause allows.
Orders(s) == {o \in SetToSeqs(s) : \A m, n \in DOMAIN o : m < n => ~Before(o[n], o[m])}

\* Multiplication of ints.
Wrapped(n) == ((n + MaxInt + 1) % (2 * MaxInt + 2)) - MaxInt - 1
Offset == Wrapped((client.page - 1) * client.size)
FarOff == client.page - 1 > MaxPageIndex \div client.size

Least(m, n) == IF m < n THEN m ELSE n
Page(order) == SubSeq(order, Offset + 1, Least(Offset + client.size, Len(order)))

-----------------------------------------------------------------------------
(* A request.                                                              *)

\* parseFilter: anything out of range is a 400.
Ask(x) ==
    client' = IF x.page \in 1..MaxInt /\ x.size \in 1..MaxPageSize
              THEN [x EXCEPT !.at = "asked"] ELSE [x EXCEPT !.at = "refused"]

FirstPage ==
    /\ client.at = "away"
    /\ \E f \in Filters, n \in Sizes : Ask([Away EXCEPT !.filter = f, !.size = n])
    /\ UNCHANGED <<time, rows>>

NextPage ==
    /\ client.at = "told" /\ client.jobs # <<>>
    /\ Ask([client EXCEPT !.page = @ + 1])
    /\ UNCHANGED <<time, rows>>

\* Any other page, from the start.
FarPage ==
    /\ client.at = "away"
    /\ \E f \in Filters, n \in Sizes, p \in Pages :
          Ask([Away EXCEPT !.filter = f, !.size = n, !.from = p, !.page = p])
    /\ UNCHANGED <<time, rows>>

Told(jobs, total) == [client EXCEPT !.at = "told", !.jobs = jobs, !.got = IF client.calm THEN @ \o jobs ELSE @, !.total = total]

\* Store.List, one statement: a page and, in each of its rows, the number of matches.
Select ==
    /\ client.at = "asked"
    /\ \E order \in Orders(Matches(client.filter)) :
          client' = CASE FarOff -> [client EXCEPT !.at = "count", !.jobs = <<>>]
                      [] ~FarOff /\ Offset < 0 -> [client EXCEPT !.at = "failed"]
                      [] ~FarOff /\ Offset >= 0 /\ Page(order) = <<>> /\ client.page > 1 ->
                             [client EXCEPT !.at = "count", !.jobs = <<>>]
                      [] OTHER -> Told(Page(order), Len(order))
    /\ UNCHANGED <<time, rows>>

\* A page past the last has no row to say how many there are.
CountMatches ==
    /\ client.at = "count"
    /\ client' = Told(<<>>, Cardinality(Matches(client.filter)))
    /\ UNCHANGED <<time, rows>>

\* Store.Get.
GetJob ==
    /\ client.at = "told" /\ client.jobs # <<>>
    /\ \E j \in ToSet(client.jobs) : ~Visible(j) /\ client' = [client EXCEPT !.at = "not found"]
    /\ UNCHANGED <<time, rows>>

-----------------------------------------------------------------------------
(* Meanwhile.                                                              *)

\* What was told before says nothing any more.
Disturbed == client' = [client EXCEPT !.calm = FALSE, !.got = <<>>, !.from = 1]

\* Ingestion stores and closes jobs, classification judges them.
RowChanges ==
    /\ client.at \in {"asked", "count", "told"}
    /\ \E j \in Jobs, to \in {"closed", "unclassified", "eligible"} :
          rows[j] # to /\ rows' = [rows EXCEPT ![j] = to]
    /\ Disturbed /\ UNCHANGED time

TimePasses ==
    /\ client.at \in {"asked", "count", "told"} /\ time < MaxTime
    /\ time' = time + 1
    /\ Disturbed /\ UNCHANGED rows

ListingNext ==
    FirstPage \/ NextPage \/ FarPage \/ Select \/ CountMatches \/ GetJob \/ RowChanges \/ TimePasses

ListingSpec == ListingInit /\ [][ListingNext]_listingVars

-----------------------------------------------------------------------------
(* Properties.                                                             *)

\* While nothing changes, page after page lists every matching job once, newest first, and
\* none of them is a 404; every page, the most absurd one too, is answered, and with the
\* number of matches (Store.List, Get, parseFilter).
EveryJobOnOnePage ==
    LET all == Matches(client.filter)
    IN /\ client.at # "failed"
       /\ client.calm => client.at # "not found"
       /\ client.calm /\ client.at = "told" => client.total = Cardinality(all)
       /\ client.calm /\ client.at = "told" /\ client.jobs = <<>> /\ client.from = 1 =>
             /\ ToSet(client.got) = all /\ Len(client.got) = Cardinality(all)
             /\ \A m, n \in DOMAIN client.got : m < n => Posted[client.got[m]] >= Posted[client.got[n]]
=============================================================================
