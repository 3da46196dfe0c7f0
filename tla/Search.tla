------------------------------- MODULE Search -------------------------------
(***************************************************************************)
(* Web searches under a budget (internal/ats/jobsearch over                *)
(* internal/search): in one ingest process the pool's workers call         *)
(* Client.ListJobs for companies, one search at a time; then the keyword   *)
(* collector pages through its searches.  All of them spend one Budget and *)
(* go through the shared HTTP client, which other sources use meanwhile.   *)
(***************************************************************************)
EXTENDS HttpClient, FiniteSets

CONSTANTS Searchers, \* companies, each searched by one call of ListJobs
          Collector, \* the one call of FreshClient.Collect
          Max,       \* the budget (MaxQueriesPerRun)
          Keywords,  \* how many keywords the collector has
          Pages,     \* pages it asks of each
          Nobody

Users == Searchers \cup {Collector}

ASSUME SearchAssumption ==
    /\ Users \subseteq Callers /\ IsFiniteSet(Users)
    /\ Collector \notin Searchers /\ Nobody \notin Users
    /\ Max \in Nat /\ Keywords \in Nat \ {0} /\ Pages \in Nat \ {0}

VARIABLES
    user,     \* user[u]: where u is, its attempt in metered, the outcome
    used,     \* Budget.used
    lock,     \* who holds Client.searchMu
    progress, \* the collector's loop: keyword, page, and what it has so far
    granted,  \* queries that Take granted (a history variable)
    refused,  \* users that Take refused (a history variable)
    wire      \* search requests that have left (a history variable)

vars == <<httpVars, user, used, lock, progress, granted, refused, wire>>

Init ==
    /\ HttpInit
    /\ user = [u \in Users |-> [at |-> "idle", attempt |-> 0]]
    /\ used = 0
    /\ lock = Nobody
    /\ progress = [keyword |-> 1, page |-> 1, searched |-> FALSE, failed |-> FALSE]
    /\ granted = 0
    /\ refused = {}
    /\ wire = 0

\* The outcomes of a search: results, no results, and the kinds of error.
Outcomes == {"found", "empty", "exhausted", "unauthorized", "cancelled", "failed"}
Places == {"idle", "take", "over", "do", "delay", "next", "returned", "error"} \cup Outcomes

At(u, place) == user' = [user EXCEPT ![u].at = place]

-----------------------------------------------------------------------------
(* Budget.Take, a counter that is raised first and lowered again.          *)

\* A budget that is held against what is left before the query.
AddEarly(u) ==
    /\ user[u].at = "take"
    /\ used' = used + 1
    /\ IF used' >= Max
       THEN /\ At(u, "over") /\ refused' = refused \cup {u}
            /\ UNCHANGED <<http, granted>>
       ELSE /\ At(u, "do") /\ granted' = granted + 1
            /\ http' = [http EXCEPT ![u] = Started(TRUE)]
            /\ UNCHANGED refused
    /\ UNCHANGED <<ended, lock, progress, wire>>

\* used.Add(1): within the budget, the search is made, WithoutRetries.
Add(u) ==
    /\ user[u].at = "take"
    /\ used' = used + 1
    /\ IF used' > Max
       THEN /\ At(u, "over") /\ refused' = refused \cup {u}
            /\ UNCHANGED <<http, granted>>
       ELSE /\ At(u, "do") /\ granted' = granted + 1
            /\ http' = [http EXCEPT ![u] = Started(TRUE)]
            /\ UNCHANGED refused
    /\ UNCHANGED <<ended, lock, progress, wire>>

\* used.Add(-1)
Undo(u) ==
    /\ user[u].at = "over"
    /\ used' = used - 1
    /\ At(u, "exhausted")
    /\ UNCHANGED <<httpVars, lock, progress, granted, refused, wire>>

-----------------------------------------------------------------------------
(* metered: a transient failure is retried once, after a delay.            *)

\* What an error of the first or second attempt comes to.
Failure(u) ==
    IF ended THEN "cancelled"
    ELSE IF http[u].at = "unauthorized" THEN "unauthorized"
    ELSE IF user[u].attempt = 0 THEN "delay" ELSE "failed"

Answered(u) ==
    /\ user[u].at = "do" /\ http[u].at \in Done
    /\ http' = [http EXCEPT ![u] = NoCall]
    /\ \/ http[u].at = "good" /\ \E place \in {"found", "empty"} : At(u, place)
       \/ At(u, Failure(u)) \* a good status may still come with a body that is not
    /\ UNCHANGED <<ended, used, lock, progress, granted, refused, wire>>

Delayed(u) ==
    /\ user[u].at = "delay"
    /\ user' = [user EXCEPT ![u] = [at |-> "take", attempt |-> 1]]
    /\ UNCHANGED <<httpVars, used, lock, progress, granted, refused, wire>>

CancelledInDelay(u) ==
    /\ user[u].at = "delay" /\ ended
    /\ At(u, "cancelled")
    /\ UNCHANGED <<httpVars, used, lock, progress, granted, refused, wire>>

-----------------------------------------------------------------------------
(* Client.search: one company's search, under the lock.                    *)

\* A search that does not wait for its turn.
SearchAtOnce(s) ==
    /\ user[s].at = "idle"
    /\ At(s, "take")
    /\ lock' = s
    /\ UNCHANGED <<httpVars, used, progress, granted, refused, wire>>

\* ListJobs has been called, and has its turn; the wait for the lock cannot be
\* interrupted.
Lock(s) ==
    /\ user[s].at = "idle" /\ lock = Nobody
    /\ At(s, "take")
    /\ lock' = s
    /\ UNCHANGED <<httpVars, used, progress, granted, refused, wire>>

\* An early return that keeps the lock.
UnlockAfterSuccess(s) ==
    /\ user[s].at \in Outcomes
    /\ IF user[s].at \in {"found", "empty"}
       THEN At(s, "returned") /\ lock' = Nobody
       ELSE At(s, "error") /\ UNCHANGED lock
    /\ UNCHANGED <<httpVars, used, progress, granted, refused, wire>>

Unlock(s) ==
    /\ user[s].at \in Outcomes
    /\ At(s, IF user[s].at \in {"found", "empty"} THEN "returned" ELSE "error")
    /\ lock' = Nobody
    /\ UNCHANGED <<httpVars, used, progress, granted, refused, wire>>

-----------------------------------------------------------------------------
(* FreshClient.Collect: keyword by keyword, page by page.                  *)

Collect ==
    /\ user[Collector].at = "idle"
    /\ \A s \in Searchers : user[s].at \in {"returned", "error"}
    /\ At(Collector, "next")
    /\ UNCHANGED <<httpVars, used, lock, progress, granted, refused, wire>>

NextPage ==
    /\ user[Collector].at = "next"
    /\ IF progress.keyword > Keywords
       THEN At(Collector, IF progress.failed /\ ~progress.searched THEN "error" ELSE "returned")
       ELSE IF ended THEN At(Collector, "error")
       ELSE user' = [user EXCEPT ![Collector] = [at |-> "take", attempt |-> 0]]
    /\ UNCHANGED <<httpVars, used, lock, progress, granted, refused, wire>>

\* A keyword that asks for one page more.
KeywordDoneLate(outcome) ==
    \/ outcome = "found" /\ progress.page > Pages
    \/ outcome \in {"empty", "failed"}

\* Out of results or of pages, and likewise after a failure: on to the next keyword.
KeywordDone(outcome) ==
    \/ outcome = "found" /\ progress.page = Pages
    \/ outcome \in {"empty", "failed"}

\* What metered returned, taken in.
TakeIn ==
    /\ user[Collector].at \in Outcomes
    /\ LET outcome == user[Collector].at
           answered == outcome \in {"found", "empty"}
           heard == [progress EXCEPT !.searched = @ \/ answered, !.failed = @ \/ ~answered]
       IN IF ~answered /\ ended
          THEN At(Collector, "error") /\ UNCHANGED progress
          ELSE /\ At(Collector, "next")
               /\ progress' =
                     IF KeywordDone(outcome)
                     THEN [heard EXCEPT !.keyword = @ + 1, !.page = 1]
                     ELSE IF outcome = "found" THEN [heard EXCEPT !.page = @ + 1]
                     ELSE [heard EXCEPT !.keyword = Keywords + 1]
    /\ UNCHANGED <<httpVars, used, lock, granted, refused, wire>>

-----------------------------------------------------------------------------
(* The HTTP client at work, for these users and for others.                *)

ClientStep(c) ==
    /\ Step(c)
    /\ wire' = IF c \in Users /\ http'[c].sent > http[c].sent THEN wire + 1 ELSE wire
    /\ UNCHANGED <<user, used, lock, progress, granted, refused>>

OtherSource(c) ==
    /\ Ask(c) \/ Returned(c)
    /\ UNCHANGED <<user, used, lock, progress, granted, refused, wire>>

ContextEnds == End /\ UNCHANGED <<user, used, lock, progress, granted, refused, wire>>

Metered(u) == Add(u) \/ Undo(u) \/ Answered(u) \/ Delayed(u) \/ CancelledInDelay(u)

CollectorStep == Collect \/ NextPage \/ TakeIn

Next ==
    \/ \E c \in Callers : ClientStep(c)
    \/ \E c \in Callers \ Users : OtherSource(c)
    \/ \E u \in Users : Metered(u)
    \/ \E s \in Searchers : Lock(s) \/ Unlock(s)
    \/ CollectorStep
    \/ ContextEnds

\* Requests have a timeout, waits a timer, and the scheduler starves no goroutine.
Fairness ==
    /\ \A c \in Callers : WF_vars(ClientStep(c))
    /\ \A u \in Users : WF_vars(Metered(u))
    /\ \A s \in Searchers : WF_vars(Lock(s)) /\ WF_vars(Unlock(s))
    /\ WF_vars(CollectorStep)

Spec == Init /\ [][Next]_vars /\ Fairness

-----------------------------------------------------------------------------
(* Properties.                                                             *)

TypeOK ==
    /\ HttpTypeOK
    /\ user \in [Users -> [at : Places, attempt : {0, 1}]]
    /\ used \in Nat /\ granted \in Nat /\ wire \in Nat
    /\ lock \in Searchers \cup {Nobody}
    /\ progress \in [keyword : 1 .. Keywords + 1, page : 1 .. Pages,
                     searched : BOOLEAN, failed : BOOLEAN]
    /\ refused \in SUBSET Users

\* "A fixed number of queries ... a runaway loop would burn it for good": no more
\* search requests leave the process than the budget has, whatever fails, is
\* retried or is cancelled, at either layer.
WithinBudget == wire <= Max

\* Take behaves like a counter that is tested and raised in one step: it grants no
\* query beyond the limit and refuses none while one is left.
Budget == INSTANCE QueryBudget WITH spent <- granted
TakeIsAtomic == Budget!Spec

\* "Calls are serialized across all companies": from its query to its outcome, the
\* delay before a retry included, a search is the only one; and whatever it ran into, one
\* that has returned does not keep the lock (Client.search).
Searching(u) == user[u].at \in {"take", "over", "do", "delay"} \cup Outcomes
OneSearchAtATime ==
    /\ \A u, v \in Users : Searching(u) /\ Searching(v) => u = v
    /\ lock # Nobody => Searching(lock)

\* Every company's search and the collector come to an end, whatever the others ran
\* into.
EverySearchReturns == <>(\A u \in Users : user[u].at \in {"returned", "error"})
=============================================================================
