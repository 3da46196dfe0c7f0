------------------------------ MODULE Registry ------------------------------
(***************************************************************************)
(* The companies and target_companies tables (internal/company) and the    *)
(* commands that fill them: Discoverer.Run of internal/discovery, Seed of  *)
(* internal/priority and Registrar.EnsureTarget.  Each statement is a step *)
(* of its own, and commands run side by side.                              *)
(***************************************************************************)
EXTENDS Naturals, FiniteSets

CONSTANTS Names,   \* companies, by lower(btrim(name))
          Sites,   \* websites, by normalize_website
          Keys,    \* boards, by (ats_provider, lower(btrim(external_board_id)))
          Procs,   \* processes that register
          Pools,   \* those that run Discoverer.Run
          Workers, \* DiscoveryConfig.Workers
          Tasks,   \* what the processes may register, one company each
          None     \* NULL, or a parameter left empty

Markets == {"ethiopia", "worldwide"}

\* A candidate, a priority company or an employer: the board page is probed
\* first, the company flagged, the website and the boards' metadata and market given.
Task == [by : Procs, name : Names, site : Sites \cup {None}, probe : BOOLEAN,
         priority : {"yes", "mark", "no"}, keys : SUBSET Keys,
         says : {None, "person", "discover-boards"}, market : Markets \cup {None}]

ASSUME RegistryAssumption ==
    /\ None \notin Names \cup Sites \cup Markets
    /\ None \notin {"person", "discover-boards"}
    /\ Pools \subseteq Procs
    /\ Workers \in Nat \ {0}
    /\ Tasks \subseteq Task /\ \A t \in Tasks : t.keys # {}

VARIABLES
    companies, \* companies[n]: the row, with known = FALSE while there is none
    targets,   \* targets[k]: the row, with company = None while there is none
    task,      \* task[t]: how far t has come
    stopped    \* the processes whose context has ended

registryVars == <<companies, targets, task, stopped>>

NoRow == [known |-> FALSE, website |-> None, priority |-> FALSE]
NoTarget == [company |-> None, active |-> FALSE, source |-> None, market |-> "worldwide"]
Off == [at |-> "off", left |-> {}, bad |-> FALSE]

RegistryInit ==
    /\ companies = [n \in Names |-> NoRow]
    /\ targets = [k \in Keys |-> NoTarget]
    /\ task = [t \in Tasks |-> Off]
    /\ stopped = {}

-----------------------------------------------------------------------------
(* The statements.                                                         *)

\* The row that would get the website is not the only one to claim it (23505).
SiteTaken(n, site) ==
    /\ site # None /\ companies[n].website = None
    /\ \E m \in Names \ {n} : companies[m].website = site

\* COALESCE the other way round.
FilledAnew(n, site) ==
    [companies EXCEPT ![n].known = TRUE, ![n].website = IF site # None THEN site ELSE @]

\* ON CONFLICT fills gaps and never overwrites.
Filled(n, site) ==
    [companies EXCEPT ![n].known = TRUE, ![n].website = IF @ = None THEN site ELSE @]

\* The WHERE guard is missing.
NotRefused(n, k) == FALSE

\* The WHERE guard: the board is another company's (ErrTargetCompanyMismatch).
Refused(n, k) == targets[k].company \notin {None, n}

Given(value, stored) == IF value = None THEN stored ELSE value

\* Every registration is stamped with who made it.
Stamped(says, stored) == Given(says, stored)

\* Metadata is replaced whole, so a plain seed drops the source.
SourceAfter(says, stored) ==
    IF says = "person" THEN None ELSE Given(says, stored)

Registered(n, k, says, market) ==
    [targets EXCEPT ![k] = [company |-> n, active |-> TRUE,
                            source |-> SourceAfter(says, @.source),
                            market |-> Given(market, @.market)]]

-----------------------------------------------------------------------------
(* The commands.                                                           *)

AtWork(t) == task[t].at \in {"probe", "company", "flag", "target"}
Mates(t) == {u \in Tasks : u.by = t.by}
Width(p) == IF p \in Pools THEN Workers ELSE 1

Goto(t, at) == task' = [task EXCEPT ![t].at = at]

\* Each list is read once per command.
Queue(ts) == task' = [t \in Tasks |-> IF t \in ts THEN [Off EXCEPT !.at = "queued", !.left = t.keys]
                                      ELSE task[t]]

\* The feeder's select may still hand out a candidate after the context has ended;
\* Seed and the collectors look at it before every company.
Dispatch(t) ==
    /\ task[t].at = "queued"
    /\ Cardinality({u \in Mates(t) : AtWork(u)}) < Width(t.by)
    /\ t.by \in stopped => t.by \in Pools
    /\ Goto(t, IF t.probe THEN "probe" ELSE "company")
    /\ UNCHANGED <<companies, targets, stopped>>

\* HEAD or, failing that, GET says 2xx; or neither does.
ProbePage(t) ==
    /\ task[t].at = "probe"
    /\ \E at \in {"company", "failed"} : Goto(t, at)
    /\ UNCHANGED <<companies, targets, stopped>>

Flagged(t) == [companies EXCEPT ![t.name].priority = TRUE]

\* Seed always sets the flag, EnsureTarget only when the row it got lacks it.
AfterCompany(t) ==
    IF t.priority = "yes" \/ (t.priority = "mark" /\ ~companies[t.name].priority)
    THEN "flag" ELSE "target"

UpsertCompany(t) ==
    /\ task[t].at = "company" /\ t.by \notin stopped
    /\ \/ /\ SiteTaken(t.name, t.site)
          /\ Goto(t, "failed")
          /\ UNCHANGED companies
       \/ /\ ~SiteTaken(t.name, t.site)
          /\ companies' = Filled(t.name, t.site)
          /\ Goto(t, AfterCompany(t))
    /\ UNCHANGED <<targets, stopped>>

SetPriority(t) ==
    /\ task[t].at = "flag" /\ t.by \notin stopped
    /\ companies' = Flagged(t)
    /\ Goto(t, "target")
    /\ UNCHANGED <<targets, stopped>>

\* One board is settled, well or badly; the last one settles the task.
Settle(t, k, ok) ==
    LET left == task[t].left \ {k}
        bad == task[t].bad \/ ~ok
        at == IF left # {} THEN "target" ELSE IF bad THEN "failed" ELSE "done"
    IN task' = [task EXCEPT ![t] = [at |-> at, left |-> left, bad |-> bad]]

UpsertTarget(t, k) ==
    /\ task[t].at = "target" /\ k \in task[t].left /\ t.by \notin stopped
    /\ \/ /\ Refused(t.name, k)
          /\ UNCHANGED targets
          /\ Settle(t, k, FALSE)
       \/ /\ ~Refused(t.name, k)
          /\ targets' = Registered(t.name, k, t.says, t.market)
          /\ Settle(t, k, TRUE)
    /\ UNCHANGED <<companies, stopped>>

\* A statement fails, or its context ends before the answer is heard: then its
\* effect may or may not be there.
CompanyFails(t) ==
    /\ task[t].at \in {"company", "flag"}
    /\ \/ UNCHANGED companies
       \/ task[t].at = "company" /\ ~SiteTaken(t.name, t.site)
          /\ companies' = Filled(t.name, t.site)
       \/ task[t].at = "flag" /\ companies' = Flagged(t)
    /\ Goto(t, "failed")
    /\ UNCHANGED <<targets, stopped>>

TargetFails(t, k) ==
    /\ task[t].at = "target" /\ k \in task[t].left
    /\ \/ UNCHANGED targets
       \/ ~Refused(t.name, k) /\ targets' = Registered(t.name, k, t.says, t.market)
    /\ Settle(t, k, FALSE)
    /\ UNCHANGED <<companies, stopped>>

\* SIGINT, SIGTERM.
Stop(p) ==
    /\ p \notin stopped
    /\ stopped' = stopped \cup {p}
    /\ UNCHANGED <<companies, targets, task>>

\* The process dies, between statements or in one.
Die(p) ==
    /\ \E t \in Tasks : t.by = p /\ AtWork(t)
    /\ task' = [t \in Tasks |-> IF t.by = p THEN Off ELSE task[t]]
    /\ stopped' = stopped \cup {p}
    /\ UNCHANGED <<companies, targets>>

\* SetActive.
SetActive(k, active) ==
    /\ targets[k].company # None
    /\ targets' = [targets EXCEPT ![k].active = active]

\* Ingestion retires a board its ATS no longer knows (retireGoneBoard).
Retire(k) ==
    /\ targets[k].active
    /\ SetActive(k, FALSE)
    /\ UNCHANGED <<companies, task, stopped>>

RegistryStep(t) ==
    \/ Dispatch(t) \/ ProbePage(t) \/ UpsertCompany(t) \/ SetPriority(t) \/ CompanyFails(t)
    \/ \E k \in Keys : UpsertTarget(t, k) \/ TargetFails(t, k)

\* Nothing of p is under way, nor will be.
Finished(p) ==
    \A t \in Tasks : t.by = p => /\ ~AtWork(t)
                                 /\ task[t].at = "queued" => p \in stopped

-----------------------------------------------------------------------------
(* Properties.                                                             *)

RegistryTypeOK ==
    /\ companies \in [Names -> [known : BOOLEAN, website : Sites \cup {None}, priority : BOOLEAN]]
    /\ targets \in [Keys -> [company : Names \cup {None}, active : BOOLEAN,
                             source : {None, "discover-boards"}, market : Markets]]
    /\ task \in [Tasks -> [at : {"off", "queued", "probe", "company", "flag", "target",
                                 "done", "failed"},
                           left : SUBSET Keys, bad : BOOLEAN]]
    /\ stopped \subseteq Procs

\* What a step may do to the registry: a board keeps the company it was first registered
\* for, a company its website and its priority flag, no two companies share a website,
\* and a market moves only by a task that states one.
Gains ==
    /\ \A n \in Names :
          /\ companies[n].known => companies'[n].known
          /\ companies[n].priority => companies'[n].priority
          /\ companies[n].website # None => companies'[n].website = companies[n].website
          /\ \A m \in Names \ {n} : companies'[n].website = companies'[m].website
                                       => companies'[n].website = None
    /\ \A k \in Keys :
          /\ targets[k].company # None => targets'[k].company = targets[k].company
          /\ targets'[k].market # targets[k].market
                => \E t \in Tasks : k \in t.keys /\ t.market = targets'[k].market

\* The registry only gains, whatever commands overlap, fail or die (the guards of Upsert,
\* SetPriority and EnsureTarget).
RegistryOnlyGains == [][Gains]_registryVars

\* A result without an error is true and stays true: the company is there, flagged
\* if it had to be, and every board of the task is its own (Result.Err of Discoverer,
\* SeedResult, EnsureTarget), whoever registers the same names and boards meanwhile.
ReportedIsRegistered ==
    \A t \in Tasks : task[t].at = "done" =>
        /\ companies[t.name].known
        /\ t.priority # "no" => companies[t.name].priority
        /\ \A k \in t.keys : targets[k].company = t.name
=============================================================================
