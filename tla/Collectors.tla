----------------------------- MODULE Collectors -----------------------------
(***************************************************************************)
(* `aggregator ingest` for sources that span many employers                *)
(* (internal/ingestion/collectors.go).  A collector returns a sample of    *)
(* its source; the ingester groups it by employer, finds or creates each   *)
(* employer's target, drops openings that another source already stores,   *)
(* writes the rest, and ages out what it has not seen for long.  One       *)
(* market; a collector's jobs are stored under its own provider.           *)
(***************************************************************************)
EXTENDS Naturals, FiniteSets

CONSTANTS Procs,      \* ingest processes that may overlap
          Sources,    \* the collectors, each the provider of its own targets
          Employers,  \* canonical employer names, one company each
          Ids,        \* the (source, source_job_id) identities
          SourceOf,   \* SourceOf[id]: the source half of the identity
          Contents,   \* what a posting can say: its title and place
          Same,       \* the pairs of contents taken for one opening
          StaleAfter, \* how long, in ticks, a job may go unseen
          Bad, Ended, \* a posting that is refused, and one reported as ended
          Faults,     \* whether statements fail and processes die
          Unchecked   \* whether the look at other sources' openings may fail

Targets == Sources \X Employers
INSTANCE JobTable

ASSUME CollectorsAssumption ==
    /\ SourceOf \in [Ids -> Sources] /\ Ids # {} /\ Employers # {}
    /\ StaleAfter \in Nat
    /\ Same \subseteq Contents \X Contents
    /\ \A c, d \in Contents : <<c, c>> \in Same /\ (<<c, d>> \in Same => <<d, c>> \in Same)
    /\ {Bad, Ended} \cap Contents = {} /\ Bad # Ended
    /\ Faults \in BOOLEAN /\ Unchecked \in BOOLEAN

Posting == [employer : Employers, says : Contents \cup {Bad, Ended}]

\* What one call of a source's Collect may return: some of its postings.
Samples(s) ==
    UNION {[S -> Posting] : S \in SUBSET {id \in Ids : SourceOf[id] = s}}

VARIABLES
    registered, \* the targets collectors have created; nothing deactivates one
    jobs,       \* the jobs table
    run         \* run[p]: where process p is and what it holds in memory

vars == <<registered, jobs, run>>

Places == {"idle", "next", "group", "check", "store", "move", "again", "stale", "absent"}

\* source, found, groups, touched and absent belong to one collector of the run;
\* employer, fresh, left, wrote and moving to one employer's group; stored is the
\* run's own memory of the openings it has written.
Idle(p) == run[p].at = "idle"
NotRunning ==
    [at |-> "idle", todo |-> {}, source |-> CHOOSE s \in Sources : TRUE,
     found |-> << >>, groups |-> {}, touched |-> {}, absent |-> {},
     employer |-> CHOOSE e \in Employers : TRUE, fresh |-> {}, left |-> {},
     wrote |-> {}, moving |-> CHOOSE id \in Ids : TRUE, stored |-> {}]

Init ==
    /\ registered = {}
    /\ jobs = [id \in Ids |-> NoRow]
    /\ run = [p \in Procs |-> NotRunning]

Target(p) == <<run[p].source, run[p].employer>>
Good(p) == {id \in DOMAIN run[p].found : run[p].found[id].says \in Contents}
EndedIds(p) == {id \in DOMAIN run[p].found : run[p].found[id].says = Ended}

\* The other fields of a run stay as they are.
Goto(p, there) == run' = [run EXCEPT ![p].at = there]

-----------------------------------------------------------------------------
(* RunCollectors: one collector after another.                             *)

StartRun(p) ==
    /\ Idle(p)
    /\ \E S \in (SUBSET Sources) \ {{}} :
          run' = [run EXCEPT ![p] = [NotRunning EXCEPT !.at = "next", !.todo = S]]
    /\ UNCHANGED <<registered, jobs>>

\* Collect succeeds, or stops half-way with what it has (ErrPartialResult).
Collect(p, s) ==
    /\ run[p].at = "next" /\ s \in run[p].todo
    /\ \E f \in Samples(s) :
          run' = [run EXCEPT ![p].at = "group", ![p].todo = @ \ {s}, ![p].source = s,
                             ![p].found = f, ![p].touched = {},
                             ![p].groups = {f[id].employer : id \in DOMAIN f}]
    /\ UNCHANGED <<registered, jobs>>

\* It ran too recently, its run log is unreadable, or it has nothing to give.
CollectFails(p, s) ==
    /\ run[p].at = "next" /\ s \in run[p].todo
    /\ run' = [run EXCEPT ![p].todo = @ \ {s}]
    /\ UNCHANGED <<registered, jobs>>

FinishRun(p) ==
    /\ run[p].at = "next" /\ run[p].todo = {}
    /\ run' = [run EXCEPT ![p] = NotRunning]
    /\ UNCHANGED <<registered, jobs>>

\* Cancelled or killed: whatever it held in memory is lost.
Crash(p) ==
    /\ Faults /\ ~Idle(p)
    /\ run' = [run EXCEPT ![p] = NotRunning]
    /\ UNCHANGED <<registered, jobs>>

-----------------------------------------------------------------------------
(* One employer's group: its target and its duplicates.                    *)

\* An earlier collector of this run wrote the opening (openingStored).
OpeningStored(p, e, c) == \E o \in run[p].stored : o[1] = e /\ <<o[2], c>> \in Same

\* What is left of e's group: ended postings are handled apart.
FreshOf(p, e) ==
    {id \in (DOMAIN run[p].found) \ EndedIds(p) :
        /\ run[p].found[id].employer = e
        /\ id \in Good(p) => ~OpeningStored(p, e, run[p].found[id].says)}

\* Only an employer with something to store gets a target (EnsureTarget); one
\* seen through ended or dropped postings alone is looked up (FindTarget).
Group(p, e) ==
    /\ run[p].at = "group" /\ e \in run[p].groups
    /\ LET t == <<run[p].source, e>>
           known == t \in registered
           go == known \/ FreshOf(p, e) # {}
       IN  /\ registered' = IF go THEN registered \cup {t} ELSE registered
           /\ run' = [run EXCEPT ![p].at = IF go THEN "check" ELSE "group",
                                 ![p].employer = e,
                                 ![p].groups = IF go THEN @ ELSE @ \ {e},
                                 ![p].touched = IF go THEN @ \cup {t} ELSE @,
                                 ![p].fresh = IF go THEN FreshOf(p, e) ELSE {},
                                 ![p].wrote = {}]
    /\ UNCHANGED jobs

\* The target cannot be registered or looked up: on to the next employer.
GroupFails(p, e) ==
    /\ Faults /\ run[p].at = "group" /\ e \in run[p].groups
    /\ run' = [run EXCEPT ![p].groups = @ \ {e}]
    /\ UNCHANGED <<registered, jobs>>

\* Closed jobs hide an opening too.
OpenOpeningsOfAll(e, s) ==
    {jobs[id].content : id \in {i \in Ids : /\ jobs[i] # NoRow
                                            /\ jobs[i].target[2] = e
                                            /\ SourceOf[i] # s}}

\* OpenOpenings: a company's open jobs from every other source.
OpenOpenings(e, s) ==
    {jobs[id].content : id \in {i \in Ids : /\ jobs[i].status = "open"
                                            /\ jobs[i].target[2] = e
                                            /\ SourceOf[i] # s}}

DropOpenings(p, existing) ==
    {id \in run[p].fresh :
        ~(id \in Good(p) /\ \E c \in existing : <<c, run[p].found[id].says>> \in Same)}

\* Duplicates are looked for in this run only.
CheckNothing(p) ==
    /\ run[p].at = "check"
    /\ run' = [run EXCEPT ![p].at = "store", ![p].left = run[p].fresh]
    /\ UNCHANGED <<registered, jobs>>

Check(p) ==
    /\ run[p].at = "check"
    /\ LET fresh == DropOpenings(p, OpenOpenings(run[p].employer, run[p].source))
       IN  run' = [run EXCEPT ![p].at = "store", ![p].fresh = fresh, ![p].left = fresh]
    /\ UNCHANGED <<registered, jobs>>

\* The look fails: everything is stored without it.
CheckFails(p) == Unchecked /\ CheckNothing(p)

-----------------------------------------------------------------------------
(* persist, for a sample whose jobs may move.                              *)

Skip(p, id) ==
    /\ run' = [run EXCEPT ![p].at = "store", ![p].left = @ \ {id}]
    /\ UNCHANGED jobs

Write(p, id) ==
    /\ jobs' = Upserted(jobs, Target(p), id, run[p].found[id].says)
    /\ run' = [run EXCEPT ![p].at = "store", ![p].left = @ \ {id}, ![p].wrote = @ \cup {id}]

\* A row of another target is moved before it is written again.
Store(p, id) ==
    /\ run[p].at = "store" /\ id \in run[p].left
    /\ \/ id \notin Good(p) /\ Skip(p, id)
       \/ id \in Good(p) /\ ~Mismatch(jobs, Target(p), id) /\ Write(p, id)
       \/ /\ id \in Good(p) /\ Mismatch(jobs, Target(p), id)
          /\ run' = [run EXCEPT ![p].at = "move", ![p].moving = id]
          /\ UNCHANGED jobs
    /\ UNCHANGED registered

\* The row changes hands but stays what it was.
MoveForgotten(p) ==
    /\ run[p].at = "move"
    /\ Skip(p, run[p].moving)
    /\ UNCHANGED registered

MoveJob(p) ==
    /\ run[p].at = "move"
    /\ jobs' = [jobs EXCEPT ![run[p].moving].target = Target(p)]
    /\ Goto(p, "again")
    /\ UNCHANGED registered

\* The move fails: the job is skipped like any refused one.
MoveFails(p) == Faults /\ MoveForgotten(p)

\* Another run may have moved it away again: then it is skipped.
StoreAgain(p) ==
    /\ run[p].at = "again"
    /\ IF Mismatch(jobs, Target(p), run[p].moving) THEN Skip(p, run[p].moving)
       ELSE Write(p, run[p].moving)
    /\ UNCHANGED registered

CloseEnded(p) ==
    /\ run[p].at = "store" /\ run[p].left = {}
    /\ jobs' = CloseBySourceID(jobs, Target(p),
                   {id \in EndedIds(p) : run[p].found[id].employer = run[p].employer})
    /\ Goto(p, "stale")
    /\ UNCHANGED registered

\* On to the next employer, with these openings stored.
EndGroup(p, openings) ==
    run' = [run EXCEPT ![p].at = "group", ![p].groups = @ \ {run[p].employer},
                       ![p].fresh = {}, ![p].left = {}, ![p].wrote = {},
                       ![p].stored = @ \cup openings]

\* A sample only ages jobs out; then the openings written count as stored.
AgeOut(p) ==
    /\ run[p].at = "stale"
    /\ jobs' = CloseStale(jobs, Target(p))
    /\ EndGroup(p, {<<run[p].employer, run[p].found[id].says>> : id \in run[p].wrote})
    /\ UNCHANGED registered

\* persist returns the error: what it wrote is not counted as stored.
PersistFails(p) ==
    /\ Faults /\ run[p].at \in {"store", "again", "stale"}
    /\ EndGroup(p, {})
    /\ UNCHANGED <<registered, jobs>>

-----------------------------------------------------------------------------
(* sweepAbsent: the employers that were not part of the run.               *)

ListTargets(p) ==
    /\ run[p].at = "group" /\ run[p].groups = {}
    /\ run' = [run EXCEPT ![p].at = "absent",
                          ![p].absent = {t \in registered : t[1] = run[p].source}
                                            \ run[p].touched]
    /\ UNCHANGED <<registered, jobs>>

ListTargetsFails(p) ==
    /\ Faults /\ run[p].at = "group" /\ run[p].groups = {}
    /\ Goto(p, "next")
    /\ UNCHANGED <<registered, jobs>>

\* An absent employer's jobs are gone.
AgeOutAllAbsent(p, t) ==
    /\ run[p].at = "absent" /\ t \in run[p].absent
    /\ jobs' = MarkMissingAsRemoved(jobs, t, {})
    /\ run' = [run EXCEPT ![p].absent = @ \ {t}]
    /\ UNCHANGED registered

AgeOutAbsent(p, t) ==
    /\ run[p].at = "absent" /\ t \in run[p].absent
    /\ jobs' = CloseStale(jobs, t)
    /\ run' = [run EXCEPT ![p].absent = @ \ {t}]
    /\ UNCHANGED registered

AgeOutAbsentFails(p, t) ==
    /\ Faults /\ run[p].at = "absent" /\ t \in run[p].absent
    /\ run' = [run EXCEPT ![p].absent = @ \ {t}]
    /\ UNCHANGED <<registered, jobs>>

EndCollector(p) ==
    /\ run[p].at = "absent" /\ run[p].absent = {}
    /\ run' = [run EXCEPT ![p].at = "next", ![p].found = << >>, ![p].touched = {}]
    /\ UNCHANGED <<registered, jobs>>

-----------------------------------------------------------------------------
\* A tick is a day or more and no run lasts that long.
Tick ==
    /\ \A p \in Procs : Idle(p)
    /\ jobs' = Aged(jobs)
    /\ UNCHANGED <<registered, run>>

Next ==
    \/ \E p \in Procs :
          \/ StartRun(p) \/ FinishRun(p) \/ Crash(p)
          \/ \E s \in Sources : Collect(p, s) \/ CollectFails(p, s)
          \/ \E e \in Employers : Group(p, e) \/ GroupFails(p, e)
          \/ Check(p) \/ CheckFails(p)
          \/ \E id \in Ids : Store(p, id)
          \/ MoveJob(p) \/ MoveFails(p) \/ StoreAgain(p)
          \/ CloseEnded(p) \/ AgeOut(p) \/ PersistFails(p)
          \/ ListTargets(p) \/ ListTargetsFails(p)
          \/ \E t \in Targets : AgeOutAbsent(p, t) \/ AgeOutAbsentFails(p, t)
          \/ EndCollector(p)
    \/ Tick

Spec == Init /\ [][Next]_vars

-----------------------------------------------------------------------------
(* Properties.                                                             *)

RunOK(r) ==
    /\ r.at \in Places /\ r.todo \subseteq Sources /\ r.source \in Sources
    /\ r.found \in Samples(r.source) \cup {<< >>}
    /\ r.employer \in Employers /\ r.groups \subseteq Employers
    /\ r.touched \subseteq registered /\ r.absent \subseteq registered \ r.touched
    /\ r.left \subseteq r.fresh /\ r.wrote \subseteq r.fresh \ r.left
    /\ r.fresh \subseteq DOMAIN r.found /\ r.moving \in Ids
    /\ r.stored \subseteq Employers \X Contents

TypeOK ==
    /\ registered \subseteq Targets
    /\ jobs \in Table
    /\ \A id \in Ids : jobs[id] # NoRow => /\ jobs[id].target \in registered
                                          /\ jobs[id].target[1] = SourceOf[id]
    /\ \A p \in Procs : RunOK(run[p])

\* A sample proves nothing by what it leaves out: a job is closed only when its
\* own board reports it as ended or when it went unseen too long.
ClosedAgedOrEnded ==
    [][\A id \in Ids : (jobs[id].status = "open" /\ jobs'[id].status # "open") =>
          \/ jobs[id].age > StaleAfter
          \/ \E p \in Procs : run[p].at = "store" /\ id \in EndedIds(p)]_vars

\* Between runs, no opening of a company is open twice, under two sources:
\* "boards that run in different invocations do not show one job twice"
\* (docs/remote-boards.md).
ShownOnce ==
    (\A p \in Procs : Idle(p)) =>
        \A i, j \in Ids :
            (/\ SourceOf[i] # SourceOf[j]
             /\ jobs[i].status = "open" /\ jobs[j].status = "open"
             /\ jobs[i].target[2] = jobs[j].target[2])
            => <<jobs[i].content, jobs[j].content>> \notin Same

\* When a collector closes a job that the listing in its hand still shows, and it
\* is through with the employer it shows it for, the opening stays visible through
\* another job: a listing dropped as a duplicate may age out, its opening may not
\* disappear.
ListedStaysVisible ==
    [][\A p \in Procs : \A id \in Good(p) :
          (/\ run'[p] # run[p] /\ run[p].at \in {"stale", "absent"}
           /\ run[p].found[id].employer \notin run'[p].groups
           /\ jobs[id].status = "open" /\ jobs'[id].status # "open")
          => \E j \in Ids : /\ jobs'[j].status = "open"
                            /\ jobs'[j].target[2] = run[p].found[id].employer
                            /\ <<jobs'[j].content, run[p].found[id].says>> \in Same]_vars

\* Once a collector is through with an employer, every job it kept for it is
\* open, says what was read and is that employer's, whoever had it before ("the
\* job moves to the new spelling's company instead of being stranded").
KeptAreFiled ==
    \A p \in Procs : run[p].at = "stale" =>
        \A id \in run[p].fresh \cap Good(p) :
            /\ jobs[id].status = "open" /\ jobs[id].target = Target(p)
            /\ jobs[id].content = run[p].found[id].says
=============================================================================
