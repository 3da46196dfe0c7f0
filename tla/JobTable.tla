------------------------------ MODULE JobTable ------------------------------
(***************************************************************************)
(* The jobs table as internal/job.Store writes it: one row per             *)
(* (source, source_job_id) identity, owned by the target that stored it.   *)
(* Every operator below is one SQL statement, hence one atomic change.     *)
(* A row's company is its target's (jobs_target_company_fk) and its source *)
(* is its target's provider (jobs_target_source_fk), so neither is stored  *)
(* again here, and the members of Ids stand for whole identities.          *)
(***************************************************************************)
EXTENDS Naturals

CONSTANTS Ids,        \* the (source, source_job_id) identities
          Targets,    \* the registered boards, rows of target_companies
          Contents,   \* what a posting can say: the fields the content hash covers
          StaleAfter  \* how long, in ticks, a sampled job may go unseen

ASSUME StaleAfterAssumption == StaleAfter \in Nat

NoRow == [status |-> "none"]

\* age is the time since last_seen_at, counted no further than the first value
\* CloseStale can tell apart, and only while the row is open: nothing reads
\* last_seen_at of a closed row before an upsert has reset it.
Row == [status : {"open", "removed"}, target : Targets,
        content : Contents, age : 0..(StaleAfter + 1)]

Table == [Ids -> Row \cup {NoRow}]

OpenAt(jobs, t) ==
    {id \in Ids : jobs[id].status = "open" /\ jobs[id].target = t}

\* An ON CONFLICT DO UPDATE without its guard.
NeverMismatch(jobs, t, id) == FALSE

\* The guard of ON CONFLICT DO UPDATE: a row of another target is not updated,
\* and UpsertFromATS answers ErrJobTargetMismatch.
Mismatch(jobs, t, id) == jobs[id] # NoRow /\ jobs[id].target # t

\* An upsert that forgets to reopen.
UpsertedStillClosed(jobs, t, id, c) ==
    [jobs EXCEPT ![id] =
        [status |-> IF jobs[id] = NoRow THEN "open" ELSE jobs[id].status,
         target |-> t, content |-> c, age |-> 0]]

\* UpsertFromATS, past that guard: inserted, refreshed or reopened.
Upserted(jobs, t, id, c) ==
    [jobs EXCEPT ![id] = [status |-> "open", target |-> t,
                          content |-> c, age |-> 0]]

\* A status no reader and no constraint of the table knows.
ClosedAsExpired(jobs, S) ==
    [id \in Ids |-> IF id \in S THEN [jobs[id] EXCEPT !.status = "expired"]
                                ELSE jobs[id]]

Closed(jobs, S) ==
    [id \in Ids |-> IF id \in S THEN [jobs[id] EXCEPT !.status = "removed"]
                                ELSE jobs[id]]

MarkMissingAsRemoved(jobs, t, seen) == Closed(jobs, OpenAt(jobs, t) \ seen)

CloseBySourceID(jobs, t, ended) == Closed(jobs, OpenAt(jobs, t) \cap ended)

CloseStale(jobs, t) ==
    Closed(jobs, {id \in OpenAt(jobs, t) : jobs[id].age > StaleAfter})

\* One tick of the database clock: last_seen_at falls behind for open rows.
Aged(jobs) ==
    [id \in Ids |-> IF jobs[id].status = "open" /\ jobs[id].age <= StaleAfter
                    THEN [jobs[id] EXCEPT !.age = @ + 1] ELSE jobs[id]]
=============================================================================
