------------------------------- MODULE Ingest -------------------------------
(***************************************************************************)
(* `aggregator ingest` for per-target boards (internal/ingestion):         *)
(* processes that overlap in time, each with a bounded pool of workers,    *)
(* fetch the boards of the active targets and write what they saw to one   *)
(* database, statement by statement.  A board may answer anything at any   *)
(* fetch; discovery reactivates targets, an operator re-checks boards,     *)
(* statements fail and processes die.                                      *)
(***************************************************************************)
EXTENDS JobTable, FiniteSets

CONSTANTS Procs,    \* ingest processes that may overlap
          Workers,  \* INGESTION_WORKERS, the size of each process's pool
          Partial,  \* the targets whose client is a PartialClient
          BoardIds, \* BoardIds[t]: the identities t's board may list
          Bad,      \* listed, but with data that is skipped or refused
          Ended,    \* listed as ended (ats.Job.Closed)
          Absent,   \* not listed
          Unknown,  \* nothing is known: no listing was fetched
          Faults,   \* whether statements fail and processes are interrupted
          Rechecks  \* whether discover-boards --recheck --apply is ever run

ASSUME IngestAssumption ==
    /\ Workers \in Nat \ {0}
    /\ Partial \subseteq Targets
    /\ BoardIds \in [Targets -> SUBSET Ids]
    /\ {Bad, Ended, Absent, Unknown} \cap Contents = {}
    /\ Bad \notin {Ended, Absent, Unknown}
    /\ Ended # Absent /\ Unknown \notin {Ended, Absent}
    /\ Faults \in BOOLEAN
    /\ Rechecks \in BOOLEAN

Entries == Contents \cup {Bad, Ended, Absent, Unknown}
Listing == [Ids -> Entries]
NotFetched == [id \in Ids |-> Unknown]

\* What t's board may answer.
Answers(t) ==
    {f \in Listing : \A id \in Ids : f[id] # Unknown
                                     /\ (id \notin BoardIds[t] => f[id] = Absent)}

\* The jobs of a fetched listing that persist upserts or skips, and so counts
\* as seen; and those it hands to CloseBySourceID.
Listed(f) == {id \in Ids : f[id] \notin {Ended, Absent, Unknown}}
EndedIds(f) == {id \in Ids : f[id] = Ended}

VARIABLES
    active,     \* target_companies.is_active
    ingested,   \* target_companies.last_successful_ingestion_at is set
    jobs,       \* the jobs table
    todo,       \* todo[p]: listed active by p's ListActive, not yet dispatched
    pc,         \* pc[p][t]: how far p's worker is with target t
    fetched,    \* fetched[p][t]: the listing that worker works from
    seen,       \* seen[p][t]: seenIDs
    running,    \* running[p]: process p is alive
    recheck,    \* the targets a re-check has deactivated but not closed yet
    alone       \* alone[p][t]: nobody else wrote t's rows since p's fetch

local == <<todo, pc, fetched, seen, running>>
vars == <<active, ingested, jobs, todo, pc, fetched, seen,
          running, recheck, alone>>

InFlight == {"fetch", "store", "sweep", "record", "retire", "empty"}
PCs == InFlight \cup {"idle", "done", "failed"}

Init ==
    /\ active \in [Targets -> BOOLEAN]
    /\ ingested = [t \in Targets |-> FALSE]
    /\ jobs = [id \in Ids |-> NoRow]
    /\ todo = [p \in Procs |-> {}]
    /\ pc = [p \in Procs |-> [t \in Targets |-> "idle"]]
    /\ fetched = [p \in Procs |-> [t \in Targets |-> NotFetched]]
    /\ seen = [p \in Procs |-> [t \in Targets |-> {}]]
    /\ running = [p \in Procs |-> FALSE]
    /\ recheck = {}
    /\ alone = [p \in Procs |-> [t \in Targets |-> TRUE]]

Goto(p, t, there) == pc' = [pc EXCEPT ![p][t] = there]

\* Process p writes rows of t: what other processes are persisting for t is no
\* longer theirs alone.
Persisting == {"store", "sweep", "record"}
Disturb(p, t) ==
    alone' = [q \in Procs |->
                 [alone[q] EXCEPT ![t] = @ /\ (q = p \/ pc[q][t] \notin Persisting)]]

-----------------------------------------------------------------------------
(* The process: ListActive, the feeder and the pool.                       *)

\* Ingester.Run starts: the target list is read once.
StartRun(p) ==
    /\ ~running[p]
    /\ running' = [running EXCEPT ![p] = TRUE]
    /\ todo' = [todo EXCEPT ![p] = {t \in Targets : active[t]}]
    /\ UNCHANGED <<active, ingested, jobs, pc, fetched, seen, recheck, alone>>

\* A free worker takes the next target.
Dispatch(p, t) ==
    /\ t \in todo[p]
    /\ Cardinality({u \in Targets : pc[p][u] \in InFlight}) < Workers
    /\ todo' = [todo EXCEPT ![p] = @ \ {t}]
    /\ Goto(p, t, "fetch")
    /\ UNCHANGED <<active, ingested, jobs, fetched, seen, running, recheck, alone>>

\* The process is gone and with it everything it had in memory.
Exit(p) ==
    /\ running' = [running EXCEPT ![p] = FALSE]
    /\ pc' = [pc EXCEPT ![p] = [t \in Targets |-> "idle"]]
    /\ fetched' = [fetched EXCEPT ![p] = [t \in Targets |-> NotFetched]]
    /\ seen' = [seen EXCEPT ![p] = [t \in Targets |-> {}]]
    /\ alone' = [alone EXCEPT ![p] = [t \in Targets |-> TRUE]]

\* All results are collected and the process exits.
FinishRun(p) ==
    /\ running[p]
    /\ todo[p] = {}
    /\ \A t \in Targets : pc[p][t] \notin InFlight
    /\ Exit(p)
    /\ UNCHANGED <<active, ingested, jobs, todo, recheck>>

\* The first signal cancels the context: the feeder stops.
Interrupt(p) ==
    /\ Faults
    /\ todo[p] # {}
    /\ todo' = [todo EXCEPT ![p] = {}]
    /\ UNCHANGED <<active, ingested, jobs, pc, fetched, seen, running, recheck, alone>>

\* The process dies (second signal, OOM kill, host restart) between statements.
Crash(p) ==
    /\ Faults
    /\ running[p]
    /\ todo' = [todo EXCEPT ![p] = {}]
    /\ Exit(p)
    /\ UNCHANGED <<active, ingested, jobs, recheck>>

-----------------------------------------------------------------------------
(* processTarget: the fetch and what follows from its answer.              *)

FetchBoard(p, t) ==
    /\ pc[p][t] = "fetch"
    /\ \E f \in Answers(t) : fetched' = [fetched EXCEPT ![p][t] = f]
    /\ Goto(p, t, "store")
    /\ UNCHANGED <<active, ingested, jobs, todo, seen, running, recheck, alone>>

\* ats.ErrBoardNotFound: on to retireGoneBoard.
FetchGone(p, t) ==
    /\ pc[p][t] = "fetch"
    /\ Goto(p, t, "retire")
    /\ UNCHANGED <<active, ingested, jobs, todo, fetched, seen, running, recheck, alone>>

\* Any other error, a provider without a client included, is left alone.
FetchFails(p, t) ==
    /\ pc[p][t] = "fetch"
    /\ Goto(p, t, "failed")
    /\ UNCHANGED <<active, ingested, jobs, todo, fetched, seen, running, recheck, alone>>

-----------------------------------------------------------------------------
(* persist, one statement at a time.                                       *)

\* The loop body for one listed job.  It is seen whatever happens to it; bad
\* data and an identity that another target owns are skipped.
StoreJob(p, t, id) ==
    /\ pc[p][t] = "store"
    /\ id \in Listed(fetched[p][t]) \ seen[p][t]
    /\ seen' = [seen EXCEPT ![p][t] = @ \cup {id}]
    /\ \/ /\ fetched[p][t][id] = Bad \/ Mismatch(jobs, t, id)
          /\ UNCHANGED <<jobs, alone>>
       \/ /\ fetched[p][t][id] # Bad /\ ~Mismatch(jobs, t, id)
          /\ jobs' = Upserted(jobs, t, id, fetched[p][t][id])
          /\ Disturb(p, t)
    /\ UNCHANGED <<active, ingested, todo, pc, fetched, running, recheck>>

\* After the loop, the jobs the source reports as ended.
CloseEnded(p, t) ==
    /\ pc[p][t] = "store"
    /\ Listed(fetched[p][t]) \subseteq seen[p][t]
    /\ jobs' = CloseBySourceID(jobs, t, EndedIds(fetched[p][t]))
    /\ Disturb(p, t)
    /\ Goto(p, t, "sweep")
    /\ UNCHANGED <<active, ingested, todo, fetched, seen, running, recheck>>

\* A closing rule that forgets about samples.
SweepAsFullBoard(p, t) ==
    /\ pc[p][t] = "sweep"
    /\ jobs' = MarkMissingAsRemoved(jobs, t, seen[p][t])
    /\ Disturb(p, t)
    /\ Goto(p, t, "record")
    /\ UNCHANGED <<active, ingested, todo, fetched, seen, running, recheck>>

\* The closing rule: a sample only ages jobs out, a full board closes the rest.
Sweep(p, t) ==
    /\ pc[p][t] = "sweep"
    /\ jobs' = IF t \in Partial THEN CloseStale(jobs, t)
               ELSE MarkMissingAsRemoved(jobs, t, seen[p][t])
    /\ Disturb(p, t)
    /\ Goto(p, t, "record")
    /\ UNCHANGED <<active, ingested, todo, fetched, seen, running, recheck>>

\* MarkIngestionSucceeded.
Record(p, t) ==
    /\ pc[p][t] = "record"
    /\ ingested' = [ingested EXCEPT ![t] = TRUE]
    /\ Goto(p, t, "done")
    /\ UNCHANGED <<active, jobs, todo, fetched, seen, running, recheck, alone>>

\* Its failure is only logged: the target's result is still a success.
RecordFails(p, t) ==
    /\ Faults
    /\ pc[p][t] = "record"
    /\ Goto(p, t, "done")
    /\ UNCHANGED <<active, ingested, jobs, todo, fetched, seen, running, recheck, alone>>

-----------------------------------------------------------------------------
(* retireGoneBoard: two statements; the target's result is an error anyway. *)

Deactivate(p, t) ==
    /\ pc[p][t] = "retire"
    /\ active' = [active EXCEPT ![t] = FALSE]
    /\ Goto(p, t, "empty")
    /\ UNCHANGED <<ingested, jobs, todo, fetched, seen, running, recheck, alone>>

CloseGone(p, t) ==
    /\ pc[p][t] = "empty"
    /\ jobs' = MarkMissingAsRemoved(jobs, t, {})
    /\ Disturb(p, t)
    /\ Goto(p, t, "failed")
    /\ UNCHANGED <<active, ingested, todo, fetched, seen, running, recheck>>

\* A failed upsert is skipped, and the run goes on to its closing rule.
StatementFailsSkipped(p, t) ==
    /\ Faults
    /\ pc[p][t] = "store"
    /\ Goto(p, t, "sweep")
    /\ UNCHANGED <<active, ingested, jobs, todo, fetched, seen, running, recheck, alone>>

\* A statement fails: persist returns the error, retireGoneBoard logs it and
\* returns.  Neither does anything more for this target.
StatementFails(p, t) ==
    /\ Faults
    /\ pc[p][t] \in {"store", "sweep", "retire", "empty"}
    /\ Goto(p, t, "failed")
    /\ UNCHANGED <<active, ingested, jobs, todo, fetched, seen, running, recheck, alone>>

-----------------------------------------------------------------------------
(* Other writers of the same tables, and time.                             *)

\* Discovery finds the board again: TargetStore.Upsert sets is_active.
Rediscover(t) ==
    /\ ~active[t]
    /\ active' = [active EXCEPT ![t] = TRUE]
    /\ UNCHANGED <<ingested, jobs, local, recheck, alone>>

\* runRecheck --apply: SetActive(false), then MarkMissingAsRemoved(nil).
RecheckDeactivate(t) ==
    /\ Rechecks
    /\ active[t]
    /\ recheck = {}
    /\ active' = [active EXCEPT ![t] = FALSE]
    /\ recheck' = {t}
    /\ UNCHANGED <<ingested, jobs, local, alone>>

RecheckClose(t) ==
    /\ t \in recheck
    /\ jobs' = MarkMissingAsRemoved(jobs, t, {})
    /\ alone' = [q \in Procs |->
                    [alone[q] EXCEPT ![t] = @ /\ pc[q][t] \notin Persisting]]
    /\ recheck' = {}
    /\ UNCHANGED <<active, ingested, local>>

\* The second statement fails (logged) or the command dies before it.
RecheckFails ==
    /\ Faults
    /\ recheck # {}
    /\ recheck' = {}
    /\ UNCHANGED <<active, ingested, jobs, local, alone>>

\* A tick is a day or more, what persist does for one sampled target takes
\* minutes: no tick falls inside it.
Tick ==
    /\ \A p \in Procs, t \in Partial : pc[p][t] \notin Persisting
    /\ jobs' = Aged(jobs)
    /\ UNCHANGED <<active, ingested, local, recheck, alone>>

-----------------------------------------------------------------------------
\* What the worker that has target t does when nothing goes wrong.
Work(p, t) ==
    \/ FetchBoard(p, t) \/ FetchGone(p, t)
    \/ \E id \in Ids : StoreJob(p, t, id)
    \/ CloseEnded(p, t) \/ Sweep(p, t) \/ Record(p, t)
    \/ Deactivate(p, t) \/ CloseGone(p, t)

\* What the program does when nothing goes wrong, and the passing of time.
Progress ==
    \/ \E p \in Procs : StartRun(p) \/ FinishRun(p)
    \/ \E p \in Procs, t \in Targets : Dispatch(p, t) \/ Work(p, t)
    \/ \E t \in Targets : RecheckClose(t)
    \/ Tick

\* What the world and the infrastructure do to it.
Disturbance ==
    \/ \E p \in Procs : Interrupt(p) \/ Crash(p)
    \/ \E p \in Procs, t \in Targets :
          FetchFails(p, t) \/ StatementFails(p, t) \/ RecordFails(p, t)
    \/ \E t \in Targets : Rediscover(t) \/ RecheckDeactivate(t)
    \/ RecheckFails

Next == Progress \/ Disturbance

Spec == Init /\ [][Next]_vars

-----------------------------------------------------------------------------
(* Properties.                                                             *)

TypeOK ==
    /\ active \in [Targets -> BOOLEAN]
    /\ ingested \in [Targets -> BOOLEAN]
    /\ jobs \in Table
    /\ todo \in [Procs -> SUBSET Targets]
    /\ pc \in [Procs -> [Targets -> PCs]]
    /\ fetched \in [Procs -> [Targets -> Listing]]
    /\ seen \in [Procs -> [Targets -> SUBSET Ids]]
    /\ running \in [Procs -> BOOLEAN]
    /\ recheck \in SUBSET Targets
    /\ alone \in [Procs -> [Targets -> BOOLEAN]]

\* What justifies closing the open job id: some run under way on its target
\* fetched a listing that says ended, or (a full board, or one reported gone)
\* does not list it; a sampled job went unseen too long; or a re-check refused
\* its board.
Evidence(id) ==
    LET t == jobs[id].target IN
    \/ \E p \in Procs :
          \/ pc[p][t] = "store" /\ fetched[p][t][id] = Ended
          \/ pc[p][t] = "sweep" /\ t \notin Partial
             /\ fetched[p][t][id] \in {Ended, Absent}
          \/ pc[p][t] = "empty"
    \/ t \in Partial /\ jobs[id].age > StaleAfter
    \/ t \in recheck

\* A job is closed only on evidence that it is over.  A failed or interrupted
\* fetch, an aborted persist, a job with bad data that is still on the board, a
\* sample that happens not to show a job, and a run over another target's board
\* never close one.
ClosedOnEvidence ==
    [][\A id \in Ids : (jobs[id].status = "open" /\ jobs'[id].status # "open")
                        => Evidence(id)]_vars

\* A stored job never disappears from the table, never changes hands, and only
\* ever says what its own target's board said to a run still under way: two
\* boards that list the same identity cannot write over each other
\* (ErrJobTargetMismatch).
RowsKeepTheirOwner ==
    [][\A id \in Ids : (jobs[id] # NoRow) =>
          LET t == jobs[id].target IN
          /\ jobs'[id] # NoRow /\ jobs'[id].target = t
          /\ jobs'[id].content # jobs[id].content =>
                \E p \in Procs : /\ pc[p][t] = "store"
                                  /\ fetched[p][t][id] = jobs'[id].content]_vars

\* What a run leaves behind when it is about to record success and nobody else
\* wrote the target's rows since its fetch: every good job the board showed is
\* open with that content, none it showed as ended is open, and a full board has
\* nothing open that it did not list.
StoredAs(t, id, e) ==
    CASE e \in Contents -> jobs[id] # NoRow /\ (jobs[id].target = t =>
                               jobs[id].status = "open" /\ jobs[id].content = e)
      [] e = Bad        -> TRUE
      [] e = Ended      -> id \notin OpenAt(jobs, t)
      [] e = Absent     -> t \in Partial \/ id \notin OpenAt(jobs, t)

SuccessMeansStored ==
    \A p \in Procs, t \in Targets :
        (pc[p][t] = "record" /\ alone[p][t]) =>
            \A id \in Ids : StoredAs(t, id, fetched[p][t][id])

\* Nothing is open under a target that is inactive, once nobody is still
\* writing to it: a gone board's open jobs are closed "since the target is no
\* longer fetched" and no later run would do it (processTarget's comment).
RetiredHasNoOpenJobs ==
    \A t \in Targets :
        (~active[t] /\ t \notin recheck
           /\ \A p \in Procs : pc[p][t] \notin InFlight /\ t \notin todo[p])
        => OpenAt(jobs, t) = {}
=============================================================================
