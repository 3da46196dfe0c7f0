----------------------------- MODULE Eligibility -----------------------------
(***************************************************************************)
(* The stored verdicts (internal/eligibility): runs of the classification  *)
(* service, which ingest ends with and the classify command is, read open  *)
(* jobs that need a verdict in batches by job id, apply the rules and      *)
(* write the verdicts, while ingestion goes on changing the jobs and other *)
(* runs, of older binaries among them, write verdicts too.                 *)
(***************************************************************************)
EXTENDS Naturals, FiniteSets

CONSTANTS Runs,     \* runs of the service that may overlap
          Jobs,     \* job ids
          Batch,    \* how many jobs are read, classified and written at a time
          Texts,    \* what the content hash covers apart from the remote type
          Said,     \* the remote types a source may state
          Unsaid,   \* the source states none
          Unknown,  \* the remote type of a job whose source never stated one
          Versions, \* filtering.Version of the binaries in use
          Latest,   \* the newest of them
          None      \* no row, no verdict

VARIABLES
    jobs,    \* jobs[id]: the row, or None
    verdict, \* verdict[id]: the row of job_eligibility, or None
    run,     \* run[r]: where r is and what it holds in memory
    owed     \* owed[r]: open since r began and changed by nobody but r

vars == <<jobs, verdict, run, owed>>

Row == [open : BOOLEAN, text : Texts, said : Said \cup {Unsaid},
        remote : Said \cup {Unknown}]

\* What contentHash hashes, and what the rules are given.  The two differ: a
\* source that states no remote type leaves the stored one in place.
HashOf(row) == <<row.text, row.said>>
InputOf(row) == [text |-> row.text, remote |-> row.remote]

Hash == Texts \X (Said \cup {Unsaid})
Input == [text : Texts, remote : Said \cup {Unknown}]
Judged == [of : Input, hash : Hash]
Verdict == [of : Input, hash : Hash, version : Versions]

ASSUME EligibilityAssumption ==
    /\ Jobs \subseteq Nat \ {0}
    /\ Batch \in Nat \ {0}
    /\ Latest \in Versions
    /\ Unsaid \notin Said
    /\ None \notin Row /\ None \notin Verdict

Idle == [at |-> "idle"]
NoRows == [id \in {} |-> None]

Init ==
    /\ jobs = [id \in Jobs |-> None]
    /\ verdict = [id \in Jobs |-> None]
    /\ run = [r \in Runs |-> Idle]
    /\ owed = [r \in Runs |-> {}]

Open(id) == jobs[id] # None /\ jobs[id].open

\* The verdict of id was made by these rules, from this version of the job.
Current(id, version) ==
    /\ jobs[id] # None /\ verdict[id] # None
    /\ verdict[id].version = version
    /\ verdict[id].hash = HashOf(jobs[id])

-----------------------------------------------------------------------------
(* Ingestion, as these tables see it.                                      *)

Disown(id) == owed' = [r \in Runs |-> owed[r] \ {id}]

\* An upsert that stores an unstated remote type over the stored one.
UpsertBlank(id, text, said) ==
    /\ jobs' = [jobs EXCEPT ![id] = [open |-> TRUE, text |-> text, said |-> said,
                                     remote |-> said]]
    /\ Disown(id)
    /\ UNCHANGED <<verdict, run>>

\* UpsertFromATS: inserted, refreshed or reopened.
Upsert(id, text, said) ==
    /\ jobs' = [jobs EXCEPT ![id] =
          [open |-> TRUE, text |-> text, said |-> said,
           remote |-> IF said # Unsaid THEN said
                      ELSE IF jobs[id] = None THEN Unknown ELSE jobs[id].remote]]
    /\ IF Open(id) /\ HashOf(jobs'[id]) = HashOf(jobs[id]) THEN UNCHANGED owed ELSE Disown(id)
    /\ UNCHANGED <<verdict, run>>

Close(id) ==
    /\ Open(id)
    /\ jobs' = [jobs EXCEPT ![id].open = FALSE]
    /\ Disown(id)
    /\ UNCHANGED <<verdict, run>>

-----------------------------------------------------------------------------
(* Service.Run.                                                            *)

StartRun(r, version, force) ==
    /\ run[r].at = "idle"
    /\ run' = [run EXCEPT ![r] = [at |-> "read", version |-> version, force |-> force,
                                  after |-> 0, rows |-> NoRows]]
    /\ owed' = [owed EXCEPT ![r] = {id \in Jobs : Open(id)}]
    /\ UNCHANGED <<jobs, verdict>>

\* Verdicts are looked at for their version only.
PendingByVersion(r) ==
    {id \in Jobs : /\ Open(id) /\ id > run[r].after
                   /\ \/ run[r].force \/ verdict[id] = None
                      \/ verdict[id].version # run[r].version}

\* pendingQuery, before its LIMIT.
Pending(r) ==
    {id \in Jobs : /\ Open(id) /\ id > run[r].after
                   /\ run[r].force \/ ~Current(id, run[r].version)}

\* A page without its ORDER BY.
AnyOf(S) == {B \in SUBSET S : Cardinality(B) <= Batch /\ (B = S \/ Cardinality(B) = Batch)}

\* ORDER BY id LIMIT Batch.
FirstOf(S) ==
    {B \in SUBSET S : /\ Cardinality(B) <= Batch /\ (B = S \/ Cardinality(B) = Batch)
                      /\ \A i \in B, j \in S \ B : i < j}

\* A batch is read and the rules are applied to what was read.
Read(r) ==
    /\ run[r].at = "read"
    /\ Pending(r) # {}
    /\ \E B \in FirstOf(Pending(r)) :
          run' = [run EXCEPT ![r].at = "save",
                     ![r].rows = [id \in B |-> [of |-> InputOf(jobs[id]),
                                                hash |-> HashOf(jobs[id])]]]
    /\ UNCHANGED <<jobs, verdict, owed>>

\* The jobs of the batch that r is about to save.
RowsOf(r) == DOMAIN run[r].rows

\* A verdict that is stamped with the job as it is when it is written.
JudgementOfNow(r, id) == [of |-> run[r].rows[id].of, hash |-> HashOf(jobs[id]),
                          version |-> run[r].version]

\* What Save makes of the verdict that run r holds for id.
Judgement(r, id) == [of |-> run[r].rows[id].of, hash |-> run[r].rows[id].hash,
                     version |-> run[r].version]

\* Another run's verdict takes id from those who are owed it unless it serves
\* them as well.
Serves(v, q, id) == v.version = run[q].version /\ v.hash = HashOf(jobs[id])

\* A Save that keeps the verdicts that are there.
SaveNew(r) ==
    /\ run[r].at = "save"
    /\ verdict' = [id \in Jobs |-> IF id \in RowsOf(r) /\ verdict[id] = None
                                   THEN Judgement(r, id) ELSE verdict[id]]
    /\ \E last \in RowsOf(r) :
          /\ \A id \in RowsOf(r) : id <= last
          /\ run' = [run EXCEPT ![r].at = "read", ![r].after = last, ![r].rows = NoRows]
    /\ UNCHANGED <<jobs, owed>>

\* Save writes the batch in one transaction, over whatever verdict is there; the
\* keyset moves past the batch's last job.
Save(r) ==
    /\ run[r].at = "save"
    /\ verdict' = [id \in Jobs |-> IF id \in RowsOf(r) THEN Judgement(r, id)
                                   ELSE verdict[id]]
    /\ owed' = [q \in Runs |-> IF q = r THEN owed[q]
                   ELSE {id \in owed[q] : id \in RowsOf(r) => Serves(Judgement(r, id), q, id)}]
    /\ \E last \in RowsOf(r) :
          /\ \A id \in RowsOf(r) : id <= last
          /\ run' = [run EXCEPT ![r].at = "read", ![r].after = last, ![r].rows = NoRows]
    /\ UNCHANGED jobs

Finish(r) ==
    /\ run[r].at = "read"
    /\ Pending(r) = {}
    /\ run' = [run EXCEPT ![r] = Idle]
    /\ owed' = [owed EXCEPT ![r] = {}]
    /\ UNCHANGED <<jobs, verdict>>

\* The context is cancelled, a statement fails (its transaction is rolled back) or
\* the process dies.
Stop(r) ==
    /\ run[r].at # "idle"
    /\ run' = [run EXCEPT ![r] = Idle]
    /\ owed' = [owed EXCEPT ![r] = {}]
    /\ UNCHANGED <<jobs, verdict>>

-----------------------------------------------------------------------------
Ingestion ==
    \E id \in Jobs :
        \/ \E text \in Texts, said \in Said \cup {Unsaid} : Upsert(id, text, said)
        \/ Close(id)

Work(r) == Read(r) \/ Save(r) \/ Finish(r)

Next ==
    \/ Ingestion
    \/ \E r \in Runs : \/ \E version \in Versions, force \in BOOLEAN : StartRun(r, version, force)
                       \/ Work(r) \/ Stop(r)

\* ingest and classify are run again and again, by the newest binary among others.
Fairness ==
    \A r \in Runs : WF_vars(StartRun(r, Latest, FALSE)) /\ WF_vars(Work(r))

Spec == Init /\ [][Next]_vars /\ Fairness

-----------------------------------------------------------------------------
(* Properties.                                                             *)

Started == [at : {"read", "save"}, version : Versions, force : BOOLEAN, after : Nat,
            rows : UNION {[B -> Judged] : B \in SUBSET Jobs}]

TypeOK ==
    /\ jobs \in [Jobs -> Row \cup {None}]
    /\ verdict \in [Jobs -> Verdict \cup {None}]
    /\ run \in [Runs -> Started \cup {Idle}]
    /\ owed \in [Runs -> SUBSET Jobs]

\* No verdict passes for one of another version of the posting: whichever runs
\* overlap with ingestion and with each other, a verdict that carries the job's
\* present hash was made from what that hash stands for.  (It stands for no remote
\* type that the source has stopped stating, and the rules read that too.)
JudgedAsPosted ==
    \A id \in Jobs :
        (jobs[id] # None /\ verdict[id] # None /\ verdict[id].hash = HashOf(jobs[id]))
        => /\ verdict[id].of.text = jobs[id].text
           /\ jobs[id].said # Unsaid => verdict[id].of.remote = jobs[id].said

\* Run "classifies every open job that has no verdict, or has one made by other
\* rules ... or from an older version of the job": when it returns without an
\* error, every job that was open from its beginning and that nobody else changed
\* meanwhile has a verdict of its rules and of the job's present hash, whatever
\* was inserted, closed and judged by others between its pages.
FinishedMeansClassified ==
    [][\A r \in Runs : (run[r].at = "read" /\ Finish(r)) =>
          \A id \in owed[r] : Current(id, run[r].version)]_vars

\* From some moment on nothing happens but undisturbed runs of the newest binary.
Calm ==
    <>[][\E r \in Runs : Work(r) \/ \E force \in BOOLEAN : StartRun(r, Latest, force)]_vars

\* Then every open job comes to have a current verdict and keeps it, whatever
\* stale batch of an older binary was still to be saved at that moment.
Settles == Calm => <>[](\A id \in Jobs : Open(id) => Current(id, Latest))
=============================================================================
