----------------------------- MODULE IngestLive -----------------------------
(***************************************************************************)
(* Ingest together with the boards it reads.  Boards change, disappear and *)
(* come back until, from some moment on, the world is calm: boards stop    *)
(* changing, statements stop failing and nobody re-checks or rediscovers,  *)
(* while the processes go on running.  What was under way or left          *)
(* half-finished at that moment is arbitrary.                              *)
(***************************************************************************)
EXTENDS Ingest

VARIABLES listing, \* listing[t]: what t's board shows
          gone,    \* gone[t]: the ATS answers that t's board does not exist
          calm

world == <<listing, gone, calm>>

LiveInit ==
    /\ Init
    /\ listing = [t \in Targets |-> [id \in Ids |-> Absent]]
    /\ gone = [t \in Targets |-> FALSE]
    /\ calm = FALSE

\* A fetch that succeeds, or reports the board gone, tells the truth.
Honest ==
    \A p \in Procs, t \in Targets : pc[p][t] = "fetch" =>
        /\ pc'[p][t] = "store" => ~gone[t] /\ fetched'[p][t] = listing[t]
        /\ pc'[p][t] = "retire" => gone[t]

HonestWork(p, t) == Work(p, t) /\ Honest /\ UNCHANGED world

BoardChanges(t) ==
    /\ ~calm
    /\ \E f \in Answers(t) \ {listing[t]} : listing' = [listing EXCEPT ![t] = f]
    /\ UNCHANGED <<vars, gone, calm>>

BoardGoesOrReturns(t) ==
    /\ ~calm
    /\ gone' = [gone EXCEPT ![t] = ~@]
    /\ UNCHANGED <<vars, listing, calm>>

Settle == ~calm /\ calm' = TRUE /\ UNCHANGED <<vars, listing, gone>>

LiveNext ==
    \/ Progress /\ Honest /\ UNCHANGED world
    \/ ~calm /\ Disturbance /\ UNCHANGED world
    \/ \E t \in Targets : BoardChanges(t) \/ BoardGoesOrReturns(t)
    \/ Settle

\* ingest is run again and again (cron), its workers and its feeder are not
\* starved by the Go scheduler, and days pass between runs.
Fairness ==
    /\ \A p \in Procs :
          /\ WF_vars(StartRun(p) /\ UNCHANGED world)
          /\ WF_vars(FinishRun(p) /\ UNCHANGED world)
          /\ \A t \in Targets : /\ WF_vars(Dispatch(p, t) /\ UNCHANGED world)
                                /\ WF_vars(HonestWork(p, t))
    /\ \A t \in Targets : WF_vars(RecheckClose(t) /\ UNCHANGED world)
    /\ SF_vars(Tick /\ UNCHANGED world)

LiveSpec == LiveInit /\ [][LiveNext]_<<vars, world>> /\ Fairness

\* The open jobs of t are what its board lists; a sampled job that is listed no
\* more has aged out.
Agrees(t) ==
    \A id \in Ids : /\ StoredAs(t, id, listing[t][id])
                    /\ listing[t][id] = Absent => id \notin OpenAt(jobs, t)

\* Whatever happened before, once the world is calm the repeated runs bring the
\* rows of an active target whose board exists to what the board lists, and
\* keep them there.
Converges ==
    \A t \in Targets :
        [](calm /\ active[t] /\ ~gone[t] => <>[](active[t] => Agrees(t)))
=============================================================================
