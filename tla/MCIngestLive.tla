---------------------------- MODULE MCIngestLive ----------------------------
(* Instances of IngestLive small enough for TLC.                           *)
EXTENDS IngestLive

CONSTANTS t1, t2

AllIds == [t \in Targets |-> Ids]

VARIABLE inPlay \* the one target discovery knows

MCInit ==
    /\ inPlay \in Targets
    /\ LiveInit /\ active = [t \in Targets |-> t = inPlay]

\* The bounds: the other target stays out, and processes overlap on a full board
\* only: on a sampled one they could keep each other's persists so close that no
\* tick ever fits between them.
MCNext ==
    /\ LiveNext
    /\ inPlay \in Partial => Cardinality({p \in Procs : running'[p]}) <= 1
    /\ \A t \in Targets \ {inPlay} :
          ~active'[t] /\ listing'[t] = listing[t] /\ gone'[t] = gone[t]
    /\ UNCHANGED inPlay

MCSpec == MCInit /\ [][MCNext]_<<vars, world, inPlay>> /\ Fairness
=============================================================================
