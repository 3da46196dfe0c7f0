------------------------------ MODULE MCIngest ------------------------------
(* Instances of Ingest small enough for TLC.                               *)
EXTENDS Ingest, TLC

CONSTANTS t1, t2, i1, i2

Symmetry == Permutations(Procs) \cup Permutations(Contents)

\* Every board may list every job.
AllIds == [t \in Targets |-> Ids]

VARIABLES inPlay, \* the targets discovery knows; the others stay inactive
          posted  \* the jobs their boards ever list

\* The bounds.  One job, and either one board with processes that overlap or two
\* boards with one process at a time; or two jobs, one board and one process at
\* a time.
Overlap == Cardinality(inPlay) = 1 /\ Cardinality(posted) = 1

MCInit ==
    /\ inPlay \in (SUBSET Targets) \ {{}} /\ posted \in {{i1}, {i1, i2}}
    /\ Cardinality(inPlay) + Cardinality(posted) <= 3
    /\ Init /\ active = [t \in Targets |-> t \in inPlay]

MCNext ==
    /\ Next
    /\ \A t \in Targets \ inPlay : ~active'[t]
    /\ \A p \in Procs, t \in Targets, id \in Ids \ posted :
          fetched'[p][t][id] \in {Absent, Unknown}
    /\ Overlap \/ Cardinality({p \in Procs : running'[p]}) <= 1
    /\ UNCHANGED <<inPlay, posted>>

MCSpec == MCInit /\ [][MCNext]_<<vars, inPlay, posted>>
=============================================================================
