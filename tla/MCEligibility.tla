---------------------------- MODULE MCEligibility ----------------------------
(* Instances of Eligibility small enough for TLC.                          *)
EXTENDS Eligibility

CONSTANTS r1, r2, x, y, hybrid

CONSTANT Worlds  \* the bounds: how many runs at once, over which jobs, saying what
VARIABLE playing \* the one of them that a behaviour plays in

\* One job at full size between two runs; two runs over two jobs that come and
\* go; several pages, the jobs edited or not, by one run after another.
Small == {[runs |-> 2, ids |-> {1}, texts |-> Texts, says |-> Said \cup {Unsaid}],
          [runs |-> 2, ids |-> {1, 2}, texts |-> {x}, says |-> {Unsaid}],
          [runs |-> 1, ids |-> {1, 2}, texts |-> {x}, says |-> Said \cup {Unsaid}],
          [runs |-> 1, ids |-> {1, 2, 3}, texts |-> {x}, says |-> {Unsaid}]}

MCInit == Init /\ playing \in Worlds
MCNext ==
    /\ Next
    /\ Cardinality({r \in Runs : run'[r] # Idle}) <= playing.runs
    /\ \A id \in Jobs :
          jobs'[id] # jobs[id] => /\ id \in playing.ids /\ jobs'[id].text \in playing.texts
                                  /\ jobs'[id].said \in playing.says
    /\ UNCHANGED playing

MCSpec == MCInit /\ [][MCNext]_<<vars, playing>> /\ Fairness
=============================================================================
