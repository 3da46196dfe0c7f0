---------------------------- MODULE MCCollectors ----------------------------
(* Instances of Collectors small enough for TLC.                           *)
EXTENDS Collectors

CONSTANTS a, b, ia, ib, ic, e1, e2, here, there, nowhere

\* ia is the first board's, the others are the second's.
TwoBoards == [id \in Ids |-> IF id = ia THEN a ELSE b]

\* The Ethiopian market: two cities differ, a place that names none is any.
\* (With one content it is the worldwide market, where the title decides.)
ByPlace == {<<c, d>> \in Contents \X Contents : c = d \/ nowhere \in {c, d}}

CONSTANT Worlds   \* the bounds: what is posted, by whom, saying what
VARIABLE postable \* the one of them that a behaviour plays in

\* Any two of jobs, employers and contents at full size, the third one smaller.
Large == {[ids |-> {ia, ib, ic}, by |-> {e1, e2}, says |-> {here, Ended}],
          [ids |-> {ia, ib, ic}, by |-> {e1}, says |-> {here, there, nowhere, Ended}],
          [ids |-> {ia, ib}, by |-> {e1, e2}, says |-> {here, nowhere, Bad, Ended}]}

\* One job that moves between employers, or two that one employer posts.
Small == {[ids |-> {ia}, by |-> {e1, e2}, says |-> {here, Bad, Ended}],
          [ids |-> {ia, ib}, by |-> {e1}, says |-> {here, Bad, Ended}]}

InWorld(f) ==
    \A id \in DOMAIN f : /\ id \in postable.ids /\ f[id].employer \in postable.by
                         /\ f[id].says \in postable.says

MCInit == Init /\ postable \in Worlds
MCNext ==
    /\ Next
    /\ \A p \in Procs : InWorld(run'[p].found)
    /\ UNCHANGED postable

MCSpec == MCInit /\ [][MCNext]_<<vars, postable>>
=============================================================================
