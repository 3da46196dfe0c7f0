---------------------------- MODULE QueryBudget ----------------------------
(* What Budget promises: a counter of queries that is never exceeded and   *)
(* refuses nobody before it is spent.                                      *)
EXTENDS Naturals

CONSTANTS Users, Max
VARIABLES spent,  \* queries granted
          refused \* who has been told that there are none left

Init == spent = 0 /\ refused = {}

Spend == spent < Max /\ spent' = spent + 1 /\ UNCHANGED refused

Refuse(u) == spent = Max /\ refused' = refused \cup {u} /\ UNCHANGED spent

Next == Spend \/ \E u \in Users : Refuse(u)

Spec == Init /\ [][Next]_<<spent, refused>>
=============================================================================
