------------------------------ MODULE MCSearch ------------------------------
(* Instances of Search small enough for TLC.                               *)
EXTENDS Search

CONSTANTS s1, s2, s3, collector, other
=============================================================================
