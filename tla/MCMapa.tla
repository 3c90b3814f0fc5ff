------------------------------- MODULE MCMapa -------------------------------
(* Small maps for TLC: two trainers, one of which comes back. *)
EXTENDS Mapa

CONSTANTS s1, s2, s3, x, y, A, B, p1, p2

MCOwner == [s \in Sessions |-> IF s = s2 THEN y ELSE x]
MCGoals == [s \in Sessions |-> IF s = s2 THEN <<B, A>> ELSE <<A, B>>]
\* Two trainers that still have a pokemon to catch when they want each other's.
MCLongGoals == [s \in Sessions |-> IF s = s2 THEN <<B, A, B>> ELSE <<A, B, A>>]
MCNest  == p1 :> A @@ p2 :> B
=============================================================================
