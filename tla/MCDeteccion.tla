---------------------------- MODULE MCDeteccion ----------------------------
(* Three trainers and two pokemons of one PokeNest, so that there are two    *)
(* battles, for TLC.                                                         *)
EXTENDS DeteccionDeadlock

CONSTANTS s1, s2, s3, x, y, z, A, B, F, a1, b1, b2, f1, q

MCOwner == s1 :> x @@ s2 :> y @@ s3 :> z
MCNextSession == [s \in Sessions |-> NONE]
MCGoals == x :> <<A, B, F>> @@ y :> <<B, A, B, F>> @@ z :> <<B, A, F>>
MCPrevious == [t \in Trainers |-> IF t = z THEN q ELSE NONE]
MCArrivals == {<<s1, s2, s3>>, <<s3, s2, s1>>}
MCPokeNests == <<A, B, F>>
MCNest == a1 :> A @@ b1 :> B @@ b2 :> B @@ f1 :> F
MCLevel == a1 :> 2 @@ b1 :> 2 @@ b2 :> 2 @@ f1 :> 1 @@ q :> 2
=============================================================================
