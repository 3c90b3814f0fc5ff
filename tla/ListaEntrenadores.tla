-------------------------- MODULE ListaEntrenadores --------------------------
(* The global list of trainers of a map (mapas/nivel-test.c). *)
EXTENDS Integers, SequencesExt

\* liberarEntrenador takes every trainer with the symbol of s off the list, but
\* the index moves on past the element that follows one that is removed.
Unlisted(list, owner, s) ==
  LET removed[i \in 0 .. Len(list)] ==
        /\ i > 0
        /\ owner[list[i]] = owner[s]
        /\ ~removed[i - 1]
      kept == {i \in DOMAIN list : ~removed[i]}
  IN [k \in 1 .. Cardinality(kept) |->
        list[CHOOSE i \in kept : Cardinality({j \in kept : j <= i}) = k]]
=============================================================================
