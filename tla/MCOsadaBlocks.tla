---------------------------- MODULE MCOsadaBlocks ----------------------------
(* Small volumes for TLC. *)
EXTENDS OsadaBlocks, TLC

Symmetry == Permutations(Clients) \cup Permutations(Files)
==============================================================================
