---------------------------- MODULE MCEntrenador ----------------------------
(* A travel sheet of two maps, two lives, for TLC. *)
EXTENDS Entrenador
=============================================================================
