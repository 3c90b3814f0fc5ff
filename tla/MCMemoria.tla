------------------------------ MODULE MCMemoria ------------------------------
(* Two clients and a cache of two entries, for TLC.  The limits of 3 and 4  *)
(* entries limit nobody here: they come with the end of a process, after    *)
(* which a limit of 1 or 2 has little left to show.                         *)
EXTENDS Memoria

CONSTANTS c1, c2, p1, p2

MCMaxRequests == << [assign |-> 2, end |-> 0, access |-> 3],
                    [assign |-> 2, end |-> 0, access |-> 3],
                    [assign |-> 2, end |-> 1, access |-> 2],
                    [assign |-> 1, end |-> 1, access |-> 4] >>
MCSymmetry == Permutations(Clients) \cup Permutations(Pids)
=============================================================================
