------------------------------- MODULE MCCliente -------------------------------
(* Two mounted clients on a volume of a directory, a file, with data or without, and *)
(* a free entry, for TLC.                                                            *)
EXTENDS PokedexClient, TLC

CONSTANTS na, nb, nl

MCPaths == {<<na>>, <<nb>>, <<na, nb>>, <<nl>>}
Reg(n, p, s) == [state |-> "reg", name |-> n, parent |-> p, size |-> s]
Folder(n, p) == [state |-> "dir", name |-> n, parent |-> p, size |-> 0]
MCVolumes == {1 :> Folder(na, ROOT) @@ 2 :> Reg(nb, 1, n) @@ 3 :> Deleted : n \in {0, 2}}
MCSymmetry == Permutations(Clients)
==============================================================================
