----------------------------- MODULE MCOsadaTable -----------------------------
(* Small file tables for TLC. *)
EXTENDS OsadaTable

CONSTANTS a, b, long

Volume(s, n, p) ==
  [state  |-> [e \in Entries |-> IF e < Len(s) THEN s[e + 1] ELSE "DELETED"],
   fname  |-> [e \in Entries |-> IF e < Len(n) THEN n[e + 1] ELSE a],
   parent |-> [e \in Entries |-> IF e < Len(p) THEN p[e + 1] ELSE ROOT]]

\* An empty volume, one with a directory, one with a file in a directory.
MCVolumes == {Volume(<<>>, <<>>, <<>>),
              Volume(<<"DIRECTORY", "REGULAR">>, <<a, b>>, <<ROOT, 0>>)}

Request(op, path) == [op |-> op, path |-> path, dest |-> <<>>]
Rename(path, dest) == [op |-> "rename", path |-> path, dest |-> dest]

MCRequests ==
  {Request(op, path) : op \in {"mkdir", "mknod", "readdir", "getattr", "write", "unlink", "rmdir"},
                       path \in {<<a>>, <<a, b>>}}
  \cup {Request("readdir", <<>>), Request("mkdir", <<long>>), Request("mknod", <<long>>)}
  \cup {Rename(<<a>>, <<b>>), Rename(<<a, b>>, <<b>>), Rename(<<a, b>>, <<a>>),
        Rename(<<a>>, <<long>>)}

\* Without directories: the requests that create none, on a volume without any.
MCFlatVolumes == {Volume(<<>>, <<>>, <<>>), Volume(<<"REGULAR">>, <<a>>, <<ROOT>>)}
MCFlatRequests ==
  {Request(op, <<n>>) : op \in {"mknod", "getattr", "write", "unlink", "rmdir"}, n \in {a, b}}
  \cup {Request("readdir", <<>>)}

\* Two files are created in two directories.
MCTwoDirs == {Volume(<<"DIRECTORY", "DIRECTORY">>, <<a, b>>, <<ROOT, ROOT>>)}
MCTwoFiles == {Request("mknod", <<a, b>>), Request("mknod", <<b, a>>)}
=============================================================================
