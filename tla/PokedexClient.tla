----------------------------- MODULE PokedexClient -----------------------------
(***************************************************************************)
(* pokedex-client: a FUSE file system that turns each call of the kernel   *)
(* into one request to pokedex-server and waits for its answer on the only *)
(* socket it has.  It runs with -s, one callback at a time.                *)
(*                                                                         *)
(* A call of a program is looked up component by component (getattr), may  *)
(* be refused by the kernel for what was found, and then goes to the       *)
(* server; what another client does in between makes what was found old.   *)
(* The handlers of the server run here one at a time, each as one step, so *)
(* that what its answers mean to the client can be stated; how they        *)
(* interleave is the subject of OsadaTable and OsadaBlocks.  Where a       *)
(* handler works with what it never set, or leaves an entry locked for     *)
(* ever, the model stops ("wild", "stuck").                                *)
(***************************************************************************)
EXTENDS Integers, Sequences, FiniteSets, FiniteSetsExt, SequencesExt

CONSTANTS
  Clients,     \* mounted pokedex-clients
  Names,       \* names of files and directories
  Long,        \* those longer than OSADA_FILENAME_LENGTH
  Paths,       \* the paths of the programs: a name, or a directory and a name
  Volumes,     \* file tables to start from
  FileBlocks,  \* entries of the file table
  MaxFull,     \* files that may have data at once: the room of the volume
  MaxCalls,    \* bound on the calls of all programs
  NONE

Entries == 1 .. FileBlocks
ROOT    == 0
Sizes   == 0 .. 2
Deleted == [state |-> "deleted", name |-> NONE, parent |-> ROOT, size |-> 0]
Files   == {Deleted} \cup
           [state : {"reg", "dir"}, name : Names, parent : {ROOT} \cup Entries, size : Sizes]

ASSUME ClientAssumption ==
  /\ FileBlocks \in Nat \ {0} /\ MaxFull \in Nat /\ MaxCalls \in Nat
  /\ Long \subseteq Names
  /\ Paths \subseteq {p \in Seq(Names) : Len(p) \in {1, 2}}
  /\ Volumes \subseteq [Entries -> Files]
  /\ NONE \notin Names \cup Clients \cup {ROOT} \cup Entries

VARIABLES
  table,    \* the file table of the volume
  server,   \* "up", "down", or broken: "wild", "stuck"
  call,     \* what a program asked of each client, or NONE
  seen,     \* what the kernel has been told of the paths of the call
  opened,   \* pk_open has accepted the file
  doing,    \* the callback that waits for an answer, or NONE
  request,  \* its message, until the server takes it
  reply,    \* the fields on the socket that have not been read
  result,   \* what the last call returned
  calls     \* calls so far

volume == <<table, server>>
kernel == <<call, seen, opened>>
socket == <<doing, request, reply>>
vars   == <<volume, kernel, socket, result, calls>>

Plain     == {"mkdir", "readdir", "mknod", "unlink", "rmdir"}
Sized     == {"write", "read", "truncate"}
Callbacks == Plain \cup Sized \cup {"getattr", "open", "rename"}
NoPath    == <<>>
Calls ==
  [op : Plain, path : Paths, to : {NoPath}, size : {0}] \cup
  [op : {"write"}, path : Paths, to : {NoPath}, size : {1, 2}] \cup
  [op : {"read"}, path : Paths, to : {NoPath}, size : {0}] \cup
  [op : {"truncate"}, path : Paths, to : {NoPath}, size : {0, 2}] \cup
  {[op |-> "rename", path |-> p, to |-> t, size |-> 0] : p, t \in Paths}

\* "No callback waits" is none of the callbacks.
ASSUME NoneAssumption == NONE \notin Callbacks

Codes  == {"ENOENT", "ISREG", "ISDIR", "ENOTDIR", "ENOSPC", "EMPTYDIR", "NOTEMPTYDIR",
           "SEXE", "ENAMETOOLONG"}
Fields == Codes \cup {"size", "lastmod", "content"}
Kinds  == {"none", "empty", "data", "dir"}
Errors == {"ENOENT", "ENOTDIR", "ENOSPC", "EINVAL", "EEXIST", "EISDIR", "EIO"}

TypeOK ==
  /\ table \in [Entries -> Files]
  /\ server \in {"up", "down", "wild", "stuck"}
  /\ call \in [Clients -> Calls \cup {NONE}]
  /\ seen \in [Clients -> Seq(Kinds)]
  /\ opened \in [Clients -> BOOLEAN]
  /\ doing \in [Clients -> Callbacks \cup {NONE}]
  /\ request \in [Clients -> {NONE} \cup [op : Callbacks, path : Paths \cup {<<n>> : n \in Names}]]
  /\ reply \in [Clients -> Seq(Fields \cup Kinds)]
  /\ result \in [Clients -> Errors \cup {"ok", "nothing", NONE}]
  /\ calls \in 0 .. MaxCalls

Init ==
  /\ table \in Volumes
  /\ server = "up"
  /\ call = [c \in Clients |-> NONE]
  /\ seen = [c \in Clients |-> <<>>]
  /\ opened = [c \in Clients |-> FALSE]
  /\ doing = [c \in Clients |-> NONE]
  /\ request = [c \in Clients |-> NONE]
  /\ reply = [c \in Clients |-> <<>>]
  /\ result = [c \in Clients |-> NONE]
  /\ calls = 0

-----------------------------------------------------------------------------
(* The file table: search_node, search_dir *)

Named(tb, n, parent) == {i \in Entries : tb[i].state # "deleted" /\ tb[i].name = n /\ tb[i].parent = parent}
Node(tb, n, parent)  == IF Named(tb, n, parent) = {} THEN NONE ELSE Min(Named(tb, n, parent))

\* Only the first entry of the name counts.
Dir(tb, n, parent) ==
  LET i == Node(tb, n, parent) IN IF i # NONE /\ tb[i].state = "dir" THEN i ELSE NONE

Parent(tb, p) == IF Len(p) = 1 THEN ROOT ELSE Dir(tb, p[1], ROOT)
Name(p)       == Last(p)
NodeAt(tb, p) == IF Parent(tb, p) = NONE THEN NONE ELSE Node(tb, Name(p), Parent(tb, p))
DirAt(tb, p)  == IF Parent(tb, p) = NONE THEN NONE ELSE Dir(tb, Name(p), Parent(tb, p))

Free(tb) == {i \in Entries : tb[i].state = "deleted"}
Full(tb) == Free(tb) = {}
NoRoom(tb, i) == tb[i].size = 0 /\ Cardinality({j \in Entries : tb[j].size > 0}) >= MaxFull

Created(tb, p, state) ==
  [tb EXCEPT ![Min(Free(tb))] =
     [state |-> state, name |-> Name(p), parent |-> Parent(tb, p), size |-> 0]]

-----------------------------------------------------------------------------
(* The handlers: what each answers, does to the table, and leaves behind *)

Answer(fields, tb) == [fields |-> fields, table |-> tb, server |-> "up"]
Broken(how)        == [fields |-> <<>>, table |-> table, server |-> how]

MkdirAnywhere(p) ==   \* mutant of OsadaMkdir: the directory that is missing is not made
  IF Full(table) THEN Answer(<<"ISDIR">>, table) ELSE Answer(<<"ISDIR">>, Created(table, p, "dir"))

\* A missing directory is made on the way, and its lock, never taken, is given
\* back; the lock of a directory that exists is kept.  A full table is told to
\* the client as success.
OsadaMkdir(p) ==
  IF Parent(table, p) = NONE THEN Broken("wild")
  ELSE IF DirAt(table, p) # NONE THEN Broken("stuck")
  ELSE IF Name(p) \in Long THEN Answer(<<"ENAMETOOLONG">>, table)
  ELSE Answer(<<"ISDIR">>, IF Full(table) THEN table ELSE Created(table, p, "dir"))

OsadaReaddir(p) ==
  LET d == DirAt(table, p) IN
  IF d = NONE THEN Answer(<<"ENOTDIR">>, table)
  ELSE IF \E i \in Entries : table[i].state # "deleted" /\ table[i].parent = d
  THEN Answer(<<"NOTEMPTYDIR", "size", "content">>, table)
  ELSE Answer(<<"EMPTYDIR">>, table)

Kind(i) ==
  IF i = NONE THEN "none"
  ELSE IF table[i].state = "dir" THEN "dir"
  ELSE IF table[i].size = 0 THEN "empty" ELSE "data"

OsadaGetattr(p) ==
  LET k == Kind(NodeAt(table, p)) IN
  IF k = "none" THEN Answer(<<"ENOENT">>, table)
  ELSE Answer(<<IF k = "dir" THEN "ISDIR" ELSE "ISREG", k, "lastmod">>, table)

MknodAsMkdir(p) ==   \* mutant of OsadaMknod: a full table is told as in mkdir
  IF Parent(table, p) = NONE THEN Answer(<<"ENOTDIR">>, table)
  ELSE IF DirAt(table, p) # NONE THEN Broken("stuck")
  ELSE IF Name(p) \in Long THEN Answer(<<"ENAMETOOLONG">>, table)
  ELSE Answer(<<"ISREG">>, IF Full(table) THEN table ELSE Created(table, p, "reg"))

\* A file of that name is not looked for, only a directory.
OsadaMknod(p) ==
  IF Parent(table, p) = NONE THEN Answer(<<"ENOTDIR">>, table)
  ELSE IF DirAt(table, p) # NONE THEN Broken("stuck")
  ELSE IF Name(p) \in Long THEN Answer(<<"ENAMETOOLONG">>, table)
  ELSE IF Full(table) THEN Answer(<<"ENOSPC">>, table)
  ELSE Answer(<<"ISREG">>, Created(table, p, "reg"))

\* write, truncate and unlink use file_pos, which a path of directories leaves unset.
OnFile(p, then) ==
  LET i == NodeAt(table, p) IN
  IF DirAt(table, p) # NONE THEN Broken("wild")
  ELSE IF i = NONE THEN Answer(<<"ENOENT">>, table)
  ELSE then

OsadaWrite(p, n) ==
  LET i == NodeAt(table, p) IN
  OnFile(p, IF n > 0 /\ NoRoom(table, i) THEN Answer(<<"ENOSPC">>, table)
            ELSE Answer(<<"SEXE">>, [table EXCEPT ![i].size = Max({@, n})]))

OsadaTruncate(p, n) ==
  LET i == NodeAt(table, p) IN
  OnFile(p, IF n > 0 /\ NoRoom(table, i) THEN Answer(<<"ENOSPC">>, table)
            ELSE Answer(<<"SEXE">>, [table EXCEPT ![i].size = n]))

OsadaUnlink(p) ==
  OnFile(p, Answer(<<"SEXE">>, [table EXCEPT ![NodeAt(table, p)] = Deleted]))

\* The test of the offset leaves the last byte of a file out when it is asked
\* for alone, and lets a file without bytes pass.
OsadaRead(p) ==
  LET i == NodeAt(table, p) IN
  IF i = NONE THEN Answer(<<"ENOENT">>, table)
  ELSE IF table[i].size = 0 THEN Broken("wild")
  ELSE IF table[i].size = 1 THEN Answer(<<"SEXE", "empty">>, table)
  ELSE Answer(<<"SEXE", "data", "content">>, table)

\* Whether the directory is empty is not looked at.
OsadaRmdir(p) ==
  LET d == DirAt(table, p) IN
  IF d = NONE THEN Answer(<<"ENOTDIR">>, table)
  ELSE Answer(<<"SEXE">>, [table EXCEPT ![d] = Deleted])

RenameOver(p, t) ==   \* mutant of OsadaRename: to is not searched for
  LET i == NodeAt(table, p) IN
  IF i = NONE THEN Answer(<<"ENOENT">>, table)
  ELSE IF Parent(table, t) = NONE \/ DirAt(table, t) # NONE THEN Broken("stuck")
  ELSE Answer(<<"SEXE">>, [table EXCEPT ![i].name = Name(t), ![i].parent = Parent(table, t)])

\* Onto a directory there is no answer; to a directory that is not there, from
\* stays locked.
OsadaRename(p, t) ==
  LET i == NodeAt(table, p)
      j == NodeAt(table, t)
  IN
  IF i = NONE THEN Answer(<<"ENOENT">>, table)
  ELSE IF Parent(table, t) = NONE \/ DirAt(table, t) # NONE THEN Broken("stuck")
  ELSE IF j # NONE THEN Answer(<<"ISREG">>, table)
  ELSE IF Name(t) \in Long THEN Answer(<<"ENAMETOOLONG">>, table)
  ELSE Answer(<<"SEXE">>, [table EXCEPT ![i].name = Name(t), ![i].parent = Parent(table, t)])

Handle(c) ==
  LET m == request[c] IN
  CASE m.op = "mkdir"    -> OsadaMkdir(m.path)
    [] m.op = "readdir"  -> OsadaReaddir(m.path)
    [] m.op \in {"getattr", "open"} -> OsadaGetattr(m.path)
    [] m.op = "mknod"    -> OsadaMknod(m.path)
    [] m.op = "write"    -> OsadaWrite(m.path, call[c].size)
    [] m.op = "read"     -> OsadaRead(m.path)
    [] m.op = "truncate" -> OsadaTruncate(m.path, call[c].size)
    [] m.op = "unlink"   -> OsadaUnlink(m.path)
    [] m.op = "rmdir"    -> OsadaRmdir(m.path)
    [] m.op = "rename"   -> OsadaRename(m.path, call[c].to)

Serve(c) ==
  LET a == Handle(c) IN
  /\ server = "up" /\ request[c] # NONE
  /\ table' = a.table /\ server' = a.server
  /\ reply' = [reply EXCEPT ![c] = @ \o a.fields]
  /\ request' = [request EXCEPT ![c] = NONE]
  /\ UNCHANGED <<kernel, doing, result, calls>>

\* The server ends: every connection with it, and what was not answered.
Crash ==
  /\ server = "up"
  /\ server' = "down"
  /\ UNCHANGED <<table, kernel, socket, result, calls>>

-----------------------------------------------------------------------------
(* The kernel *)

\* The paths to look up before the call, in order.
Lookups(k) ==
  LET of(p) == IF Len(p) = 2 THEN <<<<p[1]>>, p>> ELSE <<p>>
  IN IF k.to = NoPath THEN of(k.path) ELSE of(k.path) \o of(k.to)

Seen(k, told, p) == told[CHOOSE i \in DOMAIN told : Lookups(k)[i] = p]

\* The error of a call the kernel refuses for what it has been told, or "go".
Refusal(k, told) ==
  LET from == Seen(k, told, k.path)
      to == Seen(k, told, k.to)
  IN
  IF k.op \in {"mkdir", "mknod"} THEN IF from = "none" THEN "go" ELSE "EEXIST"
  ELSE IF from = "none" THEN "ENOENT"
  ELSE CASE k.op \in {"unlink", "write", "read", "truncate"} -> IF from = "dir" THEN "EISDIR" ELSE "go"
    [] k.op \in {"rmdir", "readdir"} -> IF from = "dir" THEN "go" ELSE "ENOTDIR"
    [] k.op = "rename" ->
         IF to = "dir" /\ from # "dir" THEN "EISDIR"
         ELSE IF to \in {"empty", "data"} /\ from = "dir" THEN "ENOTDIR" ELSE "go"

\* The n-th lookup is that of the directory the next one looks into.
Inside(k, n) ==
  /\ n < Len(Lookups(k))
  /\ Len(Lookups(k)[n]) = 1 /\ Len(Lookups(k)[n + 1]) = 2
  /\ Lookups(k)[n][1] = Lookups(k)[n + 1][1]

\* A path is looked up only in a directory.
Midway(k, told) ==
  IF ~Inside(k, Len(told)) \/ Last(told) = "dir" THEN "go"
  ELSE IF Last(told) = "none" THEN "ENOENT" ELSE "ENOTDIR"

Return(c, r) ==
  /\ call' = [call EXCEPT ![c] = NONE]
  /\ seen' = [seen EXCEPT ![c] = <<>>]
  /\ opened' = [opened EXCEPT ![c] = FALSE]
  /\ result' = [result EXCEPT ![c] = r]

\* A directory is not moved into itself, and a name not onto itself.
Begin(c) ==
  /\ call[c] = NONE /\ calls < MaxCalls
  /\ \E k \in Calls :
       /\ k.op = "rename" => ~IsPrefix(k.path, k.to)
       /\ call' = [call EXCEPT ![c] = k]
  /\ calls' = calls + 1
  /\ UNCHANGED <<volume, seen, opened, socket, result>>

Looking(c) == Len(seen[c]) < Len(Lookups(call[c]))

\* The callback that comes next: a file is opened before its bytes are moved,
\* and its bytes are asked for only if the kernel knows of some.
Callback(c) ==
  IF Looking(c) THEN "getattr"
  ELSE IF call[c].op \in {"write", "read"} /\ ~opened[c] THEN "open"
  ELSE call[c].op

-----------------------------------------------------------------------------
(* The callbacks: send, then read the answer *)

Send(c) ==
  /\ call[c] # NONE /\ doing[c] = NONE
  /\ doing' = [doing EXCEPT ![c] = Callback(c)]
  /\ request' = [request EXCEPT ![c] =
       [op |-> Callback(c),
        path |-> IF Looking(c) THEN Lookups(call[c])[Len(seen[c]) + 1] ELSE call[c].path]]
  /\ UNCHANGED <<volume, kernel, reply, result, calls>>

\* What a callback does with an answer: how many fields it reads, once it knows
\* the first ones, and what it returns.  A code it does not look for is success.
Pk(reads, returns) == [reads |-> reads, returns |-> returns]

PkMkdir(f) == Pk(1, CASE f[1] = "ENOSPC" -> "ENOSPC"
                      [] f[1] = "ENAMETOOLONG" -> "EINVAL"
                      [] OTHER -> "ok")

PkGetattr(f) == IF f[1] = "ENOENT" THEN Pk(1, "ENOENT") ELSE Pk(3, "ok")

PkReaddir(f) == CASE f[1] = "ENOTDIR" -> Pk(1, "ENOTDIR")
                  [] f[1] = "NOTEMPTYDIR" -> Pk(3, "ok")
                  [] OTHER -> Pk(1, "ok")

PkMknod(f) == Pk(1, CASE f[1] \in {"ENOSPC", "ENOTDIR"} -> f[1]
                      [] f[1] = "ENAMETOOLONG" -> "EINVAL"
                      [] OTHER -> "ok")

PkTruncate(f) == Pk(1, IF f[1] \in {"ENOENT", "ENOSPC"} THEN f[1] ELSE "ok")

\* Of a file without bytes, or of its last byte alone, nothing is read.
PkRead(f) == IF f[1] = "ENOENT" THEN Pk(1, "ENOENT")
             ELSE IF Len(f) = 1 THEN Pk(2, "nothing")
             ELSE IF f[2] = "empty" THEN Pk(2, "nothing")
             ELSE Pk(3, "ok")

\* Every refusal is a write of no bytes.
PkWrite(f) == Pk(1, IF f[1] = "SEXE" THEN "ok" ELSE "nothing")

PkOpenUnreleased(f) ==   \* mutant of PkOpen: size and date are left on the socket
  Pk(1, IF f[1] = "ISREG" THEN "ok" ELSE "ENOENT")

\* It asks for the attributes, and reads them only to release the socket.
PkOpen(f) == IF f[1] = "ENOENT" THEN Pk(1, "ENOENT")
             ELSE Pk(3, IF f[1] = "ISREG" THEN "ok" ELSE "ENOENT")

PkUnlink(f) == Pk(1, IF f[1] = "ENOENT" THEN "ENOENT" ELSE "ok")

PkRmdir(f) == Pk(1, IF f[1] = "ENOTDIR" THEN "ENOTDIR" ELSE "ok")

PkRename(f) == Pk(1, CASE f[1] \in {"ENOENT", "ENOSPC"} -> f[1]
                       [] f[1] = "ENAMETOOLONG" -> "EINVAL"
                       [] OTHER -> "ok")

PkOper(op, f) ==
  CASE op = "mkdir"    -> PkMkdir(f)
    [] op = "getattr"  -> PkGetattr(f)
    [] op = "readdir"  -> PkReaddir(f)
    [] op = "mknod"    -> PkMknod(f)
    [] op = "truncate" -> PkTruncate(f)
    [] op = "read"     -> PkRead(f)
    [] op = "write"    -> PkWrite(f)
    [] op = "open"     -> PkOpen(f)
    [] op = "unlink"   -> PkUnlink(f)
    [] op = "rmdir"    -> PkRmdir(f)
    [] op = "rename"   -> PkRename(f)

Wanted(op, f)  == PkOper(op, f).reads
Outcome(op, f) == PkOper(op, f).returns

Complete(c) == reply[c] # <<>> /\ Len(reply[c]) >= Wanted(doing[c], reply[c])

Told(fields) == IF fields[1] = "ENOENT" THEN "none" ELSE fields[2]

Recv(c) ==
  LET fields == reply[c]
      op == doing[c]
      told == Append(seen[c], Told(fields))
  IN
  /\ op # NONE /\ Complete(c)
  /\ doing' = [doing EXCEPT ![c] = NONE]
  /\ reply' = [reply EXCEPT ![c] = SubSeq(@, Wanted(op, fields) + 1, Len(@))]
  /\ \/ /\ op = "getattr"
        /\ LET r == IF Midway(call[c], told) # "go" THEN Midway(call[c], told)
                    ELSE IF Len(told) = Len(Lookups(call[c])) THEN Refusal(call[c], told) ELSE "go"
           IN IF r # "go" THEN Return(c, r)
              ELSE seen' = [seen EXCEPT ![c] = told] /\ UNCHANGED <<call, opened, result>>
     \/ /\ op = "open"
        /\ IF Outcome(op, fields) # "ok" THEN Return(c, Outcome(op, fields))
           ELSE IF call[c].op = "read" /\ fields[2] = "empty" THEN Return(c, "nothing")
           ELSE opened' = [opened EXCEPT ![c] = TRUE] /\ UNCHANGED <<call, seen, result>>
     \/ /\ op \notin {"getattr", "open"}
        /\ Return(c, Outcome(op, fields))
  /\ UNCHANGED <<volume, request, calls>>

\* recv returns nothing when the server is gone; the client never connects again.
RecvEnd(c) ==
  /\ server = "down" /\ doing[c] # NONE
  /\ ~Complete(c)
  /\ doing' = [doing EXCEPT ![c] = NONE]
  /\ request' = [request EXCEPT ![c] = NONE]
  /\ reply' = [reply EXCEPT ![c] = <<>>]
  /\ Return(c, "EIO")
  /\ UNCHANGED <<volume, calls>>

Next ==
  /\ server \in {"up", "down"}
  /\ \/ Crash
     \/ \E c \in Clients : Begin(c) \/ Send(c) \/ Serve(c) \/ Recv(c) \/ RecvEnd(c)

Spec == Init /\ [][Next]_vars

-----------------------------------------------------------------------------
(* Properties *)

Request(op) == CASE op \in {"getattr", "open"} -> {"ISREG", "ISDIR", "ENOENT"}
                 [] op = "readdir" -> {"ENOTDIR", "NOTEMPTYDIR", "EMPTYDIR"}
                 [] OTHER -> Codes

\* Client and server stay in step on the socket: when no callback waits nothing
\* is left unread, and what a callback reads is the whole answer to its own
\* request, whatever the kind of answer (every callback against every handler).
InStep ==
  \A c \in Clients :
    /\ doing[c] = NONE => reply[c] = <<>> /\ request[c] = NONE
    /\ doing[c] # NONE /\ reply[c] # <<>> =>
         /\ request[c] = NONE
         /\ reply[c][1] \in Request(doing[c])
         /\ Len(reply[c]) = Wanted(doing[c], reply[c])

\* The inductive invariant behind it: a callback belongs to a call, its message
\* is of its own kind, and of the attributes the second field is the kind.
InOrder(c) ==
  /\ doing[c] # NONE =>
       call[c] # NONE /\ (doing[c] \in {"getattr", "open"} \/ doing[c] = call[c].op)
  /\ request[c] # NONE => request[c].op = doing[c]
  /\ doing[c] \in {"getattr", "open"} /\ reply[c] # <<>> =>
       reply[c][1] = "ENOENT" \/ reply[c][2] \in Kinds

\* What a call has been told so far lets it be where it is, and its callback is
\* asked about its own path.
Cleared(c) ==
  /\ call[c] = NONE => seen[c] = <<>> /\ ~opened[c]
  /\ call[c] # NONE =>
       /\ call[c].op = "rename" => ~IsPrefix(call[c].path, call[c].to)
       /\ Len(seen[c]) <= Len(Lookups(call[c]))
       /\ \A i \in DOMAIN seen[c] : Inside(call[c], i) => seen[c][i] = "dir"
       /\ ~Looking(c) => Refusal(call[c], seen[c]) = "go"
  /\ doing[c] # NONE => (Looking(c) <=> doing[c] = "getattr")
  /\ doing[c] = "read" => opened[c]
  /\ request[c] # NONE /\ doing[c] # "getattr" => request[c].path = call[c].path

IInv == TypeOK /\ InStep /\ \A c \in Clients : InOrder(c) /\ Cleared(c)

Copies(tb, p) == IF Parent(tb, p) = NONE THEN 0 ELSE Cardinality(Named(tb, Name(p), Parent(tb, p)))

\* What a call that succeeded has done to the path it was given, from one file
\* table to the next.
Done(k, before, after) ==
  LET p == k.path IN
  CASE k.op \in {"mkdir", "mknod"} -> Copies(after, p) = Copies(before, p) + 1
    [] k.op \in {"unlink", "rmdir"} -> Copies(after, p) = Copies(before, p) - 1
    [] k.op = "rename" -> /\ Copies(after, k.to) = Copies(before, k.to) + 1
                          /\ Copies(after, p) = Copies(before, p) - 1
    [] k.op \in {"write", "truncate"} -> after[NodeAt(after, p)].size >= k.size
    [] OTHER -> after = before

\* Two calls that only pretend: mkdir in a full table, whose refusal tests the
\* wrong variable (pokedex-server.c:475), and rename onto a file, whose ISREG
\* pk_rename does not know (pokedex-client.c:576-581).
Pretends(k) ==
  \/ k.op = "mkdir" /\ Full(table)
  \/ k.op = "rename" /\ NodeAt(table, k.to) # NONE

\* What a program is told is what happened, but for the calls that pretend: after
\* an error, or nothing written, the volume is as it was, and a success has been
\* made.  (A last byte on its own is not read: that is "nothing" and no error.)
ResultIsTrue ==
  [][\A c \in Clients :
       Serve(c) /\ server' = "up" /\ doing[c] = call[c].op =>
         LET r == Outcome(doing[c], reply'[c]) IN
         /\ r # "ok" => table' = table
         /\ r = "ok" /\ ~Pretends(call[c]) => Done(call[c], table, table')]_vars

\* What the kernel, or pk_open, was told of a call's paths is not so any more.  A
\* file that was empty, had data when it was opened and is empty again is as the
\* kernel knows it, and is read all the same.
Stale(c) ==
  \/ \E i \in DOMAIN seen[c] : Kind(NodeAt(table, Lookups(call[c])[i])) # seen[c][i]
  \/ call[c].op = "read" /\ opened[c] /\ Kind(NodeAt(table, call[c].path)) # "data"

Doubled(tb) == \E i, j \in Entries : i # j /\ {i, j} \subseteq Named(tb, tb[i].name, tb[i].parent)

\* One client alone neither breaks the server nor makes two entries of one name:
\* both take a client whose lookups another has made old, since the server itself
\* does not look whether a file exists (mknod 784-835), or a path is one of
\* directories (984, 1394, 1599).  The exception is a directory renamed onto
\* another (1959).
OnlyRacesDoHarm ==
  [][\A c \in Clients :
       Serve(c) /\ (server' # "up" \/ (Doubled(table') /\ ~Doubled(table))) =>
         Stale(c) \/ (call[c].op = "rename" /\ Last(seen[c]) = "dir")]_vars
=============================================================================
