-------------------------- MODULE PokedexClientProofs --------------------------
(***************************************************************************)
(* Proofs about PokedexClient, for any number of clients, entries, names   *)
(* and paths, and any volume to start from: what an answer of the server   *)
(* is, handler by handler, and that client and server stay in step.        *)
(***************************************************************************)
EXTENDS PokedexClient, ListFacts

-----------------------------------------------------------------------------
(* Paths and calls *)

\* The paths of a call, and those of its lookups.
Looked == Paths \cup {<<n>> : n \in Names}

LEMMA PathFacts ==
  ASSUME NEW p \in Looked
  PROVE  /\ p \in Seq(Names) /\ Len(p) \in {1, 2}
         /\ Name(p) \in Names /\ p[1] \in Names
<1>1. p \in Seq(Names) /\ Len(p) \in {1, 2}
  <2>1. CASE p \in Paths
    BY <2>1, ClientAssumption
  <2>2. ASSUME NEW n \in Names, p = <<n>> PROVE p \in Seq(Names) /\ Len(p) \in {1, 2}
    BY <2>2
  <2> QED BY <2>1, <2>2 DEF Looked
<1>2. \A i \in 1 .. Len(p) : p[i] \in Names
  BY <1>1
<1> QED BY <1>1, <1>2 DEF Name, Last

LEMMA CallFacts ==
  ASSUME NEW k \in Calls
  PROVE  /\ k.op \in Plain \cup Sized \cup {"rename"}
         /\ k.path \in Paths /\ k.to \in Paths \cup {NoPath}
         /\ k.op = "rename" => k.to \in Paths
         /\ k.op \in Sized => k.size \in Sizes
BY DEF Calls, Plain, Sized, Sizes

LEMMA LookupFacts ==
  ASSUME NEW k \in Calls
  PROVE  Lookups(k) \in Seq(Looked) /\ Len(Lookups(k)) > 0
<1> DEFINE of(p) == IF Len(p) = 2 THEN <<<<p[1]>>, p>> ELSE <<p>>
<1>1. ASSUME NEW p \in Paths PROVE of(p) \in Seq(Looked) /\ Len(of(p)) > 0
  <2>1. p \in Looked /\ <<p[1]>> \in Looked
    BY PathFacts DEF Looked
  <2>2. /\ <<p>> \in Seq(Looked) /\ Len(<<p>>) = 1
        /\ <<<<p[1]>>, p>> \in Seq(Looked) /\ Len(<<<<p[1]>>, p>>) = 2
    BY <2>1
  <2> QED BY <2>2
<1>2. k.path \in Paths /\ (k.to = NoPath \/ k.to \in Paths)
  BY CallFacts
<1>3. Lookups(k) = IF k.to = NoPath THEN of(k.path) ELSE of(k.path) \o of(k.to)
  BY DEF Lookups
<1> HIDE DEF of
<1>4. of(k.path) \in Seq(Looked) /\ Len(of(k.path)) > 0
  BY <1>1, <1>2
<1>5. CASE k.to = NoPath
  BY <1>3, <1>4, <1>5
<1>6. CASE k.to # NoPath
  <2>1. of(k.to) \in Seq(Looked) /\ Len(of(k.to)) > 0
    BY <1>1, <1>2, <1>6
  <2>2. /\ of(k.path) \o of(k.to) \in Seq(Looked)
        /\ Len(of(k.path) \o of(k.to)) = Len(of(k.path)) + Len(of(k.to))
    BY <1>4, <2>1, ConcatProperties
  <2> QED BY <1>3, <1>4, <1>6, <2>1, <2>2
<1> QED BY <1>5, <1>6

-----------------------------------------------------------------------------
(* The file table *)

LEMMA EntryFacts == Entries \in SUBSET Nat /\ FileBlocks \in Nat \ {0}
BY ClientAssumption DEF Entries

LEMMA NodeFacts ==
  ASSUME NEW tb \in [Entries -> Files], NEW n, NEW parent, Node(tb, n, parent) # NONE
  PROVE  /\ Node(tb, n, parent) \in Entries
         /\ tb[Node(tb, n, parent)].state # "deleted"
<1>1. Named(tb, n, parent) \in SUBSET Nat
  BY EntryFacts DEF Named
<1>2. Named(tb, n, parent) # {}
  BY DEF Node
<1>3. Node(tb, n, parent) \in Named(tb, n, parent)
  BY <1>1, <1>2, MinIsOne DEF Node
<1> QED BY <1>3 DEF Named

LEMMA DirFacts ==
  ASSUME NEW tb \in [Entries -> Files], NEW n, NEW parent, Dir(tb, n, parent) # NONE
  PROVE  Dir(tb, n, parent) \in Entries
BY NodeFacts DEF Dir

LEMMA AtFacts ==
  ASSUME NEW tb \in [Entries -> Files], NEW p
  PROVE  /\ Parent(tb, p) # NONE => Parent(tb, p) \in {ROOT} \cup Entries
         /\ NodeAt(tb, p) # NONE => /\ NodeAt(tb, p) \in Entries
                                    /\ tb[NodeAt(tb, p)].state # "deleted"
         /\ DirAt(tb, p) # NONE => DirAt(tb, p) \in Entries
BY NodeFacts, DirFacts DEF Parent, NodeAt, DirAt

\* Every other entry of a table is what the two states of a file are.
LEMMA UsedFile ==
  ASSUME NEW f \in Files, f.state # "deleted"
  PROVE  f \in [state : {"reg", "dir"}, name : Names, parent : {ROOT} \cup Entries, size : Sizes]
BY DEF Files, Deleted

LEMMA CreatedFacts ==
  ASSUME NEW tb \in [Entries -> Files], ~Full(tb), NEW p \in Looked,
         Parent(tb, p) # NONE, NEW state \in {"reg", "dir"}
  PROVE  Created(tb, p, state) \in [Entries -> Files]
<1>1. Parent(tb, p) \in {ROOT} \cup Entries /\ Name(p) \in Names
  BY AtFacts, PathFacts
<1>2. [state |-> state, name |-> Name(p), parent |-> Parent(tb, p), size |-> 0] \in Files
  BY <1>1 DEF Files, Sizes
<1> QED BY <1>2 DEF Created

LEMMA SizedFacts ==
  ASSUME NEW tb \in [Entries -> Files], NEW p, NodeAt(tb, p) # NONE, NEW n \in Sizes
  PROVE  /\ [tb EXCEPT ![NodeAt(tb, p)].size = n] \in [Entries -> Files]
         /\ [tb EXCEPT ![NodeAt(tb, p)].size = Max({@, n})] \in [Entries -> Files]
<1> DEFINE i == NodeAt(tb, p)
<1>1. i \in Entries /\ tb[i].state # "deleted"
  BY AtFacts
<1> HIDE DEF i
<1>2. tb[i] \in [state : {"reg", "dir"}, name : Names, parent : {ROOT} \cup Entries, size : Sizes]
  BY <1>1, UsedFile
<1>3. ASSUME NEW m \in Sizes PROVE [tb EXCEPT ![i].size = m] \in [Entries -> Files]
  <2>1. [tb[i] EXCEPT !.size = m] \in Files
    BY <1>2 DEF Files
  <2> QED BY <1>1, <2>1
<1>4. Max({tb[i].size, n}) \in Sizes
  <2>1. tb[i].size \in Sizes
    BY <1>2
  <2>2. \E x \in {tb[i].size, n} : \A y \in {tb[i].size, n} : x >= y
    BY <2>1 DEF Sizes
  <2> QED BY <2>1, <2>2 DEF Max
<1>5. [tb EXCEPT ![i].size = Max({@, n})] = [tb EXCEPT ![i].size = Max({tb[i].size, n})]
  BY <1>1
<1> QED BY <1>3, <1>4, <1>5 DEF i

LEMMA RenamedFacts ==
  ASSUME NEW tb \in [Entries -> Files], NEW p, NodeAt(tb, p) # NONE,
         NEW t \in Looked, Parent(tb, t) # NONE
  PROVE  [tb EXCEPT ![NodeAt(tb, p)].name = Name(t), ![NodeAt(tb, p)].parent = Parent(tb, t)]
           \in [Entries -> Files]
<1> DEFINE i == NodeAt(tb, p)
           from == Parent(tb, t)
<1>1. i \in Entries /\ tb[i].state # "deleted"
  BY AtFacts
<1>2. from \in {ROOT} \cup Entries /\ Name(t) \in Names
  BY AtFacts, PathFacts
<1> HIDE DEF i, from
<1>3. tb[i] \in [state : {"reg", "dir"}, name : Names, parent : {ROOT} \cup Entries, size : Sizes]
  BY <1>1, UsedFile
<1>4. [tb[i] EXCEPT !.name = Name(t), !.parent = from] \in Files
  BY <1>2, <1>3 DEF Files
<1>5. [tb EXCEPT ![i].name = Name(t), ![i].parent = from]
        = [tb EXCEPT ![i] = [tb[i] EXCEPT !.name = Name(t), !.parent = from]]
  BY <1>1, <1>3
<1>6. [tb EXCEPT ![i].name = Name(t), ![i].parent = from] \in [Entries -> Files]
  BY <1>1, <1>4, <1>5
<1> QED BY <1>6 DEF i, from

-----------------------------------------------------------------------------
(* The handlers *)

\* What a handler may answer to op, and leave behind: all of the answer is what
\* the callback reads, and with attributes goes the kind.
Fits(op, a) ==
  /\ a.server \in {"up", "wild", "stuck"}
  /\ a.table \in [Entries -> Files]
  /\ a.fields \in Seq(Fields \cup Kinds)
  /\ a.fields # <<>> =>
       /\ a.fields[1] \in Request(op)
       /\ Len(a.fields) = Wanted(op, a.fields)
       /\ op \in {"getattr", "open"} => a.fields[1] = "ENOENT" \/ a.fields[2] \in Kinds

LEMMA BrokenFits ==
  ASSUME table \in [Entries -> Files], NEW op, NEW how \in {"wild", "stuck"}
  PROVE  Fits(op, Broken(how))
BY DEF Fits, Broken

Coded == {"mkdir", "mknod", "write", "truncate", "unlink", "rmdir", "rename"}

\* Of most requests the answer is one code.
LEMMA CodeFits ==
  ASSUME NEW op \in Coded, NEW code \in Codes, NEW tb \in [Entries -> Files]
  PROVE  Fits(op, Answer(<<code>>, tb))
<1>1. <<code>> \in Seq(Fields \cup Kinds) /\ <<code>>[1] = code /\ Len(<<code>>) = 1
  BY DEF Fields
<1>2. Request(op) = Codes /\ op \notin {"getattr", "open"}
  BY DEF Request, Coded
<1>3. Wanted(op, <<code>>) = 1
  BY DEF Coded, Wanted, PkOper, Pk, PkMkdir, PkMknod, PkWrite, PkTruncate, PkUnlink, PkRmdir, PkRename
<1> QED BY <1>1, <1>2, <1>3 DEF Fits, Answer

LEMMA MkdirFits ==
  ASSUME table \in [Entries -> Files], NEW p \in Looked
  PROVE  Fits("mkdir", OsadaMkdir(p))
<1>1. {"ENAMETOOLONG", "ISDIR"} \subseteq Codes /\ "mkdir" \in Coded
  BY DEF Codes, Coded
<1> QED BY <1>1, BrokenFits, CodeFits, CreatedFacts DEF OsadaMkdir

LEMMA MknodFits ==
  ASSUME table \in [Entries -> Files], NEW p \in Looked
  PROVE  Fits("mknod", OsadaMknod(p))
<1>1. {"ENOTDIR", "ENAMETOOLONG", "ENOSPC", "ISREG"} \subseteq Codes /\ "mknod" \in Coded
  BY DEF Codes, Coded
<1> QED BY <1>1, BrokenFits, CodeFits, CreatedFacts DEF OsadaMknod

LEMMA WriteFits ==
  ASSUME table \in [Entries -> Files], NEW p \in Looked, NEW n \in Sizes
  PROVE  Fits("write", OsadaWrite(p, n))
<1>1. {"ENOENT", "ENOSPC", "SEXE"} \subseteq Codes /\ "write" \in Coded
  BY DEF Codes, Coded
<1> QED BY <1>1, BrokenFits, CodeFits, SizedFacts DEF OsadaWrite, OnFile

LEMMA TruncateFits ==
  ASSUME table \in [Entries -> Files], NEW p \in Looked, NEW n \in Sizes
  PROVE  Fits("truncate", OsadaTruncate(p, n))
<1>1. {"ENOENT", "ENOSPC", "SEXE"} \subseteq Codes /\ "truncate" \in Coded
  BY DEF Codes, Coded
<1> QED BY <1>1, BrokenFits, CodeFits, SizedFacts DEF OsadaTruncate, OnFile

LEMMA UnlinkFits ==
  ASSUME table \in [Entries -> Files], NEW p \in Looked
  PROVE  Fits("unlink", OsadaUnlink(p))
<1>1. {"ENOENT", "SEXE"} \subseteq Codes /\ "unlink" \in Coded
  BY DEF Codes, Coded
<1>2. [table EXCEPT ![NodeAt(table, p)] = Deleted] \in [Entries -> Files]
  BY DEF Files
<1> QED BY <1>1, <1>2, BrokenFits, CodeFits DEF OsadaUnlink, OnFile

LEMMA RmdirFits ==
  ASSUME table \in [Entries -> Files], NEW p \in Looked
  PROVE  Fits("rmdir", OsadaRmdir(p))
<1>1. {"ENOTDIR", "SEXE"} \subseteq Codes /\ "rmdir" \in Coded
  BY DEF Codes, Coded
<1>2. [table EXCEPT ![DirAt(table, p)] = Deleted] \in [Entries -> Files]
  BY DEF Files
<1> QED BY <1>1, <1>2, BrokenFits, CodeFits DEF OsadaRmdir

LEMMA RenameFits ==
  ASSUME table \in [Entries -> Files], NEW p \in Looked, NEW t \in Looked
  PROVE  Fits("rename", OsadaRename(p, t))
<1>1. {"ENOENT", "ISREG", "ENAMETOOLONG", "SEXE"} \subseteq Codes /\ "rename" \in Coded
  BY DEF Codes, Coded
<1> QED BY <1>1, BrokenFits, CodeFits, RenamedFacts DEF OsadaRename

LEMMA GetattrFits ==
  ASSUME table \in [Entries -> Files], NEW p \in Looked, NEW op \in {"getattr", "open"}
  PROVE  Fits(op, OsadaGetattr(p))
<1> DEFINE k == Kind(NodeAt(table, p))
<1>1. k \in {"none", "empty", "data", "dir"}
  BY DEF Kind
<1>2. Request(op) = {"ISREG", "ISDIR", "ENOENT"}
  BY DEF Request
<1>3. CASE k = "none"
  <2>1. <<"ENOENT">> \in Seq(Fields \cup Kinds) /\ Wanted(op, <<"ENOENT">>) = 1
    BY DEF Fields, Codes, Wanted, PkOper, PkGetattr, PkOpen, Pk
  <2>2. OsadaGetattr(p) = Answer(<<"ENOENT">>, table)
    BY <1>3 DEF OsadaGetattr
  <2> QED BY <1>2, <2>1, <2>2 DEF Fits, Answer
<1>4. CASE k # "none"
  <2> DEFINE code == IF k = "dir" THEN "ISDIR" ELSE "ISREG"
             fields == <<code, k, "lastmod">>
  <2>1. OsadaGetattr(p) = Answer(fields, table)
    BY <1>4 DEF OsadaGetattr
  <2>2. code \in {"ISDIR", "ISREG"}
    OBVIOUS
  <2> HIDE DEF k, code
  <2>3. fields \in Seq(Fields \cup Kinds) /\ Len(fields) = 3
    BY <1>1, <2>2 DEF Fields, Codes, Kinds
  <2>4. fields[1] = code /\ fields[2] = k
    OBVIOUS
  <2> HIDE DEF fields
  <2>5. Wanted(op, fields) = 3
    BY <2>2, <2>4 DEF Wanted, PkOper, PkGetattr, PkOpen, Pk
  <2> QED BY <1>1, <1>2, <2>1, <2>2, <2>3, <2>4, <2>5 DEF Fits, Answer, Kinds
<1> QED BY <1>3, <1>4

LEMMA ReaddirFits ==
  ASSUME table \in [Entries -> Files], NEW p \in Looked
  PROVE  Fits("readdir", OsadaReaddir(p))
<1>1. Request("readdir") = {"ENOTDIR", "NOTEMPTYDIR", "EMPTYDIR"}
  BY DEF Request
<1>2. /\ <<"ENOTDIR">> \in Seq(Fields \cup Kinds)
      /\ <<"EMPTYDIR">> \in Seq(Fields \cup Kinds)
      /\ <<"NOTEMPTYDIR", "size", "content">> \in Seq(Fields \cup Kinds)
  BY DEF Fields, Codes
<1>3. /\ Wanted("readdir", <<"ENOTDIR">>) = 1
      /\ Wanted("readdir", <<"EMPTYDIR">>) = 1
      /\ Wanted("readdir", <<"NOTEMPTYDIR", "size", "content">>) = 3
  BY DEF Wanted, PkOper, PkReaddir, Pk
<1>4. /\ Fits("readdir", Answer(<<"ENOTDIR">>, table))
      /\ Fits("readdir", Answer(<<"EMPTYDIR">>, table))
      /\ Fits("readdir", Answer(<<"NOTEMPTYDIR", "size", "content">>, table))
  BY <1>1, <1>2, <1>3 DEF Fits, Answer
<1> QED BY <1>4 DEF OsadaReaddir

LEMMA ReadFits ==
  ASSUME table \in [Entries -> Files], NEW p \in Looked
  PROVE  Fits("read", OsadaRead(p))
<1>1. Request("read") = Codes /\ "ENOENT" \in Codes /\ "SEXE" \in Codes
  BY DEF Request, Codes
<1>2. /\ <<"ENOENT">> \in Seq(Fields \cup Kinds)
      /\ <<"SEXE", "empty">> \in Seq(Fields \cup Kinds)
      /\ <<"SEXE", "data", "content">> \in Seq(Fields \cup Kinds)
  BY DEF Fields, Codes, Kinds
<1>3. /\ Wanted("read", <<"ENOENT">>) = 1
      /\ Wanted("read", <<"SEXE", "empty">>) = 2
      /\ Wanted("read", <<"SEXE", "data", "content">>) = 3
  BY DEF Wanted, PkOper, PkRead, Pk
<1>4. /\ Fits("read", Answer(<<"ENOENT">>, table))
      /\ Fits("read", Answer(<<"SEXE", "empty">>, table))
      /\ Fits("read", Answer(<<"SEXE", "data", "content">>, table))
  BY <1>1, <1>2, <1>3 DEF Fits, Answer
<1> QED BY <1>4, BrokenFits DEF OsadaRead

-----------------------------------------------------------------------------
(* The steps *)

\* What the inductive invariant says of one client.
Sync(c) ==
  /\ doing[c] = NONE => reply[c] = <<>> /\ request[c] = NONE
  /\ doing[c] # NONE /\ reply[c] # <<>> =>
       /\ request[c] = NONE
       /\ reply[c][1] \in Request(doing[c])
       /\ Len(reply[c]) = Wanted(doing[c], reply[c])
  /\ InOrder(c) /\ Cleared(c)

\* That no callback waits is none of the callbacks.
LEMMA NothingDone == NONE \notin {"getattr", "open", "read"}
BY NoneAssumption DEF Callbacks, Sized

LEMMA IInvIsSync == IInv <=> TypeOK /\ \A c \in Clients : Sync(c)
BY DEF IInv, InStep, Sync

LEMMA InitIsSync == Init => IInv
<1> SUFFICES ASSUME Init PROVE TypeOK /\ \A c \in Clients : Sync(c)
  BY IInvIsSync
<1>1. TypeOK
  <2>1. table \in [Entries -> Files] /\ calls \in 0 .. MaxCalls
    BY ClientAssumption DEF Init
  <2>2. /\ seen \in [Clients -> Seq(Kinds)]
        /\ reply \in [Clients -> Seq(Fields \cup Kinds)]
    BY DEF Init
  <2> QED BY <2>1, <2>2 DEF Init, TypeOK
<1>2. ASSUME NEW c \in Clients PROVE Sync(c)
  BY NothingDone DEF Init, Sync, InOrder, Cleared
<1> QED BY <1>1, <1>2

\* A client that takes no part in a step stays as it is.
LEMMA Apart ==
  ASSUME NEW d, Sync(d), doing'[d] = doing[d], reply'[d] = reply[d],
         request'[d] = request[d], call'[d] = call[d], seen'[d] = seen[d], opened'[d] = opened[d]
  PROVE  Sync(d)'
<1>1. InOrder(d)' /\ Cleared(d)'
  BY DEF Sync, InOrder, Cleared, Looking
<1> QED BY <1>1 DEF Sync

LEMMA BeginStep ==
  ASSUME IInv, NEW c \in Clients, Begin(c)
  PROVE  IInv'
<1>1. TypeOK /\ \A d \in Clients : Sync(d)
  BY IInvIsSync
<1> DEFINE Allowed(k) == k.op = "rename" => ~IsPrefix(k.path, k.to)
<1>2. PICK k \in Calls : call' = [call EXCEPT ![c] = k] /\ Allowed(k)
  BY DEF Begin
<1> HIDE DEF Allowed
<1>3. TypeOK'
  <2>1. call' \in [Clients -> Calls \cup {NONE}]
    BY <1>1, <1>2 DEF TypeOK
  <2>2. calls' \in 0 .. MaxCalls
    BY <1>1, ClientAssumption DEF TypeOK, Begin
  <2> QED BY <1>1, <2>1, <2>2 DEF TypeOK, Begin, volume, socket
<1>4. ASSUME NEW d \in Clients PROVE Sync(d)'
  <2>1. /\ doing' = doing /\ reply' = reply /\ request' = request /\ call[c] = NONE
        /\ seen' = seen /\ opened' = opened
    BY DEF Begin, socket
  <2>2. CASE d = c
    <3>1. doing[c] = NONE /\ request[c] = NONE /\ reply[c] = <<>> /\ seen[c] = <<>>
      BY <1>1, <2>1 DEF Sync, InOrder, Cleared
    <3>2. call'[c] = k /\ Len(Lookups(k)) \in Nat \ {0}
      BY <1>1, <1>2, LookupFacts DEF TypeOK
    <3>3. Cleared(c)'
      <4>1. Looking(c)'
        BY <2>1, <3>1, <3>2 DEF Looking
      <4>2. k.op = "rename" => ~IsPrefix(k.path, k.to)
        BY <1>2 DEF Allowed
      <4>3. DOMAIN seen'[c] = {} /\ Len(seen'[c]) = 0
        BY <2>1, <3>1
      <4>4. Len(seen'[c]) <= Len(Lookups(call'[c]))
        BY <3>2, <4>3
      <4>5. call'[c].op = "rename" => ~IsPrefix(call'[c].path, call'[c].to)
        BY <3>2, <4>2, Zenon
      <4>6. doing'[c] = NONE /\ request'[c] = NONE
        BY <2>1, <3>1
      <4>7. call'[c] = NONE => seen'[c] = <<>> /\ ~opened'[c]
        BY <1>1, <2>1, <3>1 DEF Sync, Cleared
      <4> QED BY <4>1, <4>3, <4>4, <4>5, <4>6, <4>7, NothingDone DEF Cleared
    <3> QED BY <2>1, <2>2, <3>1, <3>3, NothingDone DEF Sync, InOrder
  <2>3. CASE d # c
    <3>1. call'[d] = call[d]
      BY <1>1, <1>2, <2>3 DEF TypeOK
    <3> QED BY <1>1, <2>1, <3>1, Apart
  <2> QED BY <2>2, <2>3
<1> QED BY <1>3, <1>4, IInvIsSync DEF IInv, InStep, Sync

LEMMA SendStep ==
  ASSUME IInv, NEW c \in Clients, Send(c)
  PROVE  IInv'
<1>1. TypeOK /\ \A d \in Clients : Sync(d)
  BY IInvIsSync
<1> DEFINE path == IF Looking(c) THEN Lookups(call[c])[Len(seen[c]) + 1] ELSE call[c].path
<1>2. /\ call[c] \in Calls /\ doing[c] = NONE
      /\ doing' = [doing EXCEPT ![c] = Callback(c)]
      /\ request' = [request EXCEPT ![c] = [op |-> Callback(c), path |-> path]]
      /\ UNCHANGED <<table, server, call, seen, opened, reply, result, calls>>
  BY <1>1 DEF Send, TypeOK, volume, kernel
<1>3. /\ Callback(c) \in Callbacks
      /\ Callback(c) \in {"getattr", "open"} \/ Callback(c) = call[c].op
  BY <1>2, CallFacts DEF Callback, Callbacks
<1>4. path \in Looked
  <2>1. CASE Looking(c)
    <3>1. Lookups(call[c]) \in Seq(Looked) /\ Len(seen[c]) \in Nat
      BY <1>1, <1>2, LookupFacts DEF TypeOK
    <3>2. Len(seen[c]) + 1 \in 1 .. Len(Lookups(call[c]))
      BY <2>1, <3>1 DEF Looking
    <3>3. Lookups(call[c])[Len(seen[c]) + 1] \in Looked
      BY <3>1, <3>2, ElementOfSeq
    <3> QED BY <2>1, <3>3
  <2>2. CASE ~Looking(c)
    BY <1>2, <2>2, CallFacts DEF Looked
  <2> QED BY <2>1, <2>2
<1> HIDE DEF path
<1>5. TypeOK'
  <2>1. doing' \in [Clients -> Callbacks \cup {NONE}]
    BY <1>1, <1>2, <1>3 DEF TypeOK
  <2>2. [op |-> Callback(c), path |-> path] \in [op : Callbacks, path : Looked]
    BY <1>3, <1>4
  <2>3. request' \in [Clients -> {NONE} \cup [op : Callbacks, path : Looked]]
    BY <1>1, <1>2, <2>2 DEF TypeOK, Looked
  <2> QED BY <1>1, <1>2, <2>1, <2>3 DEF TypeOK, Looked
<1>6. ASSUME NEW d \in Clients PROVE Sync(d)'
  <2>1. CASE d = c
    <3>1. doing'[c] = Callback(c) /\ doing'[c] # NONE
      BY <1>1, <1>2, <1>3, NoneAssumption DEF TypeOK
    <3>2. request'[c].op = doing'[c]
      BY <1>1, <1>2, <3>1 DEF TypeOK
    <3>3. reply'[c] = <<>> /\ call'[c] = call[c] /\ call[c] # NONE
      BY <1>1, <1>2 DEF Sync, Send
    <3>4. Cleared(c)'
      <4>1. Looking(c)' = Looking(c)
        BY <1>2 DEF Looking
      <4>2. (Looking(c) <=> doing'[c] = "getattr") /\ (doing'[c] = "read" => opened[c])
        BY <1>2, <3>1, CallFacts DEF Callback, Plain, Sized
      <4>3. ~Looking(c) => request'[c].path = call[c].path
        BY <1>1, <1>2 DEF TypeOK, path
      <4>4. Cleared(c)
        BY <1>1 DEF Sync
      <4> QED BY <1>2, <3>1, <3>3, <4>1, <4>2, <4>3, <4>4 DEF Cleared
    <3> QED BY <1>3, <2>1, <3>1, <3>2, <3>3, <3>4 DEF Sync, InOrder
  <2>2. CASE d # c
    <3>1. doing'[d] = doing[d] /\ request'[d] = request[d]
      BY <1>1, <1>2, <2>2 DEF TypeOK
    <3> QED BY <1>1, <1>2, <3>1, Apart
  <2> QED BY <2>1, <2>2
<1> QED BY <1>5, <1>6, IInvIsSync DEF IInv, InStep, Sync

\* Whatever the message, the answer of its handler fits it.
LEMMA HandleFits ==
  ASSUME IInv, NEW c \in Clients, request[c] # NONE
  PROVE  Fits(doing[c], Handle(c))
<1>1. TypeOK /\ Sync(c)
  BY IInvIsSync
<1> DEFINE m == request[c]
<1>2. m \in [op : Callbacks, path : Looked]
  BY <1>1 DEF TypeOK, Looked
<1>3. /\ doing[c] = m.op /\ doing[c] # NONE
      /\ m.op \in {"getattr", "open"} \/ m.op = call[c].op
      /\ call[c] # NONE
  BY <1>1 DEF Sync, InOrder
<1>4. call[c] \in Calls
  BY <1>1, <1>3 DEF TypeOK
<1>5. m.op \in {"mkdir", "readdir", "getattr", "open", "mknod", "write", "read", "truncate",
                "unlink", "rmdir", "rename"}
  BY <1>2 DEF Callbacks, Plain, Sized
<1>6. /\ m.op = "rename" => call[c].to \in Looked
      /\ m.op \in {"write", "truncate"} => call[c].size \in Sizes
  BY <1>3, <1>4, CallFacts DEF Looked, Sized
<1>7. table \in [Entries -> Files] /\ m.path \in Looked
  BY <1>1, <1>2 DEF TypeOK
<1>8. CASE m.op = "mkdir"
  BY <1>3, <1>7, <1>8, MkdirFits DEF Handle
<1>9. CASE m.op = "readdir"
  BY <1>3, <1>7, <1>9, ReaddirFits DEF Handle
<1>10. CASE m.op \in {"getattr", "open"}
  BY <1>3, <1>7, <1>10, GetattrFits DEF Handle
<1>11. CASE m.op = "mknod"
  BY <1>3, <1>7, <1>11, MknodFits DEF Handle
<1>12. CASE m.op = "write"
  BY <1>3, <1>6, <1>7, <1>12, WriteFits DEF Handle
<1>13. CASE m.op = "read"
  BY <1>3, <1>7, <1>13, ReadFits DEF Handle
<1>14. CASE m.op = "truncate"
  BY <1>3, <1>6, <1>7, <1>14, TruncateFits DEF Handle
<1>15. CASE m.op = "unlink"
  BY <1>3, <1>7, <1>15, UnlinkFits DEF Handle
<1>16. CASE m.op = "rmdir"
  BY <1>3, <1>7, <1>16, RmdirFits DEF Handle
<1>17. CASE m.op = "rename"
  BY <1>3, <1>6, <1>7, <1>17, RenameFits DEF Handle
<1> QED BY <1>5, <1>8, <1>9, <1>10, <1>11, <1>12, <1>13, <1>14, <1>15, <1>16, <1>17

LEMMA ServeStep ==
  ASSUME IInv, NEW c \in Clients, Serve(c)
  PROVE  IInv'
<1>1. TypeOK /\ \A d \in Clients : Sync(d)
  BY IInvIsSync
<1> DEFINE a == Handle(c)
<1>2. /\ request[c] # NONE
      /\ table' = a.table /\ server' = a.server
      /\ reply' = [reply EXCEPT ![c] = @ \o a.fields]
      /\ request' = [request EXCEPT ![c] = NONE]
      /\ UNCHANGED <<call, seen, opened, doing, result, calls>>
  BY DEF Serve, kernel
<1>3. Fits(doing[c], a)
  BY <1>2, HandleFits
<1>4. doing[c] # NONE /\ reply[c] = <<>>
  BY <1>1, <1>2 DEF Sync
<1> HIDE DEF a
<1>5. reply' = [reply EXCEPT ![c] = a.fields]
  <2>1. reply[c] \o a.fields = a.fields
    BY <1>3, <1>4, ConcatEmptySeq DEF Fits
  <2> QED BY <1>1, <1>2, <2>1 DEF TypeOK
<1>6. TypeOK'
  <2>1. reply' \in [Clients -> Seq(Fields \cup Kinds)]
    BY <1>1, <1>3, <1>5 DEF TypeOK, Fits
  <2>2. request' \in [Clients -> {NONE} \cup [op : Callbacks, path : Looked]]
    BY <1>1, <1>2 DEF TypeOK, Looked
  <2>3. table' \in [Entries -> Files] /\ server' \in {"up", "down", "wild", "stuck"}
    BY <1>2, <1>3 DEF Fits
  <2> QED BY <1>1, <1>2, <2>1, <2>2, <2>3 DEF TypeOK, Looked
<1>7. ASSUME NEW d \in Clients PROVE Sync(d)'
  <2>1. CASE d = c
    <3>1. reply'[c] = a.fields /\ request'[c] = NONE
      BY <1>1, <1>2, <1>5 DEF TypeOK
    <3>2. Cleared(c)'
      BY <1>1, <1>2, <3>1 DEF Sync, Cleared, Looking
    <3> QED BY <1>1, <1>2, <1>3, <1>4, <2>1, <3>1, <3>2 DEF Sync, InOrder, Fits
  <2>2. CASE d # c
    <3>1. reply'[d] = reply[d] /\ request'[d] = request[d]
      BY <1>1, <1>2, <2>2 DEF TypeOK
    <3> QED BY <1>1, <1>2, <3>1, Apart
  <2> QED BY <2>1, <2>2
<1> QED BY <1>6, <1>7, IInvIsSync DEF IInv, InStep, Sync

-----------------------------------------------------------------------------
(* The answer read *)

Results == Errors \cup {"ok", "nothing", NONE}

\* What a callback returns is an error, success, or nothing done.
LEMMA OutcomeFacts ==
  ASSUME NEW op \in Callbacks, NEW f
  PROVE  op \notin {"getattr", "open"} \/ Outcome(op, f) # "ok" => Outcome(op, f) \in Results
BY DEF Callbacks, Plain, Sized, Outcome, PkOper, Pk, PkMkdir, PkGetattr, PkReaddir, PkMknod, PkTruncate,
       PkRead, PkWrite, PkOpen, PkUnlink, PkRmdir, PkRename, Results, Errors

LEMMA KernelFacts ==
  ASSUME NEW k \in Calls, NEW told
  PROVE  /\ Refusal(k, told) \in Results \cup {"go"}
         /\ Midway(k, told) \in Results \cup {"go"}
<1>1. k.op \in {"mkdir", "readdir", "mknod", "unlink", "rmdir", "write", "read", "truncate", "rename"}
  BY CallFacts DEF Plain, Sized
<1>2. Midway(k, told) \in Results \cup {"go"}
  BY DEF Midway, Results, Errors
<1>3. Refusal(k, told) \in {"go", "EEXIST", "ENOENT", "EISDIR", "ENOTDIR"}
  BY <1>1 DEF Refusal
<1> QED BY <1>2, <1>3 DEF Results, Errors

\* A call that returns leaves the types as they are.
LEMMA ReturnTypes ==
  ASSUME TypeOK, NEW c \in Clients, NEW r \in Results, Return(c, r)
  PROVE  /\ call' \in [Clients -> Calls \cup {NONE}] /\ seen' \in [Clients -> Seq(Kinds)]
         /\ opened' \in [Clients -> BOOLEAN] /\ result' \in [Clients -> Results]
BY DEF TypeOK, Return, Results

LEMMA RecvStep ==
  ASSUME IInv, NEW c \in Clients, Recv(c)
  PROVE  IInv'
<1>1. TypeOK /\ \A d \in Clients : Sync(d)
  BY IInvIsSync
<1> DEFINE fields == reply[c]
           op == doing[c]
           told == Append(seen[c], Told(fields))
           r == IF Midway(call[c], told) # "go" THEN Midway(call[c], told)
                ELSE IF Len(told) = Len(Lookups(call[c])) THEN Refusal(call[c], told) ELSE "go"
           Kept == UNCHANGED <<call, opened, result>> /\ seen' = [seen EXCEPT ![c] = told]
           Opened == UNCHANGED <<call, seen, result>> /\ opened' = [opened EXCEPT ![c] = TRUE]
<1>2. /\ op # NONE /\ fields # <<>>
      /\ doing' = [doing EXCEPT ![c] = NONE]
      /\ reply' = [reply EXCEPT ![c] = SubSeq(fields, Wanted(op, fields) + 1, Len(fields))]
      /\ UNCHANGED <<table, server, request, calls>>
  BY <1>1 DEF Recv, Complete, volume, TypeOK
<1>3. /\ request[c] = NONE /\ call[c] \in Calls /\ op \in Callbacks
      /\ fields \in Seq(Fields \cup Kinds) /\ Len(fields) = Wanted(op, fields)
  BY <1>1, <1>2 DEF Sync, InOrder, TypeOK
<1>4. reply' = [reply EXCEPT ![c] = <<>>]
  <2>1. Len(fields) \in Nat
    BY <1>3
  <2>2. SubSeq(fields, Wanted(op, fields) + 1, Len(fields)) = <<>>
    BY <1>3, <2>1, SubSeqEmpty
  <2> QED BY <1>2, <2>2
<1>5. \/ \E x \in Results : Return(c, x)
      \/ op = "getattr" /\ r = "go" /\ Kept
      \/ op = "open" /\ Opened
  <2>1. CASE op = "getattr"
    <3>1. r \in Results \cup {"go"}
      BY <1>3, KernelFacts
    <3>2. IF r # "go" THEN Return(c, r) ELSE Kept
      BY <2>1 DEF Recv
    <3> HIDE DEF r, Kept
    <3> QED BY <2>1, <3>1, <3>2
  <2>2. CASE op = "open"
    <3>1. "nothing" \in Results
      BY DEF Results
    <3>2. Outcome(op, fields) # "ok" => Outcome(op, fields) \in Results
      BY <1>3, OutcomeFacts
    <3>3. \/ Outcome(op, fields) # "ok" /\ Return(c, Outcome(op, fields))
          \/ Return(c, "nothing")
          \/ Opened
      BY <2>2 DEF Recv
    <3> HIDE DEF Opened
    <3> QED BY <2>2, <3>1, <3>2, <3>3
  <2>3. CASE op \notin {"getattr", "open"}
    <3>1. Outcome(op, fields) \in Results
      BY <1>3, <2>3, OutcomeFacts
    <3>2. Return(c, Outcome(op, fields))
      BY <2>3 DEF Recv
    <3> QED BY <3>1, <3>2
  <2> QED BY <2>1, <2>2, <2>3
<1>6. /\ call' \in [Clients -> Calls \cup {NONE}] /\ seen' \in [Clients -> Seq(Kinds)]
      /\ opened' \in [Clients -> BOOLEAN] /\ result' \in [Clients -> Results]
      /\ \A d \in Clients \ {c} : call'[d] = call[d] /\ seen'[d] = seen[d] /\ opened'[d] = opened[d]
      /\ Cleared(c)'
  <2>0. Cleared(c) /\ request'[c] = NONE /\ doing'[c] = NONE /\ call[c] # NONE
    BY <1>1, <1>2, <1>3 DEF Sync, InOrder, TypeOK
  <2>1. CASE \E x \in Results : Return(c, x)
    <3>1. \A d \in Clients \ {c} : call'[d] = call[d] /\ seen'[d] = seen[d] /\ opened'[d] = opened[d]
      BY <1>1, <2>1 DEF Return, TypeOK
    <3>2. call'[c] = NONE /\ seen'[c] = <<>> /\ ~opened'[c]
      BY <1>1, <2>1 DEF Return, TypeOK
    <3>3. Cleared(c)'
      BY <2>0, <3>2, NothingDone DEF Cleared
    <3> QED BY <1>1, <2>1, <3>1, <3>3, ReturnTypes
  <2>2. CASE op = "getattr" /\ r = "go" /\ Kept
    <3>1. Told(fields) \in Kinds
      BY <1>1, <1>2, <2>2 DEF Sync, InOrder, Told, Kinds
    <3> DEFINE n == Len(seen[c])
    <3>2. /\ told \in Seq(Kinds) /\ n \in Nat /\ Len(told) = n + 1
          /\ \A i \in 1 .. n : told[i] = seen[c][i]
      BY <1>1, <3>1, AppendProperties DEF TypeOK
    <3>3. Len(Lookups(call[c])) \in Nat /\ n < Len(Lookups(call[c]))
      BY <1>3, <2>0, <2>2, LookupFacts, NothingDone DEF Cleared, Looking
    <3>4. /\ Midway(call[c], told) = "go"
          /\ Len(told) = Len(Lookups(call[c])) => Refusal(call[c], told) = "go"
      BY <2>2
    <3> HIDE DEF told, n
    <3>5. Inside(call[c], n + 1) => told[n + 1] = "dir"
      BY <3>2, <3>4 DEF Midway, Last
    <3>6. call'[c] = call[c] /\ seen'[c] = told
      BY <1>1, <2>2 DEF TypeOK
    <3>7. Cleared(c)'
      <4>1. \A i \in DOMAIN told : Inside(call[c], i) => told[i] = "dir"
        <5> SUFFICES ASSUME NEW i \in DOMAIN told, Inside(call[c], i) PROVE told[i] = "dir"
          OBVIOUS
        <5>1. i \in 1 .. n + 1
          BY <3>2
        <5>2. CASE i = n + 1
          BY <3>5, <5>2
        <5>3. CASE i \in 1 .. n
          BY <1>1, <2>0, <3>2, <5>3 DEF Cleared, TypeOK, n
        <5> QED BY <3>2, <5>1, <5>2, <5>3
      <4>2. Looking(c)' <=> n + 1 < Len(Lookups(call[c]))
        BY <3>2, <3>6 DEF Looking
      <4>3. ~Looking(c)' => Refusal(call[c], told) = "go"
        BY <3>2, <3>3, <3>4, <4>2
      <4> QED BY <2>0, <3>2, <3>3, <3>6, <4>1, <4>3, NothingDone DEF Cleared
    <3>8. \A d \in Clients \ {c} : call'[d] = call[d] /\ seen'[d] = seen[d] /\ opened'[d] = opened[d]
      BY <1>1, <2>2 DEF TypeOK
    <3> QED BY <1>1, <2>2, <3>2, <3>7, <3>8 DEF TypeOK, Results
  <2>3. CASE op = "open" /\ Opened
    <3>1. call' = call /\ seen' = seen
      BY <2>3
    <3>2. Cleared(c)'
      BY <2>0, <3>1, NothingDone DEF Cleared, Looking
    <3>3. \A d \in Clients \ {c} : opened'[d] = opened[d]
      BY <1>1, <2>3 DEF TypeOK
    <3> QED BY <1>1, <2>3, <3>1, <3>2, <3>3 DEF TypeOK, Results
  <2> HIDE DEF op, r, Kept, Opened
  <2> QED BY <1>5, <2>1, <2>2, <2>3
<1>7. TypeOK'
  <2>1. doing' \in [Clients -> Callbacks \cup {NONE}]
    BY <1>1, <1>2 DEF TypeOK
  <2>2. reply' \in [Clients -> Seq(Fields \cup Kinds)]
    BY <1>1, <1>4 DEF TypeOK
  <2> QED BY <1>1, <1>2, <1>6, <2>1, <2>2 DEF TypeOK, Results
<1>8. ASSUME NEW d \in Clients PROVE Sync(d)'
  <2>1. CASE d = c
    <3>1. reply'[c] = <<>> /\ request'[c] = NONE /\ doing'[c] = NONE
      BY <1>1, <1>2, <1>3, <1>4 DEF TypeOK
    <3> QED BY <1>6, <2>1, <3>1, NothingDone DEF Sync, InOrder
  <2>2. CASE d # c
    <3>1. reply'[d] = reply[d] /\ request'[d] = request[d] /\ doing'[d] = doing[d]
      BY <1>1, <1>2, <2>2 DEF TypeOK
    <3> QED BY <1>1, <1>6, <2>2, <3>1, Apart
  <2> QED BY <2>1, <2>2
<1> QED BY <1>7, <1>8, IInvIsSync DEF IInv, InStep, Sync

LEMMA RecvEndStep ==
  ASSUME IInv, NEW c \in Clients, RecvEnd(c)
  PROVE  IInv'
<1>1. TypeOK /\ \A d \in Clients : Sync(d)
  BY IInvIsSync
<1>2. /\ doing' = [doing EXCEPT ![c] = NONE]
      /\ request' = [request EXCEPT ![c] = NONE]
      /\ reply' = [reply EXCEPT ![c] = <<>>]
      /\ Return(c, "EIO") /\ UNCHANGED <<table, server, calls>>
  BY DEF RecvEnd, volume
<1>3. "EIO" \in Results
  BY DEF Results, Errors
<1>4. TypeOK'
  <2>1. /\ call' \in [Clients -> Calls \cup {NONE}] /\ seen' \in [Clients -> Seq(Kinds)]
        /\ opened' \in [Clients -> BOOLEAN] /\ result' \in [Clients -> Results]
    BY <1>1, <1>2, <1>3, ReturnTypes
  <2>2. doing' \in [Clients -> Callbacks \cup {NONE}]
    BY <1>1, <1>2 DEF TypeOK
  <2>3. reply' \in [Clients -> Seq(Fields \cup Kinds)]
    BY <1>1, <1>2 DEF TypeOK
  <2>4. request' \in [Clients -> {NONE} \cup [op : Callbacks, path : Looked]]
    BY <1>1, <1>2 DEF TypeOK, Looked
  <2> QED BY <1>1, <1>2, <2>1, <2>2, <2>3, <2>4 DEF TypeOK, Results, Looked
<1>5. ASSUME NEW d \in Clients PROVE Sync(d)'
  <2>1. CASE d = c
    <3>1. /\ reply'[c] = <<>> /\ request'[c] = NONE /\ doing'[c] = NONE
          /\ call'[c] = NONE /\ seen'[c] = <<>> /\ ~opened'[c]
      BY <1>1, <1>2 DEF TypeOK, Return
    <3> QED BY <2>1, <3>1, NothingDone DEF Sync, InOrder, Cleared
  <2>2. CASE d # c
    <3>1. /\ reply'[d] = reply[d] /\ request'[d] = request[d] /\ doing'[d] = doing[d]
          /\ call'[d] = call[d] /\ seen'[d] = seen[d] /\ opened'[d] = opened[d]
      BY <1>1, <1>2, <2>2 DEF TypeOK, Return
    <3> QED BY <1>1, <3>1, Apart
  <2> QED BY <2>1, <2>2
<1> QED BY <1>4, <1>5, IInvIsSync DEF IInv, InStep, Sync

LEMMA StepIsSync == IInv /\ [Next]_vars => IInv'
<1> SUFFICES ASSUME IInv, [Next]_vars PROVE IInv'
  OBVIOUS
<1>1. CASE Crash
  BY <1>1 DEF Crash, kernel, socket, IInv, InStep, InOrder, Cleared, Looking, TypeOK
<1>2. CASE UNCHANGED vars
  BY <1>2 DEF vars, volume, kernel, socket, IInv, InStep, InOrder, Cleared, Looking, TypeOK
<1>3. ASSUME NEW c \in Clients, Begin(c) \/ Send(c) \/ Serve(c) \/ Recv(c) \/ RecvEnd(c)
      PROVE  IInv'
  BY <1>3, BeginStep, SendStep, ServeStep, RecvStep, RecvEndStep
<1> QED BY <1>1, <1>2, <1>3 DEF Next

-----------------------------------------------------------------------------
(* What becomes of the table *)

Tables == [Entries -> Files]

\* One entry changes: who has a name in a directory afterwards.
LEMMA NamedAfter ==
  ASSUME NEW tb \in Tables, NEW i \in Entries, NEW e, NEW n, NEW parent
  PROVE  Named([tb EXCEPT ![i] = e], n, parent)
           = (Named(tb, n, parent) \ {i})
             \cup {j \in {i} : e.state # "deleted" /\ e.name = n /\ e.parent = parent}
<1>1. ASSUME NEW j \in Entries
      PROVE  [tb EXCEPT ![i] = e][j] = IF j = i THEN e ELSE tb[j]
  BY DEF Tables
<1> QED BY <1>1 DEF Named

LEMMA NamedFinite ==
  ASSUME NEW tb, NEW n, NEW parent
  PROVE  IsFiniteSet(Named(tb, n, parent)) /\ Cardinality(Named(tb, n, parent)) \in Nat
<1>1. IsFiniteSet(Entries)
  BY ClientAssumption, FS_Interval DEF Entries
<1>2. Named(tb, n, parent) \subseteq Entries
  BY DEF Named
<1> QED BY <1>1, <1>2, FS_Subset, FS_CardinalityType

LEMMA NoNode ==
  ASSUME NEW tb \in Tables, NEW n, NEW parent
  PROVE  Node(tb, n, parent) = NONE <=> Named(tb, n, parent) = {}
<1>1. ASSUME Named(tb, n, parent) # {} PROVE Node(tb, n, parent) \in Entries
  <2>1. Named(tb, n, parent) \in SUBSET Nat /\ Named(tb, n, parent) \subseteq Entries
    BY EntryFacts DEF Named
  <2> QED BY <1>1, <2>1, MinIsOne DEF Node
<1> QED BY <1>1, ClientAssumption DEF Node

\* A node found has the name it was looked for by.
LEMMA NodeIsNamed ==
  ASSUME NEW tb \in Tables, NEW n, NEW parent, Node(tb, n, parent) # NONE
  PROVE  Node(tb, n, parent) \in Named(tb, n, parent)
<1>1. Named(tb, n, parent) \in SUBSET Nat /\ Named(tb, n, parent) # {}
  BY NoNode, EntryFacts DEF Named
<1> QED BY <1>1, MinIsOne DEF Node

\* The directory of a path of two names is an entry, that of one name is not.
LEMMA ParentFacts ==
  ASSUME NEW tb \in Tables, NEW p \in Looked
  PROVE  /\ Len(p) = 1 => Parent(tb, p) = ROOT
         /\ Len(p) = 2 => Parent(tb, p) = Dir(tb, p[1], ROOT)
         /\ Len(p) = 2 /\ Parent(tb, p) # NONE => Parent(tb, p) \in Entries /\ Parent(tb, p) # ROOT
         /\ Len(p) = 1 => Parent(tb, p) # NONE /\ p[1] = Name(p)
<1>1. Len(p) \in {1, 2}
  BY PathFacts
<1>2. ROOT # NONE /\ ROOT \notin Entries
  BY ClientAssumption DEF Entries, ROOT
<1>3. Len(p) = 2 /\ Parent(tb, p) # NONE => Parent(tb, p) \in Entries
  BY DirFacts DEF Parent, Tables
<1> QED BY <1>1, <1>2, <1>3 DEF Parent, Name, Last

\* The directory of a path stays where the entries of its name do.
LEMMA ParentStays ==
  ASSUME NEW tb \in Tables, NEW tc \in Tables, NEW p \in Looked,
         Len(p) = 2 => /\ Named(tc, p[1], ROOT) = Named(tb, p[1], ROOT)
                       /\ \A j \in Named(tb, p[1], ROOT) : tc[j].state = tb[j].state
  PROVE  Parent(tc, p) = Parent(tb, p)
<1>1. CASE Len(p) = 1
  BY <1>1 DEF Parent
<1>2. CASE Len(p) = 2
  <2>1. Node(tc, p[1], ROOT) = Node(tb, p[1], ROOT)
    BY <1>2 DEF Node
  <2>2. Node(tb, p[1], ROOT) # NONE =>
          tc[Node(tb, p[1], ROOT)].state = tb[Node(tb, p[1], ROOT)].state
    BY <1>2, NodeIsNamed
  <2>3. Dir(tc, p[1], ROOT) = Dir(tb, p[1], ROOT)
    BY <2>1, <2>2 DEF Dir
  <2> QED BY <1>2, <2>3 DEF Parent
<1> QED BY <1>1, <1>2, PathFacts

\* No entry gets a name that another has in its directory.
LEMMA NoneDoubled ==
  ASSUME NEW tb \in Tables, ~Doubled(tb), NEW i \in Entries, NEW e,
         e.state # "deleted" => Named(tb, e.name, e.parent) \ {i} = {}
  PROVE  ~Doubled([tb EXCEPT ![i] = e])
<1> DEFINE tc == [tb EXCEPT ![i] = e]
<1>1. tc[i] = e /\ \A j \in Entries \ {i} : tc[j] = tb[j]
  BY DEF Tables
<1> HIDE DEF tc
<1> SUFFICES ASSUME Doubled(tc) PROVE FALSE
  BY DEF tc
<1>2. PICK j \in Entries, l \in Entries : j # l /\ {j, l} \subseteq Named(tc, tc[j].name, tc[j].parent)
  BY Zenon DEF Doubled
<1>3. /\ tc[j].state # "deleted" /\ tc[l].state # "deleted"
      /\ tc[l].name = tc[j].name /\ tc[l].parent = tc[j].parent
  BY <1>2 DEF Named
<1>4. CASE j = i
  BY <1>1, <1>2, <1>3, <1>4 DEF Named
<1>5. CASE l = i
  BY <1>1, <1>2, <1>3, <1>5 DEF Named
<1>6. CASE j # i /\ l # i
  BY <1>1, <1>2, <1>3, <1>6 DEF Named, Doubled
<1> QED BY <1>4, <1>5, <1>6

LEMMA CreatedTable ==
  ASSUME NEW tb \in Tables, ~Full(tb), NEW p \in Looked, Parent(tb, p) # NONE,
         NEW state \in {"reg", "dir"}
  PROVE  /\ Copies(Created(tb, p, state), p) = Copies(tb, p) + 1
         /\ NodeAt(tb, p) = NONE /\ ~Doubled(tb) => ~Doubled(Created(tb, p, state))
<1> DEFINE i == Min(Free(tb))
           dir == Parent(tb, p)
           e == [state |-> state, name |-> Name(p), parent |-> dir, size |-> 0]
           tc == [tb EXCEPT ![i] = e]
           old == Named(tb, Name(p), dir)
<1>1. i \in Entries /\ tb[i].state = "deleted"
  <2>1. Free(tb) \in SUBSET Nat /\ Free(tb) # {}
    BY EntryFacts DEF Free, Full
  <2> QED BY <2>1, MinIsOne DEF Free
<1>2. Created(tb, p, state) = tc /\ tc \in Tables
  BY CreatedFacts DEF Created, Tables
<1>3. e.state # "deleted" /\ e.name = Name(p) /\ e.parent = dir
  OBVIOUS
<1> HIDE DEF e, i
<1>4. ASSUME NEW n, NEW d PROVE i \notin Named(tb, n, d)
  BY <1>1 DEF Named
<1>5. Named(tc, Name(p), dir) = old \cup {i}
  BY <1>1, <1>3, <1>4, NamedAfter
<1>6. Parent(tc, p) = dir
  <2>1. ASSUME Len(p) = 2
        PROVE  /\ Named(tc, p[1], ROOT) = Named(tb, p[1], ROOT)
               /\ \A j \in Named(tb, p[1], ROOT) : tc[j].state = tb[j].state
    <3>1. dir # ROOT
      BY <2>1, ParentFacts
    <3>2. Named(tc, p[1], ROOT) = Named(tb, p[1], ROOT)
      BY <1>1, <1>3, <1>4, <3>1, NamedAfter
    <3>3. ASSUME NEW j \in Named(tb, p[1], ROOT) PROVE tc[j] = tb[j]
      BY <1>1, <1>4 DEF Named, Tables
    <3> QED BY <3>2, <3>3
  <2> QED BY <1>2, <2>1, ParentStays
<1> HIDE DEF tc
<1>7. Copies(tc, p) = Copies(tb, p) + 1
  <2>1. IsFiniteSet(old) /\ Cardinality(old) \in Nat /\ i \notin old
    BY <1>4, NamedFinite
  <2>2. Cardinality(old \cup {i}) = Cardinality(old) + 1
    BY <2>1, FS_AddElement
  <2> QED BY <1>5, <1>6, <2>2 DEF Copies
<1>8. NodeAt(tb, p) = NONE /\ ~Doubled(tb) => ~Doubled(tc)
  <2>1. NodeAt(tb, p) = NONE => old = {}
    BY NoNode DEF NodeAt
  <2> QED BY <1>1, <1>3, <2>1, NoneDoubled DEF tc
<1> QED BY <1>2, <1>7, <1>8

\* What is at a path is one of the entries of its name.
LEMMA AtIsNamed ==
  ASSUME NEW tb \in Tables, NEW p, NodeAt(tb, p) # NONE
  PROVE  /\ Parent(tb, p) # NONE
         /\ NodeAt(tb, p) \in Named(tb, Name(p), Parent(tb, p))
         /\ NodeAt(tb, p) \in Entries
         /\ tb[NodeAt(tb, p)].name = Name(p) /\ tb[NodeAt(tb, p)].parent = Parent(tb, p)
BY NodeIsNamed DEF NodeAt, Named

\* A directory at a path is what is at that path.
LEMMA DirIsNode ==
  ASSUME NEW tb \in Tables, NEW p
  PROVE  /\ DirAt(tb, p) # NONE => DirAt(tb, p) = NodeAt(tb, p)
         /\ DirAt(tb, p) # NONE <=> NodeAt(tb, p) # NONE /\ tb[NodeAt(tb, p)].state = "dir"
BY DEF DirAt, NodeAt, Dir

LEMMA RemovedTable ==
  ASSUME NEW tb \in Tables, NEW p \in Looked, NodeAt(tb, p) # NONE
  PROVE  /\ Copies([tb EXCEPT ![NodeAt(tb, p)] = Deleted], p) = Copies(tb, p) - 1
         /\ ~Doubled(tb) => ~Doubled([tb EXCEPT ![NodeAt(tb, p)] = Deleted])
<1> DEFINE i == NodeAt(tb, p)
           dir == Parent(tb, p)
           tc == [tb EXCEPT ![i] = Deleted]
           old == Named(tb, Name(p), dir)
<1>1. i \in Entries /\ i \in old /\ tb[i].parent = dir /\ dir # NONE
  BY AtIsNamed
<1>2. tc \in Tables
  BY <1>1 DEF Tables, Files
<1> HIDE DEF i
<1>3. ASSUME NEW n, NEW d PROVE Named(tc, n, d) = Named(tb, n, d) \ {i}
  <2>1. Deleted.state = "deleted"
    BY DEF Deleted
  <2> QED BY <1>1, <2>1, NamedAfter
<1>4. Parent(tc, p) = dir
  <2>1. ASSUME Len(p) = 2
        PROVE  /\ Named(tc, p[1], ROOT) = Named(tb, p[1], ROOT)
               /\ \A j \in Named(tb, p[1], ROOT) : tc[j].state = tb[j].state
    <3>1. i \notin Named(tb, p[1], ROOT)
      BY <1>1, <2>1, ParentFacts DEF Named
    <3>2. ASSUME NEW j \in Named(tb, p[1], ROOT) PROVE tc[j] = tb[j]
      BY <1>1, <3>1 DEF Named, Tables
    <3> HIDE DEF tc
    <3>3. Named(tc, p[1], ROOT) = Named(tb, p[1], ROOT) \ {i}
      BY <1>3
    <3>4. Named(tc, p[1], ROOT) = Named(tb, p[1], ROOT)
      BY <3>1, <3>3
    <3> QED BY <3>2, <3>4
  <2> QED BY <1>2, <2>1, ParentStays
<1> HIDE DEF tc
<1>5. Copies(tc, p) = Copies(tb, p) - 1
  <2>1. Cardinality(old \ {i}) = Cardinality(old) - 1
    BY <1>1, NamedFinite, FS_RemoveElement
  <2> QED BY <1>1, <1>3, <1>4, <2>1 DEF Copies
<1>6. ~Doubled(tb) => ~Doubled(tc)
  BY <1>1, NoneDoubled DEF tc, Deleted
<1> QED BY <1>5, <1>6 DEF i, tc

LEMMA SizedTable ==
  ASSUME NEW tb \in Tables, NEW p \in Looked, NodeAt(tb, p) # NONE, NEW n \in Sizes
  PROVE  LET tc == [tb EXCEPT ![NodeAt(tb, p)].size = n] IN
         /\ NodeAt(tc, p) = NodeAt(tb, p) /\ tc[NodeAt(tb, p)].size = n
         /\ ~Doubled(tb) => ~Doubled(tc)
<1> DEFINE i == NodeAt(tb, p)
           e == [tb[i] EXCEPT !.size = n]
           tc == [tb EXCEPT ![i] = e]
<1>1. /\ i \in Entries /\ tb[i].state # "deleted"
      /\ tb[i] \in [state : {"reg", "dir"}, name : Names, parent : {ROOT} \cup Entries, size : Sizes]
  BY AtFacts, UsedFile DEF Tables
<1>2. [tb EXCEPT ![NodeAt(tb, p)].size = n] = tc
  BY <1>1
<1> HIDE DEF i
<1>3. e.state = tb[i].state /\ e.name = tb[i].name /\ e.parent = tb[i].parent /\ e.size = n /\ e \in Files
  BY <1>1 DEF Files
<1> HIDE DEF e
<1>4. tc \in Tables /\ tc[i] = e /\ \A j \in Entries : tc[j].state = tb[j].state
  BY <1>1, <1>3 DEF Tables
<1>5. ASSUME NEW m, NEW d PROVE Named(tc, m, d) = Named(tb, m, d)
  <2>1. i \in Named(tb, m, d) <=> e.state # "deleted" /\ e.name = m /\ e.parent = d
    BY <1>1, <1>3 DEF Named
  <2>2. Named(tc, m, d) = (Named(tb, m, d) \ {i})
                            \cup {j \in {i} : e.state # "deleted" /\ e.name = m /\ e.parent = d}
    BY <1>1, NamedAfter
  <2> QED BY <2>1, <2>2
<1> HIDE DEF tc
<1>6. Parent(tc, p) = Parent(tb, p)
  <2>1. \A j \in Named(tb, p[1], ROOT) : j \in Entries
    BY DEF Named
  <2> QED BY <1>4, <1>5, <2>1, ParentStays
<1>7. NodeAt(tc, p) = i
  <2>1. Node(tc, Name(p), Parent(tb, p)) = Node(tb, Name(p), Parent(tb, p))
    BY <1>5 DEF Node
  <2> QED BY <1>6, <2>1 DEF NodeAt, i
<1>8. ~Doubled(tb) => ~Doubled(tc)
  <2> SUFFICES ASSUME ~Doubled(tb) PROVE Named(tb, e.name, e.parent) \ {i} = {}
    BY <1>1, NoneDoubled DEF tc
  <2>1. i \in Named(tb, tb[i].name, tb[i].parent)
    BY <1>1 DEF Named
  <2>2. \A j \in Named(tb, tb[i].name, tb[i].parent) : j \in Entries
    BY DEF Named
  <2> QED BY <1>1, <1>3, <2>1, <2>2 DEF Doubled
<1> QED BY <1>2, <1>3, <1>4, <1>7, <1>8 DEF i

\* Neither path of a rename leads through the entry that is renamed.
LEMMA RenamedTable ==
  ASSUME NEW tb \in Tables, NEW p \in Looked, NodeAt(tb, p) # NONE,
         NEW t \in Looked, Parent(tb, t) # NONE, NodeAt(tb, t) = NONE, ~IsPrefix(p, t)
  PROVE  LET tc == [tb EXCEPT ![NodeAt(tb, p)].name = Name(t),
                              ![NodeAt(tb, p)].parent = Parent(tb, t)] IN
         /\ Copies(tc, t) = Copies(tb, t) + 1
         /\ Copies(tc, p) = Copies(tb, p) - 1
         /\ ~Doubled(tb) => ~Doubled(tc)
<1> DEFINE i == NodeAt(tb, p)
           from == Parent(tb, p)
           to == Parent(tb, t)
           e == [tb[i] EXCEPT !.name = Name(t), !.parent = to]
           tc == [tb EXCEPT ![i] = e]
           old == Named(tb, Name(p), from)
<1>1. /\ i \in Entries /\ i \in old /\ from # NONE
      /\ tb[i].name = Name(p) /\ tb[i].parent = from
      /\ tb[i] \in [state : {"reg", "dir"}, name : Names, parent : {ROOT} \cup Entries, size : Sizes]
  BY AtIsNamed, AtFacts, UsedFile DEF Tables
<1>2. [tb EXCEPT ![NodeAt(tb, p)].name = Name(t), ![NodeAt(tb, p)].parent = Parent(tb, t)] = tc
  BY <1>1
<1>3. tc \in Tables
  BY <1>2, RenamedFacts DEF Tables
<1> HIDE DEF i
<1>4. e.state # "deleted" /\ e.name = Name(t) /\ e.parent = to
  BY <1>1
<1> HIDE DEF e
<1>5. tc[i] = e /\ \A j \in Entries \ {i} : tc[j] = tb[j]
  BY <1>1 DEF Tables
<1> HIDE DEF tc
<1>6. ASSUME NEW n, NEW d
      PROVE  Named(tc, n, d) = (Named(tb, n, d) \ {i})
                                 \cup {j \in {i} : Name(t) = n /\ to = d}
  BY <1>1, <1>4, NamedAfter DEF tc
<1>7. Named(tb, Name(t), to) = {}
  BY NoNode DEF NodeAt
<1>8. Parent(tc, t) = to
  <2>1. ASSUME Len(t) = 2
        PROVE  /\ Named(tc, t[1], ROOT) = Named(tb, t[1], ROOT)
               /\ \A j \in Named(tb, t[1], ROOT) : tc[j].state = tb[j].state
    <3>1. to # ROOT
      BY <2>1, ParentFacts
    <3>2. i \notin Named(tb, t[1], ROOT)
      <4> SUFFICES ASSUME Name(p) = t[1], from = ROOT PROVE FALSE
        BY <1>1 DEF Named
      <4>1. Len(p) = 1 /\ p[1] = t[1]
        BY <1>1, PathFacts, ParentFacts
      <4>2. p \in Seq(Names) /\ t \in Seq(Names)
        BY PathFacts
      <4>3. p = SubSeq(t, 1, 1)
        BY <2>1, <4>1, <4>2, SubSeqProperties
      <4>4. IsPrefix(p, t)
        BY <2>1, <4>1, <4>3 DEF IsPrefix
      <4> QED BY <4>4
    <3>3. Named(tc, t[1], ROOT) = Named(tb, t[1], ROOT)
      <4>1. Named(tc, t[1], ROOT) = (Named(tb, t[1], ROOT) \ {i})
                                      \cup {j \in {i} : Name(t) = t[1] /\ to = ROOT}
        BY <1>6
      <4> QED BY <3>1, <3>2, <4>1
    <3>4. ASSUME NEW j \in Named(tb, t[1], ROOT) PROVE tc[j] = tb[j]
      BY <1>5, <3>2 DEF Named
    <3> QED BY <3>3, <3>4
  <2> QED BY <1>3, <2>1, ParentStays
<1>9. Parent(tc, p) = from
  <2>1. ASSUME Len(p) = 2
        PROVE  /\ Named(tc, p[1], ROOT) = Named(tb, p[1], ROOT)
               /\ \A j \in Named(tb, p[1], ROOT) : tc[j].state = tb[j].state
    <3>1. i \notin Named(tb, p[1], ROOT)
      BY <1>1, <2>1, ParentFacts DEF Named
    <3>2. ~(Name(t) = p[1] /\ to = ROOT)
      <4>1. Node(tb, p[1], ROOT) # NONE
        BY <1>1, <2>1, ParentFacts DEF Dir
      <4> QED BY <1>7, <4>1, NoNode
    <3>3. Named(tc, p[1], ROOT) = Named(tb, p[1], ROOT)
      <4>1. Named(tc, p[1], ROOT) = (Named(tb, p[1], ROOT) \ {i})
                                      \cup {j \in {i} : Name(t) = p[1] /\ to = ROOT}
        BY <1>6
      <4> QED BY <3>1, <3>2, <4>1
    <3>4. ASSUME NEW j \in Named(tb, p[1], ROOT) PROVE tc[j] = tb[j]
      BY <1>5, <3>1 DEF Named
    <3> QED BY <3>3, <3>4
  <2> QED BY <1>3, <2>1, ParentStays
<1>10. Copies(tc, t) = Copies(tb, t) + 1
  <2>1. Named(tc, Name(t), to) = {i}
    BY <1>6, <1>7
  <2>2. Cardinality({i}) = 1
    BY FS_Singleton
  <2>3. Cardinality(Named(tb, Name(t), to)) = 0
    BY <1>7, FS_EmptySet
  <2> QED BY <1>8, <2>1, <2>2, <2>3 DEF Copies
<1>11. Copies(tc, p) = Copies(tb, p) - 1
  <2>1. ~(Name(t) = Name(p) /\ to = from)
    BY <1>1, <1>7
  <2>2. Named(tc, Name(p), from) = old \ {i}
    BY <1>6, <2>1
  <2>3. Cardinality(old \ {i}) = Cardinality(old) - 1
    BY <1>1, NamedFinite, FS_RemoveElement
  <2> QED BY <1>1, <1>9, <2>2, <2>3 DEF Copies
<1>12. ~Doubled(tb) => ~Doubled(tc)
  BY <1>1, <1>4, <1>7, NoneDoubled DEF tc
<1> QED BY <1>2, <1>10, <1>11, <1>12

-----------------------------------------------------------------------------
(* What each handler does *)

\* An answer is true of a call: nothing happened, or what was asked for.
Honest(k, a) ==
  LET r == Outcome(k.op, a.fields) IN
  /\ r # "ok" => a.table = table
  /\ r = "ok" /\ ~Pretends(k) => Done(k, table, a.table)

\* A handler neither breaks the server nor makes a second entry of a name.
Harmless(a) == a.server = "up" /\ (Doubled(a.table) => Doubled(table))

LEMMA MkdirDoes ==
  ASSUME table \in Tables, NEW k \in Calls, k.op = "mkdir", NEW a, a = OsadaMkdir(k.path)
  PROVE  /\ a.server = "up" => Honest(k, a)
         /\ Parent(table, k.path) # NONE /\ NodeAt(table, k.path) = NONE => Harmless(a)
<1> DEFINE p == k.path
<1>1. p \in Looked
  BY CallFacts DEF Looked
<1>2. \A f : Outcome("mkdir", f) = CASE f[1] = "ENOSPC" -> "ENOSPC"
                                     [] f[1] = "ENAMETOOLONG" -> "EINVAL"
                                     [] OTHER -> "ok"
  BY DEF Outcome, PkOper, PkMkdir, Pk
<1>3. Outcome("mkdir", <<"ISDIR">>) = "ok" /\ Outcome("mkdir", <<"ENAMETOOLONG">>) = "EINVAL"
  BY <1>2
<1>4. CASE Parent(table, p) = NONE
  BY <1>4 DEF OsadaMkdir, Broken
<1>5. CASE Parent(table, p) # NONE /\ DirAt(table, p) # NONE
  <2>1. NodeAt(table, p) # NONE
    BY <1>5, DirIsNode
  <2> QED BY <1>5, <2>1 DEF OsadaMkdir, Broken
<1>6. CASE Parent(table, p) # NONE /\ DirAt(table, p) = NONE /\ Name(p) \in Long
  <2>1. a.server = "up" /\ a.fields = <<"ENAMETOOLONG">> /\ a.table = table
    BY <1>6 DEF OsadaMkdir, Answer
  <2> QED BY <1>3, <2>1 DEF Honest, Harmless
<1>7. CASE Parent(table, p) # NONE /\ DirAt(table, p) = NONE /\ Name(p) \notin Long
  <2>1. /\ a.server = "up" /\ a.fields = <<"ISDIR">>
        /\ a.table = IF Full(table) THEN table ELSE Created(table, p, "dir")
    BY <1>7 DEF OsadaMkdir, Answer
  <2>2. CASE Full(table)
    BY <1>3, <2>1, <2>2 DEF Honest, Harmless, Pretends
  <2>3. CASE ~Full(table)
    <3>1. /\ Copies(a.table, p) = Copies(table, p) + 1
          /\ NodeAt(table, p) = NONE /\ ~Doubled(table) => ~Doubled(a.table)
      BY <1>1, <1>7, <2>1, <2>3, CreatedTable
    <3>2. Done(k, table, a.table)
      BY <3>1 DEF Done
    <3> QED BY <1>3, <2>1, <3>1, <3>2 DEF Honest, Harmless
  <2> QED BY <2>2, <2>3
<1> QED BY <1>4, <1>5, <1>6, <1>7

LEMMA MknodDoes ==
  ASSUME table \in Tables, NEW k \in Calls, k.op = "mknod", NEW a, a = OsadaMknod(k.path)
  PROVE  /\ a.server = "up" => Honest(k, a)
         /\ NodeAt(table, k.path) = NONE => Harmless(a)
<1> DEFINE p == k.path
<1>1. p \in Looked
  BY CallFacts DEF Looked
<1>2. \A f : Outcome("mknod", f) = CASE f[1] \in {"ENOSPC", "ENOTDIR"} -> f[1]
                                     [] f[1] = "ENAMETOOLONG" -> "EINVAL"
                                     [] OTHER -> "ok"
  BY DEF Outcome, PkOper, PkMknod, Pk
<1>3. /\ Outcome("mknod", <<"ISREG">>) = "ok"
      /\ Outcome("mknod", <<"ENAMETOOLONG">>) = "EINVAL"
      /\ Outcome("mknod", <<"ENOTDIR">>) = "ENOTDIR"
      /\ Outcome("mknod", <<"ENOSPC">>) = "ENOSPC"
  BY <1>2
<1>4. CASE \E code \in {"ENOTDIR", "ENAMETOOLONG", "ENOSPC"} : a = Answer(<<code>>, table)
  <2>1. PICK code \in {"ENOTDIR", "ENAMETOOLONG", "ENOSPC"} : a = Answer(<<code>>, table)
    BY <1>4
  <2>2. Outcome("mknod", <<code>>) # "ok"
    BY <1>3
  <2> QED BY <2>1, <2>2 DEF Answer, Honest, Harmless
<1>5. CASE Parent(table, p) # NONE /\ DirAt(table, p) # NONE
  <2>1. NodeAt(table, p) # NONE
    BY <1>5, DirIsNode
  <2> QED BY <1>5, <2>1 DEF OsadaMknod, Broken
<1>6. CASE Parent(table, p) # NONE /\ ~Full(table) /\ a = Answer(<<"ISREG">>, Created(table, p, "reg"))
  <2>1. a.server = "up" /\ a.fields = <<"ISREG">> /\ a.table = Created(table, p, "reg")
    BY <1>6 DEF Answer
  <2>2. /\ Copies(a.table, p) = Copies(table, p) + 1
        /\ NodeAt(table, p) = NONE /\ ~Doubled(table) => ~Doubled(a.table)
    BY <1>1, <1>6, <2>1, CreatedTable
  <2>3. Done(k, table, a.table)
    BY <2>2 DEF Done
  <2> QED BY <1>3, <2>1, <2>2, <2>3 DEF Honest, Harmless
<1> QED BY <1>4, <1>5, <1>6 DEF OsadaMknod

\* What write, truncate and unlink do starts with the file being found.
LEMMA OnFileIs ==
  ASSUME table \in Tables, NEW p, NEW then, NEW a, a = OnFile(p, then)
  PROVE  \/ DirAt(table, p) # NONE /\ a.server # "up"
         \/ DirAt(table, p) = NONE /\ NodeAt(table, p) = NONE /\ a = Answer(<<"ENOENT">>, table)
         \/ DirAt(table, p) = NONE /\ NodeAt(table, p) # NONE /\ a = then
BY DEF OnFile, Broken

LEMMA RefusedOnFile ==
  ASSUME NEW k, k.op \in {"write", "truncate", "unlink"}, NEW code \in {"ENOENT", "ENOSPC"},
         code = "ENOENT" \/ k.op # "unlink", NEW a, a = Answer(<<code>>, table)
  PROVE  Honest(k, a) /\ Harmless(a)
<1>1. Outcome(k.op, <<code>>) # "ok"
  BY DEF Outcome, PkOper, PkWrite, PkTruncate, PkUnlink, Pk
<1> QED BY <1>1 DEF Answer, Honest, Harmless

\* A file that is made as long as asked, or left longer.
LEMMA SizeDone ==
  ASSUME table \in Tables, NEW k \in Calls, k.op \in {"write", "truncate"},
         NodeAt(table, k.path) # NONE, NEW n \in Sizes, n >= k.size,
         NEW a, a = Answer(<<"SEXE">>, [table EXCEPT ![NodeAt(table, k.path)].size = n])
  PROVE  Honest(k, a) /\ Harmless(a)
<1> DEFINE p == k.path
           tc == [table EXCEPT ![NodeAt(table, p)].size = n]
<1>1. p \in Looked
  BY CallFacts DEF Looked
<1>2. /\ NodeAt(tc, p) = NodeAt(table, p) /\ tc[NodeAt(table, p)].size = n
      /\ ~Doubled(table) => ~Doubled(tc)
  BY <1>1, SizedTable
<1>3. a.fields = <<"SEXE">> /\ a.server = "up" /\ a.table = tc
  BY DEF Answer
<1>4. Outcome(k.op, <<"SEXE">>) = "ok"
  BY DEF Outcome, PkOper, PkWrite, PkTruncate, Pk
<1> HIDE DEF tc
<1>5. Done(k, table, tc)
  BY <1>2 DEF Done
<1> QED BY <1>2, <1>3, <1>4, <1>5 DEF Honest, Harmless

LEMMA WriteDoes ==
  ASSUME table \in Tables, NEW k \in Calls, k.op = "write", NEW a, a = OsadaWrite(k.path, k.size)
  PROVE  /\ a.server = "up" => Honest(k, a)
         /\ DirAt(table, k.path) = NONE => Harmless(a)
<1> DEFINE p == k.path
           i == NodeAt(table, p)
           full == Answer(<<"ENOSPC">>, table)
           tc == [table EXCEPT ![i].size = Max({@, k.size})]
           done == Answer(<<"SEXE">>, tc)
           then == IF k.size > 0 /\ NoRoom(table, i) THEN full ELSE done
<1>1. /\ OsadaWrite(p, k.size) = OnFile(p, then)
      /\ k.size \in Sizes
  BY CallFacts DEF OsadaWrite, Sized
<1>2. \/ DirAt(table, p) # NONE /\ a.server # "up"
      \/ DirAt(table, p) = NONE /\ i = NONE /\ a = Answer(<<"ENOENT">>, table)
      \/ DirAt(table, p) = NONE /\ i # NONE /\ a = then
  <2> HIDE DEF then, p
  <2>1. a = OnFile(p, then)
    BY <1>1 DEF p
  <2> QED BY <2>1, OnFileIs
<1>3. CASE i # NONE /\ a = done
  <2> DEFINE n == Max({table[i].size, k.size})
  <2>1. i \in Entries /\ table[i].size \in Sizes
    BY <1>3, AtFacts, UsedFile DEF Tables
  <2>2. n \in Sizes /\ n >= k.size
    <3>1. \E x \in {table[i].size, k.size} : \A y \in {table[i].size, k.size} : x >= y
      BY <1>1, <2>1 DEF Sizes
    <3> QED BY <1>1, <2>1, <3>1 DEF Max
  <2>3. tc = [table EXCEPT ![i].size = n]
    BY <2>1 DEF Tables
  <2> HIDE DEF n, tc
  <2> QED BY <1>3, <2>2, <2>3, SizeDone
<1>4. CASE a = full \/ a = Answer(<<"ENOENT">>, table)
  BY <1>4, RefusedOnFile
<1> HIDE DEF full, done
<1> QED BY <1>2, <1>3, <1>4

LEMMA TruncateDoes ==
  ASSUME table \in Tables, NEW k \in Calls, k.op = "truncate", NEW a, a = OsadaTruncate(k.path, k.size)
  PROVE  /\ a.server = "up" => Honest(k, a)
         /\ DirAt(table, k.path) = NONE => Harmless(a)
<1> DEFINE p == k.path
           i == NodeAt(table, p)
           full == Answer(<<"ENOSPC">>, table)
           done == Answer(<<"SEXE">>, [table EXCEPT ![i].size = k.size])
           then == IF k.size > 0 /\ NoRoom(table, i) THEN full ELSE done
<1>1. /\ OsadaTruncate(p, k.size) = OnFile(p, then)
      /\ k.size \in Sizes
  BY CallFacts DEF OsadaTruncate, Sized
<1>2. \/ DirAt(table, p) # NONE /\ a.server # "up"
      \/ DirAt(table, p) = NONE /\ i = NONE /\ a = Answer(<<"ENOENT">>, table)
      \/ DirAt(table, p) = NONE /\ i # NONE /\ a = then
  <2> HIDE DEF then, p
  <2>1. a = OnFile(p, then)
    BY <1>1 DEF p
  <2> QED BY <2>1, OnFileIs
<1>3. CASE i # NONE /\ a = done
  <2>1. k.size >= k.size
    BY <1>1 DEF Sizes
  <2> QED BY <1>1, <1>3, <2>1, SizeDone
<1>4. CASE a = full \/ a = Answer(<<"ENOENT">>, table)
  BY <1>4, RefusedOnFile
<1> HIDE DEF full, done
<1> QED BY <1>2, <1>3, <1>4

\* An entry that is removed is one less of its name.
LEMMA RemovalDone ==
  ASSUME table \in Tables, NEW k \in Calls, k.op \in {"unlink", "rmdir"},
         NodeAt(table, k.path) # NONE,
         NEW a, a = Answer(<<"SEXE">>, [table EXCEPT ![NodeAt(table, k.path)] = Deleted])
  PROVE  Honest(k, a) /\ Harmless(a)
<1> DEFINE p == k.path
           tc == [table EXCEPT ![NodeAt(table, p)] = Deleted]
<1>1. p \in Looked
  BY CallFacts DEF Looked
<1>2. Copies(tc, p) = Copies(table, p) - 1 /\ (~Doubled(table) => ~Doubled(tc))
  BY <1>1, RemovedTable
<1>3. a.fields = <<"SEXE">> /\ a.server = "up" /\ a.table = tc
  BY DEF Answer
<1> HIDE DEF tc
<1>4. Done(k, table, tc)
  BY <1>2 DEF Done
<1>5. Outcome(k.op, <<"SEXE">>) = "ok"
  BY DEF Outcome, PkOper, PkUnlink, PkRmdir, Pk
<1> QED BY <1>2, <1>3, <1>4, <1>5 DEF Honest, Harmless

LEMMA UnlinkDoes ==
  ASSUME table \in Tables, NEW k \in Calls, k.op = "unlink", NEW a, a = OsadaUnlink(k.path)
  PROVE  /\ a.server = "up" => Honest(k, a)
         /\ DirAt(table, k.path) = NONE => Harmless(a)
<1> DEFINE p == k.path
           done == Answer(<<"SEXE">>, [table EXCEPT ![NodeAt(table, p)] = Deleted])
<1>1. a = OnFile(p, done)
  BY DEF OsadaUnlink
<1> HIDE DEF done
<1>2. \/ DirAt(table, p) # NONE /\ a.server # "up"
      \/ DirAt(table, p) = NONE /\ NodeAt(table, p) = NONE /\ a = Answer(<<"ENOENT">>, table)
      \/ DirAt(table, p) = NONE /\ NodeAt(table, p) # NONE /\ a = done
  BY <1>1, OnFileIs
<1>3. CASE NodeAt(table, p) # NONE /\ a = done
  BY <1>3, RemovalDone DEF done
<1>4. CASE a = Answer(<<"ENOENT">>, table)
  BY <1>4, RefusedOnFile
<1> QED BY <1>2, <1>3, <1>4

LEMMA RmdirDoes ==
  ASSUME table \in Tables, NEW k \in Calls, k.op = "rmdir", NEW a, a = OsadaRmdir(k.path)
  PROVE  Honest(k, a) /\ Harmless(a)
<1> DEFINE d == DirAt(table, k.path)
<1>1. CASE d = NONE
  <2>1. a = Answer(<<"ENOTDIR">>, table)
    BY <1>1 DEF OsadaRmdir
  <2>2. Outcome("rmdir", <<"ENOTDIR">>) # "ok"
    BY DEF Outcome, PkOper, PkRmdir, Pk
  <2> QED BY <2>1, <2>2 DEF Answer, Honest, Harmless
<1>2. CASE d # NONE
  <2>1. d = NodeAt(table, k.path)
    BY <1>2, DirIsNode
  <2>2. a = Answer(<<"SEXE">>, [table EXCEPT ![NodeAt(table, k.path)] = Deleted])
    BY <1>2, <2>1 DEF OsadaRmdir
  <2> HIDE DEF d
  <2> QED BY <1>2, <2>1, <2>2, RemovalDone
<1> QED BY <1>1, <1>2

\* Reading changes nothing.
LEMMA ReadDoes ==
  ASSUME table \in Tables, NEW k \in Calls, k.op \in {"read", "readdir"},
         NEW a, a = IF k.op = "read" THEN OsadaRead(k.path) ELSE OsadaReaddir(k.path)
  PROVE  /\ Honest(k, a)
         /\ k.op = "read" /\ NodeAt(table, k.path) # NONE /\ table[NodeAt(table, k.path)].size # 0
              => Harmless(a)
         /\ k.op = "read" /\ NodeAt(table, k.path) = NONE => Harmless(a)
         /\ k.op = "readdir" => Harmless(a)
<1>1. a.table = table
  BY DEF OsadaRead, OsadaReaddir, Answer, Broken
<1>2. Done(k, table, table)
  BY DEF Done
<1>3. Honest(k, a)
  BY <1>1, <1>2 DEF Honest
<1>4. k.op = "readdir" => a.server = "up"
  BY DEF OsadaReaddir, Answer
<1>5. /\ k.op = "read" /\ NodeAt(table, k.path) = NONE => a.server = "up"
      /\ k.op = "read" /\ table[NodeAt(table, k.path)].size # 0 => a.server = "up"
  BY DEF OsadaRead, Answer
<1> QED BY <1>1, <1>3, <1>4, <1>5 DEF Harmless

LEMMA RenameDoes ==
  ASSUME table \in Tables, NEW k \in Calls, k.op = "rename", ~IsPrefix(k.path, k.to),
         NEW a, a = OsadaRename(k.path, k.to)
  PROVE  /\ a.server = "up" => Honest(k, a)
         /\ Parent(table, k.to) # NONE /\ DirAt(table, k.to) = NONE => Harmless(a)
<1> DEFINE p == k.path
           t == k.to
           tc == [table EXCEPT ![NodeAt(table, p)].name = Name(t),
                               ![NodeAt(table, p)].parent = Parent(table, t)]
<1>1. p \in Looked /\ t \in Looked
  BY CallFacts DEF Looked
<1>2. \A f : Outcome("rename", f) = CASE f[1] \in {"ENOENT", "ENOSPC"} -> f[1]
                                      [] f[1] = "ENAMETOOLONG" -> "EINVAL"
                                      [] OTHER -> "ok"
  BY DEF Outcome, PkOper, PkRename, Pk
<1>3. /\ Outcome("rename", <<"SEXE">>) = "ok"
      /\ Outcome("rename", <<"ENAMETOOLONG">>) = "EINVAL"
      /\ Outcome("rename", <<"ENOENT">>) = "ENOENT"
  BY <1>2
<1>4. CASE NodeAt(table, p) = NONE
  <2>1. a.fields = <<"ENOENT">> /\ a.table = table /\ a.server = "up"
    BY <1>4 DEF OsadaRename, Answer
  <2> QED BY <1>3, <2>1 DEF Honest, Harmless
<1>5. CASE NodeAt(table, p) # NONE /\ (Parent(table, t) = NONE \/ DirAt(table, t) # NONE)
  <2>1. a.server # "up"
    BY <1>5 DEF OsadaRename, Broken
  <2> QED BY <1>5, <2>1
<1> DEFINE Goes == /\ NodeAt(table, p) # NONE /\ Parent(table, t) # NONE /\ DirAt(table, t) = NONE
<1>6. CASE Goes /\ NodeAt(table, t) # NONE
  <2>1. a.table = table /\ a.server = "up"
    BY <1>6 DEF OsadaRename, Answer
  <2> QED BY <1>6, <2>1 DEF Honest, Harmless, Pretends
<1>7. CASE Goes /\ NodeAt(table, t) = NONE /\ Name(t) \in Long
  <2>1. a.fields = <<"ENAMETOOLONG">> /\ a.table = table /\ a.server = "up"
    BY <1>7 DEF OsadaRename, Answer
  <2> QED BY <1>3, <2>1 DEF Honest, Harmless
<1>8. CASE Goes /\ NodeAt(table, t) = NONE /\ Name(t) \notin Long
  <2>1. a.fields = <<"SEXE">> /\ a.table = tc /\ a.server = "up"
    BY <1>8 DEF OsadaRename, Answer
  <2>2. /\ Copies(tc, t) = Copies(table, t) + 1 /\ Copies(tc, p) = Copies(table, p) - 1
        /\ ~Doubled(table) => ~Doubled(tc)
    BY <1>1, <1>8, RenamedTable
  <2> HIDE DEF tc
  <2>3. Done(k, table, tc)
    BY <2>2 DEF Done
  <2> QED BY <1>3, <2>1, <2>2, <2>3 DEF Honest, Harmless
<1> QED BY <1>4, <1>5, <1>6, <1>7, <1>8

-----------------------------------------------------------------------------
(* What the kernel was told *)

\* The lookups of a call are its paths, each after that of its directory.
LEMMA LookedUp ==
  ASSUME NEW k \in Calls, NEW p, p = k.path \/ (p = k.to /\ k.op = "rename")
  PROVE  \E i \in 1 .. Len(Lookups(k)) :
           /\ Lookups(k)[i] = p
           /\ Len(p) = 2 => i > 1 /\ Inside(k, i - 1) /\ Lookups(k)[i - 1] = <<p[1]>>
           /\ p # k.path => i = Len(Lookups(k))
<1> DEFINE of(q) == IF Len(q) = 2 THEN <<<<q[1]>>, q>> ELSE <<q>>
           L == Lookups(k)
<1>1. ASSUME NEW q \in Paths
      PROVE  /\ of(q) \in Seq(Looked) /\ Len(of(q)) \in {1, 2} /\ of(q)[Len(of(q))] = q
             /\ Len(q) = 2 => Len(of(q)) = 2 /\ of(q)[1] = <<q[1]>>
  <2>1. q \in Looked /\ <<q[1]>> \in Looked
    BY PathFacts DEF Looked
  <2>2. /\ <<q>> \in Seq(Looked) /\ Len(<<q>>) = 1 /\ <<q>>[1] = q
        /\ <<<<q[1]>>, q>> \in Seq(Looked) /\ Len(<<<<q[1]>>, q>>) = 2
        /\ <<<<q[1]>>, q>>[1] = <<q[1]>> /\ <<<<q[1]>>, q>>[2] = q
    BY <2>1
  <2>3. CASE Len(q) = 2
    BY <2>2, <2>3
  <2>4. CASE Len(q) # 2
    BY <2>2, <2>4
  <2> QED BY <2>3, <2>4
<1>2. k.path \in Paths /\ (k.to = NoPath \/ k.to \in Paths) /\ (k.op = "rename" => k.to \in Paths)
  BY CallFacts
<1>3. NoPath \notin Paths
  <2>1. Len(NoPath) = 0
    BY DEF NoPath
  <2> QED BY <2>1, ClientAssumption
<1>4. L = IF k.to = NoPath THEN of(k.path) ELSE of(k.path) \o of(k.to)
  BY DEF Lookups
<1> DEFINE A == of(k.path)
           B == of(k.to)
<1>5. /\ A \in Seq(Looked) /\ Len(A) \in {1, 2} /\ A[Len(A)] = k.path
      /\ Len(k.path) = 2 => Len(A) = 2 /\ A[1] = <<k.path[1]>>
  BY <1>1, <1>2
<1>6. k.to \in Paths => /\ B \in Seq(Looked) /\ Len(B) \in {1, 2} /\ B[Len(B)] = k.to
                        /\ Len(k.to) = 2 => Len(B) = 2 /\ B[1] = <<k.to[1]>>
  BY <1>1
<1> HIDE DEF of, A, B
<1>7. k.to # NoPath => /\ L \in Seq(Looked) /\ Len(L) = Len(A) + Len(B)
                       /\ \A j \in 1 .. Len(A) + Len(B) :
                            L[j] = IF j <= Len(A) THEN A[j] ELSE B[j - Len(A)]
  <2> SUFFICES ASSUME k.to # NoPath
               PROVE  /\ L \in Seq(Looked) /\ Len(L) = Len(A) + Len(B)
                      /\ \A j \in 1 .. Len(A) + Len(B) :
                           L[j] = IF j <= Len(A) THEN A[j] ELSE B[j - Len(A)]
    OBVIOUS
  <2>1. L = A \o B /\ A \in Seq(Looked) /\ B \in Seq(Looked)
    BY <1>2, <1>4, <1>5, <1>6 DEF A, B
  <2> HIDE DEF L
  <2> QED BY <2>1, ConcatProperties
<1>8. k.to = NoPath => L = A
  BY <1>4 DEF A
<1> HIDE DEF L
<1>9. ASSUME NEW i \in 1 .. Len(L), L[i] = p, i > 1, L[i - 1] = <<p[1]>>, Len(p) = 2, Len(L) \in Nat
      PROVE  Inside(k, i - 1)
  BY <1>9 DEF Inside, L
<1>10. Len(L) \in Nat
  BY <1>5, <1>7, <1>8
<1> DEFINE n == Len(A)
           m == Len(B)
<1>11. CASE p = k.path
  <2>1. n \in {1, 2} /\ n \in 1 .. Len(L) /\ \A j \in 1 .. n : L[j] = A[j]
    <3>1. CASE k.to = NoPath
      <4>1. L = A /\ n \in {1, 2} /\ n = Len(L)
        BY <1>5, <1>8, <3>1
      <4> QED BY ONLY <4>1
    <3>2. CASE k.to # NoPath
      <4>1. n \in {1, 2} /\ m \in {1, 2}
        BY <1>2, <1>5, <1>6, <3>2
      <4> HIDE DEF n, m
      <4>2. n \in 1 .. n + m /\ \A j \in 1 .. n : j \in 1 .. n + m /\ j <= n
        BY <4>1
      <4> QED BY <1>7, <3>2, <4>1, <4>2 DEF n, m
    <3> QED BY <3>1, <3>2
  <2>2. L[n] = p /\ (Len(p) = 2 => n = 2 /\ L[1] = <<p[1]>>)
    BY <1>5, <1>11, <2>1
  <2> HIDE DEF n
  <2>3. Len(p) = 2 => n > 1 /\ L[n - 1] = <<p[1]>>
    BY <2>2
  <2> QED BY <1>9, <1>10, <1>11, <2>1, <2>2, <2>3 DEF L
<1>12. CASE p = k.to /\ k.op = "rename"
  <2>1. k.to \in Paths /\ k.to # NoPath
    BY <1>2, <1>3, <1>12
  <2>2. n \in {1, 2} /\ m \in {1, 2} /\ Len(L) = n + m
    BY <1>5, <1>6, <1>7, <2>1
  <2>3. B[m] = p /\ (Len(p) = 2 => m = 2 /\ B[1] = <<p[1]>>)
    BY <1>6, <1>12, <2>1
  <2>4. \A j \in 1 .. n + m : L[j] = IF j <= n THEN A[j] ELSE B[j - n]
    BY <1>7, <2>1
  <2> HIDE DEF n, m
  <2>5. L[n + m] = B[m] /\ (m = 2 => L[n + m - 1] = B[1])
    BY <2>2, <2>4
  <2>6. Len(p) = 2 => Len(L) > 1 /\ L[Len(L) - 1] = <<p[1]>>
    BY <2>2, <2>3, <2>5
  <2>7. Len(L) \in 1 .. Len(L) /\ L[Len(L)] = p
    BY <2>2, <2>3, <2>5
  <2> QED BY <1>9, <1>10, <2>6, <2>7 DEF L
<1> QED BY <1>11, <1>12

LEMMA KindFacts ==
  ASSUME table \in Tables, NEW p
  PROVE  /\ Kind(NodeAt(table, p)) = "dir" <=> DirAt(table, p) # NONE
         /\ Kind(NodeAt(table, p)) = "none" <=> NodeAt(table, p) = NONE
         /\ Kind(NodeAt(table, p)) = "data" =>
              NodeAt(table, p) # NONE /\ table[NodeAt(table, p)].size # 0
BY DirIsNode DEF Kind

\* What the kernel lets go on, for what it was told.
LEMMA GoesOn ==
  ASSUME NEW k \in Calls, NEW told, Refusal(k, told) = "go"
  PROVE  /\ k.op \in {"mkdir", "mknod"} => Seen(k, told, k.path) = "none"
         /\ k.op \in {"unlink", "write", "truncate"} => Seen(k, told, k.path) # "dir"
<1> DEFINE from == Seen(k, told, k.path)
<1> HIDE DEF from
<1>1. k.op \in {"mkdir", "mknod"} => Refusal(k, told) = IF from = "none" THEN "go" ELSE "EEXIST"
  BY DEF Refusal, from
<1>2. k.op \in {"unlink", "write", "truncate"} =>
        Refusal(k, told) = IF from = "none" THEN "ENOENT" ELSE IF from = "dir" THEN "EISDIR" ELSE "go"
  <2>1. k.op = "unlink" => Refusal(k, told) = IF from = "none" THEN "ENOENT" ELSE IF from = "dir" THEN "EISDIR" ELSE "go"
    BY DEF Refusal, from
  <2>2. k.op = "write" => Refusal(k, told) = IF from = "none" THEN "ENOENT" ELSE IF from = "dir" THEN "EISDIR" ELSE "go"
    BY DEF Refusal, from
  <2>3. k.op = "truncate" => Refusal(k, told) = IF from = "none" THEN "ENOENT" ELSE IF from = "dir" THEN "EISDIR" ELSE "go"
    BY DEF Refusal, from
  <2> QED BY <2>1, <2>2, <2>3
<1> QED BY <1>1, <1>2 DEF from

\* As long as nothing is stale, the paths of a call are what the kernel knows,
\* and their directories exist.
LEMMA FreshPath ==
  ASSUME IInv, NEW c \in Clients, call[c] # NONE, ~Looking(c), ~Stale(c),
         NEW p, p = call[c].path \/ (p = call[c].to /\ call[c].op = "rename")
  PROVE  /\ Kind(NodeAt(table, p)) = Seen(call[c], seen[c], p)
         /\ Parent(table, p) # NONE
         /\ p # call[c].path => Kind(NodeAt(table, p)) = Last(seen[c])
<1> DEFINE k == call[c]
           L == Lookups(k)
           told == seen[c]
<1>1. /\ k \in Calls /\ told \in Seq(Kinds) /\ table \in Tables
      /\ Cleared(c)
  BY DEF IInv, TypeOK, Tables
<1>2. L \in Seq(Looked) /\ Len(L) \in Nat
  BY <1>1, LookupFacts
<1>3. Len(told) = Len(L) /\ DOMAIN told = 1 .. Len(L)
  <2>1. Len(told) \in Nat /\ DOMAIN told = 1 .. Len(told)
    BY <1>1
  <2>2. Len(told) <= Len(L)
    BY <1>1 DEF Cleared
  <2>3. ~(Len(told) < Len(L))
    BY DEF Looking
  <2> QED BY <1>2, <2>1, <2>2, <2>3
<1>4. \A i \in 1 .. Len(L) : Kind(NodeAt(table, L[i])) = told[i]
  BY <1>3 DEF Stale
<1>5. \A i \in 1 .. Len(L) : Inside(k, i) => told[i] = "dir"
  BY <1>1, <1>3 DEF Cleared
<1>6. PICK i \in 1 .. Len(L) :
        /\ L[i] = p
        /\ Len(p) = 2 => i > 1 /\ Inside(k, i - 1) /\ L[i - 1] = <<p[1]>>
        /\ p # k.path => i = Len(L)
  BY <1>1, LookedUp
<1> HIDE DEF L, told
<1>7. Kind(NodeAt(table, p)) = Seen(k, told, p)
  <2> DEFINE j == CHOOSE j \in DOMAIN told : L[j] = p
  <2>1. Seen(k, told, p) = told[j]
    BY DEF Seen, L
  <2>2. j \in DOMAIN told /\ L[j] = p
    BY <1>3, <1>6
  <2> HIDE DEF j
  <2> QED BY <1>3, <1>4, <2>1, <2>2
<1>8. p # k.path => Kind(NodeAt(table, p)) = Last(told)
  BY <1>3, <1>4, <1>6 DEF Last
<1>9. Parent(table, p) # NONE
  <2>1. p \in Looked
    BY <1>1, CallFacts DEF Looked
  <2>2. CASE Len(p) = 1
    BY <1>1, <2>1, <2>2, ParentFacts
  <2>3. CASE Len(p) = 2
    <3> DEFINE q == <<p[1]>>
    <3>1. i - 1 \in 1 .. Len(L) /\ Inside(k, i - 1) /\ L[i - 1] = q
      BY <1>2, <1>6, <2>3
    <3>2. Kind(NodeAt(table, q)) = "dir"
      BY <1>4, <1>5, <3>1
    <3>3. DirAt(table, q) # NONE
      BY <1>1, <3>2, KindFacts
    <3>4. Len(q) = 1 /\ Name(q) = p[1]
      BY DEF Name, Last
    <3>5. DirAt(table, q) = Dir(table, p[1], ROOT)
      BY <3>3, <3>4 DEF DirAt, Parent
    <3> QED BY <2>3, <3>3, <3>5 DEF Parent
  <2> QED BY <2>1, <2>2, <2>3, PathFacts
<1> QED BY <1>7, <1>8, <1>9 DEF told

\* The handlers that answer a request do what it asks for, or nothing.
LEMMA ServeIsHonest ==
  ASSUME IInv, NEW c \in Clients, Serve(c), server' = "up", doing[c] = call[c].op
  PROVE  LET r == Outcome(doing[c], reply'[c]) IN
         /\ r # "ok" => table' = table
         /\ r = "ok" /\ ~Pretends(call[c]) => Done(call[c], table, table')
<1> DEFINE k == call[c]
           a == Handle(c)
<1>1. /\ request[c] # NONE /\ table' = a.table /\ server' = a.server
      /\ reply' = [reply EXCEPT ![c] = @ \o a.fields]
  BY DEF Serve
<1>2. TypeOK /\ Sync(c)
  BY IInvIsSync
<1>3. doing[c] # NONE /\ reply[c] = <<>> /\ k \in Calls /\ table \in Tables
  BY <1>1, <1>2 DEF Sync, InOrder, TypeOK, Tables
<1>4. /\ k.op \in {"mkdir", "readdir", "mknod", "write", "read", "truncate", "unlink", "rmdir", "rename"}
      /\ request[c].op = k.op /\ request[c].path = k.path
      /\ k.op = "rename" => ~IsPrefix(k.path, k.to)
  <2>1. k.op \in {"mkdir", "readdir", "mknod", "write", "read", "truncate", "unlink", "rmdir", "rename"}
    BY <1>3, CallFacts DEF Plain, Sized
  <2> QED BY <1>1, <1>2, <1>3, <2>1 DEF Sync, InOrder, Cleared
<1>5. reply'[c] = a.fields
  <2>1. Fits(doing[c], a)
    BY <1>1, HandleFits
  <2>2. reply[c] \o a.fields = a.fields
    BY <1>3, <2>1, ConcatEmptySeq DEF Fits
  <2> QED BY <1>1, <1>2, <2>2 DEF TypeOK
<1>6. Honest(k, a)
  <2>1. a.server = "up"
    BY <1>1
  <2>2. CASE k.op = "mkdir"
    BY <1>3, <1>4, <2>1, <2>2, MkdirDoes DEF Handle
  <2>3. CASE k.op = "mknod"
    BY <1>3, <1>4, <2>1, <2>3, MknodDoes DEF Handle
  <2>4. CASE k.op = "write"
    BY <1>3, <1>4, <2>1, <2>4, WriteDoes DEF Handle
  <2>5. CASE k.op = "truncate"
    BY <1>3, <1>4, <2>1, <2>5, TruncateDoes DEF Handle
  <2>6. CASE k.op = "unlink"
    BY <1>3, <1>4, <2>1, <2>6, UnlinkDoes DEF Handle
  <2>7. CASE k.op = "rmdir"
    BY <1>3, <1>4, <2>7, RmdirDoes DEF Handle
  <2>8. CASE k.op \in {"read", "readdir"}
    BY <1>3, <1>4, <2>8, ReadDoes DEF Handle
  <2>9. CASE k.op = "rename"
    BY <1>3, <1>4, <2>1, <2>9, RenameDoes DEF Handle
  <2> QED BY <1>4, <2>2, <2>3, <2>4, <2>5, <2>6, <2>7, <2>8, <2>9
<1> HIDE DEF a
<1> QED BY <1>1, <1>5, <1>6 DEF Honest

\* What breaks the server, or doubles a name, is old news.
LEMMA ServeIsHarmless ==
  ASSUME IInv, NEW c \in Clients, Serve(c), ~Stale(c),
         ~(call[c].op = "rename" /\ Last(seen[c]) = "dir")
  PROVE  server' = "up" /\ (Doubled(table') => Doubled(table))
<1> DEFINE k == call[c]
           a == Handle(c)
           p == k.path
<1>1. request[c] # NONE /\ table' = a.table /\ server' = a.server
  BY DEF Serve
<1>2. TypeOK /\ Sync(c)
  BY IInvIsSync
<1>3. /\ doing[c] # NONE /\ k \in Calls /\ table \in Tables /\ request[c].op = doing[c]
      /\ doing[c] \in {"getattr", "open"} \/ doing[c] = k.op
  BY <1>1, <1>2 DEF Sync, InOrder, TypeOK, Tables
<1>4. k.op \in {"mkdir", "readdir", "mknod", "write", "read", "truncate", "unlink", "rmdir", "rename"}
  BY <1>3, CallFacts DEF Plain, Sized
<1>5. CASE doing[c] \in {"getattr", "open"}
  <2>1. a = OsadaGetattr(request[c].path)
    BY <1>3, <1>5 DEF Handle
  <2>2. a.table = table /\ a.server = "up"
    BY <2>1 DEF OsadaGetattr, Answer
  <2> QED BY <1>1, <2>2
<1>6. CASE doing[c] = k.op
  <2>1. /\ request[c].op = k.op /\ request[c].path = p /\ ~Looking(c)
        /\ k.op = "rename" => ~IsPrefix(p, k.to)
        /\ Refusal(k, seen[c]) = "go"
        /\ k.op = "read" => opened[c]
    BY <1>1, <1>2, <1>3, <1>4, <1>6 DEF Sync, InOrder, Cleared
  <2>2. /\ Kind(NodeAt(table, p)) = Seen(k, seen[c], p) /\ Parent(table, p) # NONE
        /\ k.op \in {"mkdir", "mknod"} => NodeAt(table, p) = NONE
        /\ k.op \in {"unlink", "write", "truncate"} => DirAt(table, p) = NONE
    <3>1. Kind(NodeAt(table, p)) = Seen(k, seen[c], p) /\ Parent(table, p) # NONE
      BY <1>2, <1>3, <2>1, FreshPath DEF Sync, InOrder
    <3> QED BY <1>3, <2>1, <3>1, GoesOn, KindFacts
  <2>3. Harmless(a)
    <3>1. CASE k.op = "mkdir"
      BY <1>3, <2>1, <2>2, <3>1, MkdirDoes DEF Handle
    <3>2. CASE k.op = "mknod"
      BY <1>3, <2>1, <2>2, <3>2, MknodDoes DEF Handle
    <3>3. CASE k.op = "write"
      BY <1>3, <2>1, <2>2, <3>3, WriteDoes DEF Handle
    <3>4. CASE k.op = "truncate"
      BY <1>3, <2>1, <2>2, <3>4, TruncateDoes DEF Handle
    <3>5. CASE k.op = "unlink"
      BY <1>3, <2>1, <2>2, <3>5, UnlinkDoes DEF Handle
    <3>6. CASE k.op = "rmdir"
      BY <1>3, <2>1, <3>6, RmdirDoes DEF Handle
    <3>7. CASE k.op = "readdir"
      BY <1>3, <2>1, <3>7, ReadDoes DEF Handle
    <3>8. CASE k.op = "read"
      <4>1. Kind(NodeAt(table, p)) = "data"
        BY <2>1, <3>8 DEF Stale
      <4>2. NodeAt(table, p) # NONE /\ table[NodeAt(table, p)].size # 0
        BY <1>3, <4>1, KindFacts
      <4> QED BY <1>3, <2>1, <3>8, <4>2, ReadDoes DEF Handle
    <3>9. CASE k.op = "rename"
      <4>1. k.to # p
        <5>1. p \in Seq(Names)
          BY <1>3, CallFacts, PathFacts DEF Looked
        <5>2. IsPrefix(p, p)
          BY <5>1, SubSeqProperties DEF IsPrefix
        <5> QED BY <2>1, <3>9, <5>2
      <4>2. Parent(table, k.to) # NONE /\ Kind(NodeAt(table, k.to)) = Last(seen[c])
        BY <1>2, <1>3, <2>1, <3>9, <4>1, FreshPath DEF Sync, InOrder
      <4>3. DirAt(table, k.to) = NONE
        BY <1>3, <3>9, <4>2, KindFacts
      <4> QED BY <1>3, <2>1, <3>9, <4>2, <4>3, RenameDoes DEF Handle
    <3> QED BY <1>4, <3>1, <3>2, <3>3, <3>4, <3>5, <3>6, <3>7, <3>8, <3>9
  <2> HIDE DEF a
  <2> QED BY <1>1, <2>3 DEF Harmless
<1> QED BY <1>3, <1>5, <1>6

-----------------------------------------------------------------------------
(* The theorems *)

\* The inductive invariant holds of every behaviour.
THEOREM InvariantHolds == Spec => []IInv
BY InitIsSync, StepIsSync, PTL DEF Spec

\* What the socket carries, the kernel knows and the server keeps is of its type:
\* in particular the file table is never left with an entry of no kind of file.
THEOREM ClientTypes == Spec => []TypeOK
<1>1. IInv => TypeOK
  BY DEF IInv
<1> QED BY <1>1, InvariantHolds, PTL

\* Client and server stay in step: no callback (pokedex-client.c) leaves part of
\* an answer of a handler (pokedex-server.c) unread on the socket, and none waits
\* for more of it than the handler sends, for any paths, names and volume.
THEOREM ClientInStep == Spec => []InStep
<1>1. IInv => InStep
  BY DEF IInv
<1> QED BY <1>1, InvariantHolds, PTL

\* What a program is told is what happened (Outcome of pk_mkdir ... pk_rename
\* against the handlers of pokedex-server.c), for any paths, names and volume:
\* after an error the table is as it was, and a success was made, but for a
\* mkdir in a full table and a rename onto a file.
THEOREM ResultsAreTrue == Spec => ResultIsTrue
<1> DEFINE A == \A c \in Clients :
                  Serve(c) /\ server' = "up" /\ doing[c] = call[c].op =>
                    LET r == Outcome(doing[c], reply'[c]) IN
                    /\ r # "ok" => table' = table
                    /\ r = "ok" /\ ~Pretends(call[c]) => Done(call[c], table, table')
<1>1. IInv => A
  BY ServeIsHonest
<1>2. Spec => [][A]_vars
  <2> HIDE DEF A
  <2> QED BY <1>1, InvariantHolds, PTL
<1> QED BY <1>2 DEF ResultIsTrue

\* With any number of mounts, paths and calls, a handler ends in undefined
\* behaviour, keeps a lock or makes a second entry of a name only for a client
\* that another has made act on old news, or to rename one directory onto another.
THEOREM HarmTakesRaces == Spec => OnlyRacesDoHarm
<1> DEFINE A == \A c \in Clients :
                  Serve(c) /\ (server' # "up" \/ (Doubled(table') /\ ~Doubled(table))) =>
                    Stale(c) \/ (call[c].op = "rename" /\ Last(seen[c]) = "dir")
<1>1. IInv => A
  BY ServeIsHarmless
<1>2. Spec => [][A]_vars
  <2> HIDE DEF A
  <2> QED BY <1>1, InvariantHolds, PTL
<1> QED BY <1>2 DEF OnlyRacesDoHarm
=============================================================================
