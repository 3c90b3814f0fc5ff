------------------------------ MODULE OsadaTable ------------------------------
(***************************************************************************)
(* The file table of the OSADA volume served by pokedex-server: 2048       *)
(* entries, each with a reader/writer lock of its own, that the threads of *)
(* the clients search entry by entry to follow a path, to find a name, to  *)
(* claim a free entry or to list a directory.  What write, truncate, read  *)
(* and unlink do to the blocks of the entry they found is OsadaBlocks.     *)
(*                                                                         *)
(* A path is taken apart by strtok, which keeps the rest of the string it  *)
(* was last given in one variable of the process: all threads share it.    *)
(*                                                                         *)
(* A step is one entry visited by a search (locked, looked at, and kept or *)
(* unlocked), one call of strtok, or the change of an entry that is held.  *)
(***************************************************************************)
EXTENDS Integers, Sequences

CONSTANTS
  Clients,      \* the connected clients, one server thread each
  FileBlocks,   \* FILE_BLOCKS_MOUNT: number of entries of the table
  Names,        \* the names a path is made of
  LongNames,    \* those longer than OSADA_FILENAME_LENGTH
  Volumes,      \* the tables a mounted volume may have
  Requests,     \* the requests a client may send: [op, path, dest]
  MaxRequests,  \* bound on the requests each client sends
  NoClient,     \* "nobody holds this lock"
  NULL          \* strtok's answer when the string is exhausted

Entries == 0 .. FileBlocks - 1
ROOT    == -1          \* 0xffff: parent of the top-level entries, never locked
ENOSPC  == -5          \* -OSADA_ENOSPC, the position create_dir answers
NoEntry == -2

States     == {"DELETED", "REGULAR", "DIRECTORY"}
Tables     == [state : [Entries -> States], fname : [Entries -> Names],
               parent : [Entries -> Entries \cup {ROOT}]]
Operations == {"mkdir", "mknod", "readdir", "getattr", "write", "unlink", "rmdir", "rename"}
Paths      == Seq(Names)

ASSUME TableAssumption ==
  /\ FileBlocks \in Nat \ {0}
  /\ LongNames \subseteq Names
  /\ Volumes \subseteq Tables
  /\ Requests \subseteq [op : Operations, path : Paths, dest : Paths]
  /\ MaxRequests \in Nat
ASSUME RequestsAssumption ==
  \A r \in Requests :
    /\ r.op # "readdir" => r.path # <<>>
    /\ r.op = "rename" => r.dest # <<>>
ASSUME NullAssumption == NoClient \notin Clients /\ NULL \notin Names

VARIABLES
  state,    \* osada_file.state of each entry
  fname,    \* osada_file.fname
  parent,   \* osada_file.parent_directory
  wlock,    \* the client whose thread write-holds the lock of each entry
  rlock,    \* how often each client's thread read-holds it
  saved,    \* what strtok has kept of the last string it was given
  pc,       \* where each thread is
  req,      \* the request it executes
  node,     \* the token it looks for (node, dir, rfile)
  next_dir, \* the token after it, in rmdir
  pb,       \* pb_pos: the directory it is in
  pos,      \* file_block_number: the entry a search visits, or the one it found
  from,     \* node_pos_from, once rename has found it
  listed,   \* locked_blocks_list of readdir
  answer,   \* the response code
  served    \* requests executed, to bound them

table  == <<state, fname, parent>>
locks  == <<wlock, rlock>>
walk   == <<node, next_dir, pb, from>>
vars   == <<table, locks, saved, pc, req, walk, pos, listed, answer, served>>

Answers  == {"none", "ENOENT", "ENOTDIR", "ENOSPC", "ENAMETOOLONG", "ISREG",
             "ISDIR", "SEXE", "EMPTYDIR", "NOTEMPTYDIR"}
Searches == {"search_dir", "search_node"}
Steps    == Searches \cup
            {"idle", "look", "missed", "next", "to", "claim", "fill", "held",
             "move", "onto", "list", "reply", "silent", "wild"}
NoRequest == [op |-> "none", path |-> <<>>, dest |-> <<>>]

TypeOK ==
  /\ state \in [Entries -> States]
  /\ fname \in [Entries -> Names]
  /\ parent \in [Entries -> Entries \cup {ROOT, ENOSPC}]
  /\ wlock \in [Entries -> Clients \cup {NoClient}]
  /\ rlock \in [Entries -> [Clients -> Nat]]
  /\ saved \in Paths
  /\ pc \in [Clients -> Steps]
  /\ req \in [Clients -> Requests \cup {NoRequest}]
  /\ node \in [Clients -> Names \cup {NULL}]
  /\ next_dir \in [Clients -> Names \cup {NULL}]
  /\ pb \in [Clients -> Entries \cup {ROOT, ENOSPC}]
  /\ pos \in [Clients -> 0 .. FileBlocks]
  /\ from \in [Clients -> Entries \cup {NoEntry}]
  /\ listed \in [Clients -> SUBSET Entries]
  /\ answer \in [Clients -> Answers]
  /\ served \in [Clients -> Nat]

Init ==
  /\ \E v \in Volumes : state = v.state /\ fname = v.fname /\ parent = v.parent
  /\ wlock = [p \in Entries |-> NoClient]
  /\ rlock = [p \in Entries |-> [c \in Clients |-> 0]]
  /\ saved = <<>>
  /\ pc = [c \in Clients |-> "idle"]
  /\ req = [c \in Clients |-> NoRequest]
  /\ node = [c \in Clients |-> NULL]
  /\ next_dir = [c \in Clients |-> NULL]
  /\ pb = [c \in Clients |-> ROOT]
  /\ pos = [c \in Clients |-> 0]
  /\ from = [c \in Clients |-> NoEntry]
  /\ listed = [c \in Clients |-> {}]
  /\ answer = [c \in Clients |-> "none"]
  /\ served = [c \in Clients |-> 0]

-----------------------------------------------------------------------------
(* Locks *)

\* The locks as a value, so that a step can take one and give up another.
Now == [w |-> wlock, r |-> rlock]
Become(L) == wlock' = L.w /\ rlock' = L.r

CanLockPastReaders(c, p, type) ==   \* mutant of CanLock: a writer waits for writers only
  wlock[p] \in {c, NoClient}

\* pthread_rwlock_rdlock and wrlock as glibc grants them by default: a reader
\* waits for a writer only; a thread that asks for what it write-holds gets
\* EDEADLK at once, which semaphore() ignores.
CanLock(c, p, type) ==
  \/ wlock[p] = c
  \/ /\ wlock[p] = NoClient
     /\ type = "write" => \A d \in Clients : rlock[p][d] = 0
Locked(L, c, p, type) ==
  IF L.w[p] = c THEN L
  ELSE IF type = "write" THEN [L EXCEPT !.w[p] = c]
  ELSE [L EXCEPT !.r[p][c] = @ + 1]
Unlocked(L, c, p) ==
  IF p = ROOT THEN L
  ELSE IF L.w[p] = c THEN [L EXCEPT !.w[p] = NoClient]
  ELSE [L EXCEPT !.r[p][c] = @ - 1]
Holds(c, p) == p = ROOT \/ (p \in Entries /\ (wlock[p] = c \/ rlock[p][c] > 0))

Goto(c, step) == pc' = [pc EXCEPT ![c] = step]
Set(v, c, x) == [v EXCEPT ![c] = x]

\* The thread gives up pb_pos and goes on.  To unlock what is not locked is
\* undefined: the model does not follow the program any further.
Leave(c, L, step) ==
  IF Holds(c, pb[c])
  THEN Become(Unlocked(L, c, pb[c])) /\ Goto(c, step)
  ELSE UNCHANGED locks /\ Goto(c, "wild")

-----------------------------------------------------------------------------
(* Requests, and the tokens of their paths *)

Token == IF saved = <<>> THEN NULL ELSE Head(saved)     \* strtok(NULL, "/")
Rest  == IF saved = <<>> THEN <<>> ELSE Tail(saved)

\* process_request hands the next request of a client to its handler.
Start(c) ==
  \E r \in Requests :
    /\ pc[c] = "idle" /\ served[c] < MaxRequests
    /\ req' = Set(req, c, r)
    /\ IF r.path = <<>>
       THEN Goto(c, "list") /\ UNCHANGED <<node, saved>>
       ELSE /\ node' = Set(node, c, Head(r.path))
            /\ saved' = Tail(r.path)
            /\ Goto(c, CASE r.op = "rmdir" -> "look"
                         [] r.op = "getattr" -> "search_node"
                         [] OTHER -> "search_dir")
    /\ UNCHANGED <<table, locks, next_dir, pb, from, pos, listed, answer, served>>

\* The response is written and the thread waits for the next request.
Reply(c) ==
  /\ pc[c] = "reply"
  /\ Goto(c, "idle")
  /\ served' = Set(served, c, served[c] + 1)
  /\ req' = Set(req, c, NoRequest)
  /\ node' = Set(node, c, NULL)
  /\ next_dir' = Set(next_dir, c, NULL)
  /\ pb' = Set(pb, c, ROOT)
  /\ from' = Set(from, c, NoEntry)
  /\ pos' = Set(pos, c, 0)
  /\ listed' = Set(listed, c, {})
  /\ answer' = Set(answer, c, "none")
  /\ UNCHANGED <<table, locks, saved>>

\* A directory was entered: the next token, or the end of the path, where
\* mkdir and mknod keep the lock of the directory that was there already,
\* write and unlink have no file_pos, and rename to a directory just returns.
Next_(c) ==
  LET op == req[c].op IN
  /\ pc[c] = "next"
  /\ saved' = Rest
  /\ node' = Set(node, c, Token)
  /\ \/ /\ Token # NULL
        /\ Goto(c, IF op = "getattr" THEN "search_node" ELSE "search_dir")
        /\ pos' = Set(pos, c, 0)
        /\ UNCHANGED <<from, answer>>
     \/ /\ Token = NULL /\ op \in {"mkdir", "mknod"}
        /\ Goto(c, "reply")
        /\ answer' = Set(answer, c, IF op = "mkdir" THEN "ISDIR" ELSE "ISREG")
        /\ UNCHANGED <<from, pos>>
     \/ /\ Token = NULL /\ op \in {"write", "unlink"}
        /\ Goto(c, "wild")
        /\ UNCHANGED <<from, pos, answer>>
     \/ /\ Token = NULL /\ op = "getattr"
        /\ Goto(c, "held")
        /\ pos' = Set(pos, c, pb[c])
        /\ UNCHANGED <<from, answer>>
     \/ /\ Token = NULL /\ op = "readdir"
        /\ Goto(c, "list")
        /\ pos' = Set(pos, c, 0)
        /\ UNCHANGED <<from, answer>>
     \/ /\ Token = NULL /\ op = "rename" /\ from[c] = NoEntry
        /\ Goto(c, "to")
        /\ from' = Set(from, c, pb[c])
        /\ UNCHANGED <<pos, answer>>
     \/ /\ Token = NULL /\ op = "rename" /\ from[c] # NoEntry
        /\ Goto(c, "silent")
        /\ UNCHANGED <<from, pos, answer>>
  /\ UNCHANGED <<table, locks, req, next_dir, pb, listed, served>>

\* osada_rmdir looks one token ahead, to write-lock the last directory.
Look(c) ==
  /\ pc[c] = "look"
  /\ next_dir' = Set(next_dir, c, Token)
  /\ saved' = Rest
  /\ pos' = Set(pos, c, 0)
  /\ Goto(c, "search_dir")
  /\ UNCHANGED <<table, locks, req, node, pb, from, listed, answer, served>>

\* osada_rename starts on its second path.
To(c) ==
  /\ pc[c] = "to"
  /\ node' = Set(node, c, Head(req[c].dest))
  /\ saved' = Tail(req[c].dest)
  /\ pb' = Set(pb, c, ROOT)
  /\ pos' = Set(pos, c, 0)
  /\ Goto(c, "search_dir")
  /\ UNCHANGED <<table, locks, req, next_dir, from, listed, answer, served>>

-----------------------------------------------------------------------------
(* Searches *)

Matches(c, p) ==
  state[p] # "DELETED" /\ fname[p] = node[c] /\ parent[p] = pb[c]

LockTypeToRead(c) == "read"   \* mutant of LockType: every search takes read locks

LockType(c) ==
  LET op == req[c].op IN
  IF \/ pc[c] = "search_dir" /\ op = "rmdir" /\ next_dir[c] = NULL
     \/ pc[c] = "search_node" /\ op \in {"write", "unlink"}
     \/ pc[c] = "search_node" /\ op = "rename" /\ from[c] = NoEntry
     \/ pc[c] = "claim"
  THEN "write" ELSE "read"

\* What the loop at pc[c] stops at: a name, a free entry, or a child.
Wanted(c, p) ==
  CASE pc[c] \in Searches -> Matches(c, p)
    [] pc[c] = "claim" -> state[p] = "DELETED"
    [] pc[c] = "list" -> state[p] # "DELETED" /\ parent[p] = pb[c]

\* The loop is at an entry it may look at, as soon as it has the lock.
Visits(c) ==
  /\ pos[c] < FileBlocks
  /\ pos[c] \notin {pb[c], from[c]}
  /\ CanLock(c, pos[c], LockType(c))
Taken(c) == Locked(Now, c, pos[c], LockType(c))

\* pb_pos and ignore_pos are passed by without locking them.
Skip(c) ==
  /\ pc[c] \in Searches \cup {"claim", "list"}
  /\ pos[c] \in {pb[c], from[c]}
  /\ pos' = Set(pos, c, pos[c] + 1)
  /\ UNCHANGED <<table, locks, saved, pc, req, walk, listed, answer, served>>

\* Locked, not wanted, unlocked.
PassBy(c) ==
  /\ pc[c] \in Searches \cup {"claim", "list"}
  /\ Visits(c) /\ ~Wanted(c, pos[c])
  /\ Become(Unlocked(Taken(c), c, pos[c]))
  /\ pos' = Set(pos, c, pos[c] + 1)
  /\ UNCHANGED <<table, saved, pc, req, walk, listed, answer, served>>

EnterUnlocked(c) ==   \* mutant of Enter: the directory does not stay locked
  LET op == req[c].op IN
  /\ pc[c] = "search_dir"
  /\ Visits(c) /\ Matches(c, pos[c]) /\ state[pos[c]] = "DIRECTORY"
  /\ Leave(c, Now, IF op # "rmdir" THEN "next"
                   ELSE IF next_dir[c] = NULL THEN "held" ELSE "look")
  /\ pb' = Set(pb, c, pos[c])
  /\ node' = IF op = "rmdir" THEN Set(node, c, next_dir[c]) ELSE node
  /\ UNCHANGED <<table, saved, req, next_dir, from, pos, listed, answer, served>>

\* search_dir finds a directory: it stays locked and becomes pb_pos.
Enter(c) ==
  LET op == req[c].op IN
  /\ pc[c] = "search_dir"
  /\ Visits(c) /\ Matches(c, pos[c]) /\ state[pos[c]] = "DIRECTORY"
  /\ Leave(c, Taken(c), IF op # "rmdir" THEN "next"
                        ELSE IF next_dir[c] = NULL THEN "held" ELSE "look")
  /\ pb' = Set(pb, c, pos[c])
  /\ node' = IF op = "rmdir" THEN Set(node, c, next_dir[c]) ELSE node
  /\ UNCHANGED <<table, saved, req, next_dir, from, pos, listed, answer, served>>

NotADirectoryLocked(c) ==   \* mutant of NotADirectory: the file stays locked
  /\ pc[c] = "search_dir"
  /\ \/ /\ Visits(c) /\ Matches(c, pos[c]) /\ state[pos[c]] = "REGULAR"
        /\ Become(Taken(c))
     \/ pos[c] = FileBlocks /\ UNCHANGED locks
  /\ Goto(c, "missed")
  /\ UNCHANGED <<table, saved, req, walk, pos, listed, answer, served>>

\* search_dir finds a regular file, which it unlocks, or nothing.
NotADirectory(c) ==
  /\ pc[c] = "search_dir"
  /\ \/ /\ Visits(c) /\ Matches(c, pos[c]) /\ state[pos[c]] = "REGULAR"
        /\ Become(Unlocked(Taken(c), c, pos[c]))
     \/ pos[c] = FileBlocks /\ UNCHANGED locks
  /\ Goto(c, "missed")
  /\ UNCHANGED <<table, saved, req, walk, pos, listed, answer, served>>

\* search_node finds the name: it stays locked.
FoundNode(c) ==
  LET op == req[c].op IN
  /\ pc[c] = "search_node"
  /\ Visits(c) /\ Matches(c, pos[c])
  /\ Leave(c, Taken(c), CASE op = "getattr" -> "next"
                          [] op = "rename" /\ from[c] = NoEntry -> "to"
                          [] op = "rename" /\ from[c] # NoEntry -> "onto"
                          [] OTHER -> "held")
  /\ pb' = IF op = "getattr" THEN Set(pb, c, pos[c]) ELSE pb
  /\ from' = IF op = "rename" /\ from[c] = NoEntry THEN Set(from, c, pos[c]) ELSE from
  /\ UNCHANGED <<table, saved, req, node, next_dir, pos, listed, answer, served>>

\* search_node finds nothing: good for the new name of rename, else ENOENT.
NodeNotFound(c) ==
  LET toName  == req[c].op = "rename" /\ from[c] # NoEntry
      tooLong == node[c] \in LongNames
  IN
  /\ pc[c] = "search_node" /\ pos[c] = FileBlocks
  /\ Leave(c, IF toName /\ tooLong THEN Unlocked(Now, c, from[c]) ELSE Now,
           IF toName /\ ~tooLong THEN "move" ELSE "reply")
  /\ answer' = IF ~toName THEN Set(answer, c, "ENOENT")
               ELSE IF tooLong THEN Set(answer, c, "ENAMETOOLONG") ELSE answer
  /\ UNCHANGED <<table, saved, req, walk, pos, listed, served>>

-----------------------------------------------------------------------------
(* A component that is no directory: refused, created, or the last name *)

\* readdir and rmdir have nothing to do with it.
Refuse(c) ==
  /\ pc[c] = "missed" /\ req[c].op \in {"readdir", "rmdir"}
  /\ Leave(c, Now, "reply")
  /\ answer' = Set(answer, c, "ENOTDIR")
  /\ UNCHANGED <<table, saved, req, walk, pos, listed, served>>

\* mkdir creates every component that is missing.
MakeDir(c) ==
  /\ pc[c] = "missed" /\ req[c].op = "mkdir"
  /\ \/ /\ node[c] \in LongNames
        /\ Leave(c, Now, "reply")
        /\ answer' = Set(answer, c, "ENAMETOOLONG")
        /\ UNCHANGED pos
     \/ /\ node[c] \notin LongNames
        /\ Goto(c, "claim")
        /\ pos' = Set(pos, c, 0)
        /\ UNCHANGED <<locks, answer>>
  /\ UNCHANGED <<table, saved, req, walk, listed, served>>

\* For the others it must be the last token, the name of the file.
LastName(c) ==
  LET op == req[c].op IN
  /\ pc[c] = "missed" /\ op \in {"mknod", "write", "unlink", "rename"}
  /\ saved' = Rest
  /\ \/ /\ Token # NULL
        /\ Leave(c, Now, "reply")
        /\ answer' = Set(answer, c, IF op = "mknod" THEN "ENOTDIR" ELSE "ENOENT")
        /\ UNCHANGED pos
     \/ /\ Token = NULL /\ op = "mknod" /\ node[c] \in LongNames
        /\ Leave(c, Now, "reply")
        /\ answer' = Set(answer, c, "ENAMETOOLONG")
        /\ UNCHANGED pos
     \/ /\ Token = NULL /\ ~(op = "mknod" /\ node[c] \in LongNames)
        /\ Goto(c, IF op = "mknod" THEN "claim" ELSE "search_node")
        /\ pos' = Set(pos, c, 0)
        /\ UNCHANGED <<locks, answer>>
  /\ UNCHANGED <<table, req, walk, listed, served>>

-----------------------------------------------------------------------------
(* get_free_file_block, create_dir and create_node *)

ClaimEntry(c) ==
  /\ pc[c] = "claim"
  /\ Visits(c) /\ state[pos[c]] = "DELETED"
  /\ Become(Taken(c))
  /\ Goto(c, "fill")
  /\ UNCHANGED <<table, saved, req, walk, pos, listed, answer, served>>

\* The table is full: mknod says so; mkdir tests pb_pos instead of dir_pos,
\* and goes on in "directory" -OSADA_ENOSPC.
NoFreeEntry(c) ==
  /\ pc[c] = "claim" /\ pos[c] = FileBlocks
  /\ \/ /\ req[c].op = "mknod"
        /\ Leave(c, Now, "reply")
        /\ answer' = Set(answer, c, "ENOSPC")
        /\ UNCHANGED pb
     \/ /\ req[c].op = "mkdir"
        /\ Leave(c, Now, "next")
        /\ pb' = Set(pb, c, ENOSPC)
        /\ UNCHANGED answer
  /\ UNCHANGED <<table, saved, req, node, next_dir, from, pos, listed, served>>

\* The claimed entry is written and unlocked, then its directory is.
Fill(c) ==
  LET op == req[c].op
      p  == pos[c]
  IN
  /\ pc[c] = "fill"
  /\ state' = [state EXCEPT ![p] = IF op = "mkdir" THEN "DIRECTORY" ELSE "REGULAR"]
  /\ fname' = [fname EXCEPT ![p] = node[c]]
  /\ parent' = [parent EXCEPT ![p] = pb[c]]
  /\ Leave(c, Unlocked(Now, c, p), IF op = "mkdir" THEN "next" ELSE "reply")
  /\ pb' = IF op = "mkdir" THEN Set(pb, c, p) ELSE pb
  /\ answer' = IF op = "mkdir" THEN answer ELSE Set(answer, c, "ISREG")
  /\ UNCHANGED <<saved, req, node, next_dir, from, pos, listed, served>>

-----------------------------------------------------------------------------
(* What is done to the entry that was found *)

\* The work on the blocks of a file is one step here; see OsadaBlocks.
Held(c) ==
  LET op == req[c].op
      p  == pos[c]
  IN
  /\ pc[c] = "held"
  /\ state' = IF op \in {"unlink", "rmdir"} THEN [state EXCEPT ![p] = "DELETED"] ELSE state
  /\ Become(Unlocked(Now, c, p))
  /\ answer' = Set(answer, c, IF op # "getattr" THEN "SEXE"
                              ELSE IF state[p] = "DIRECTORY" THEN "ISDIR" ELSE "ISREG")
  /\ Goto(c, "reply")
  /\ UNCHANGED <<fname, parent, saved, req, walk, pos, listed, served>>

\* The new name is free: the entry found first gets it.
Move(c) ==
  LET p == from[c] IN
  /\ pc[c] = "move"
  /\ parent' = [parent EXCEPT ![p] = pb[c]]
  /\ fname' = [fname EXCEPT ![p] = node[c]]
  /\ Become(Unlocked(Now, c, p))
  /\ answer' = Set(answer, c, "SEXE")
  /\ Goto(c, "reply")
  /\ UNCHANGED <<state, saved, req, walk, pos, listed, served>>

OntoUnlocksTwice(c) ==   \* mutant of Onto: the entry of the new name is unlocked twice
  /\ pc[c] = "onto"
  /\ Become(Unlocked(Unlocked(Unlocked(Now, c, from[c]), c, pos[c]), c, pos[c]))
  /\ answer' = Set(answer, c, "ISREG")
  /\ Goto(c, "reply")
  /\ UNCHANGED <<table, saved, req, walk, pos, listed, served>>

\* The new name is taken: an error, unless a directory took it meanwhile.
Onto(c) ==
  LET p == from[c]
      isDir == state[pos[c]] = "DIRECTORY"
  IN
  /\ pc[c] = "onto"
  /\ parent' = IF isDir THEN [parent EXCEPT ![p] = pb[c]] ELSE parent
  /\ Become(Unlocked(Unlocked(Now, c, p), c, pos[c]))
  /\ answer' = Set(answer, c, IF isDir THEN "SEXE" ELSE "ISREG")
  /\ Goto(c, "reply")
  /\ UNCHANGED <<state, fname, saved, req, walk, pos, listed, served>>

\* readdir keeps every child of the directory locked until it has them all.
ListEntry(c) ==
  /\ pc[c] = "list"
  /\ Visits(c) /\ Wanted(c, pos[c])
  /\ Become(Taken(c))
  /\ listed' = Set(listed, c, listed[c] \cup {pos[c]})
  /\ pos' = Set(pos, c, pos[c] + 1)
  /\ UNCHANGED <<table, saved, pc, req, walk, answer, served>>

ListEnd(c) ==
  LET L == [w |-> [p \in Entries |-> IF p \in listed[c] /\ wlock[p] = c
                                     THEN NoClient ELSE wlock[p]],
            r |-> [p \in Entries |-> IF p \in listed[c] /\ wlock[p] # c
                                     THEN Set(rlock[p], c, rlock[p][c] - 1) ELSE rlock[p]]]
  IN
  /\ pc[c] = "list" /\ pos[c] = FileBlocks
  /\ Leave(c, L, "reply")
  /\ answer' = Set(answer, c, IF listed[c] = {} THEN "EMPTYDIR" ELSE "NOTEMPTYDIR")
  /\ UNCHANGED <<table, saved, req, walk, pos, listed, served>>

-----------------------------------------------------------------------------
Continue(c) ==
  \/ Next_(c) \/ Look(c) \/ To(c)
  \/ Skip(c) \/ PassBy(c) \/ Enter(c) \/ NotADirectory(c) \/ FoundNode(c) \/ NodeNotFound(c)
  \/ Refuse(c) \/ MakeDir(c) \/ LastName(c)
  \/ ClaimEntry(c) \/ NoFreeEntry(c) \/ Fill(c)
  \/ Held(c) \/ Move(c) \/ Onto(c) \/ ListEntry(c) \/ ListEnd(c)
  \/ Reply(c)

\* Undefined behaviour ends what the model says of the process.
Alive == \A c \in Clients : pc[c] # "wild"

Next == Alive /\ \E c \in Clients : Start(c) \/ Continue(c)

Spec == Init /\ [][Next]_vars

\* Threads are preempted but never abandoned; the requests that compete for a
\* lock are bounded, so a thread that waits gets its turn.
FairSpec == Spec /\ \A c \in Clients : WF_vars(Alive /\ Continue(c))

-----------------------------------------------------------------------------
(* Safety *)

\* A directory stays while a thread is inside it: the walk takes the lock of
\* the child before it gives up the parent, so neither rmdir nor the reuse of
\* the entry comes between the steps of a walk that holds it.
Walking == Searches \cup {"missed", "next", "look", "claim", "fill", "list"}
InDirectory(c) ==
  pc[c] \in Walking /\ pb[c] \in Entries /\ Holds(c, pb[c]) =>
    \/ state[pb[c]] = "DIRECTORY"
    \/ req[c].op = "getattr" /\ state[pb[c]] = "REGULAR"
DirectoryStays == \A c \in Clients : InDirectory(c)

\* An entry that is claimed is free until it is written, and written by one
\* thread: no creation ever overwrites a file or another creation.
FillIsFree ==
  \A c, d \in Clients :
    pc[c] = "fill" => /\ state[pos[c]] = "DELETED"
                      /\ c # d /\ pc[d] = "fill" => pos[c] # pos[d]

\* The entry that write, unlink or rmdir is about to change is still the one
\* it was looking for, whatever was renamed or removed since it was found.
OnNamed(c) ==
  pc[c] = "held" /\ req[c].op \in {"write", "unlink", "rmdir"} =>
    /\ state[pos[c]] # "DELETED"
    /\ IF req[c].op = "rmdir" THEN state[pos[c]] = "DIRECTORY"
       ELSE fname[pos[c]] = node[c] /\ parent[pos[c]] = pb[c]
HeldIsNamed == \A c \in Clients : OnNamed(c)

\* No path through a handler unlocks what its thread has not locked, nor works
\* on an entry it has not found, except mkdir below a directory it has just
\* created and write or unlink of a path that is a directory.
KnownUndefined(c) ==
  pc[c] = "wild" =>
    \/ req[c].op = "mkdir"
    \/ req[c].op \in {"write", "unlink"} /\ Holds(c, pb[c])
OnlyKnownUndefined == \A c \in Clients : KnownUndefined(c)

\* The threads that hold what the thread of c waits for.
WaitsFor(c) ==
  IF /\ pc[c] \in Searches \cup {"claim", "list"}
     /\ pos[c] \in Entries \ {pb[c], from[c]}
     /\ ~CanLock(c, pos[c], LockType(c))
  THEN {d \in Clients : wlock[pos[c]] = d \/ rlock[pos[c]][d] > 0}
  ELSE {}

\* Lines 502 and 857 end every mkdir and mknod with "<< sending response >>":
\* no two threads wait for each other for ever.
NoCircularWait ==
  \A c, d \in Clients : c # d => ~(d \in WaitsFor(c) /\ c \in WaitsFor(d))

-----------------------------------------------------------------------------
(* The inductive invariant of the safety proofs *)

\* Who holds an entry for writing holds it alone.
Exclusive ==
  \A p \in Entries : wlock[p] # NoClient => \A d \in Clients : rlock[p][d] = 0

\* The steps each operation goes through, and what it has found by then.
StepsOf(op) ==
  {"reply", "wild"} \cup
  CASE op = "mkdir"   -> {"search_dir", "missed", "next", "claim", "fill"}
    [] op = "mknod"   -> {"search_dir", "missed", "next", "claim", "fill"}
    [] op = "readdir" -> {"search_dir", "missed", "next", "list"}
    [] op = "getattr" -> {"search_node", "next", "held"}
    [] op = "write"   -> {"search_dir", "missed", "next", "search_node", "held"}
    [] op = "unlink"  -> {"search_dir", "missed", "next", "search_node", "held"}
    [] op = "rmdir"   -> {"look", "search_dir", "missed", "held"}
    [] op = "rename"  -> {"search_dir", "missed", "next", "search_node", "to", "move", "onto",
                          "silent"}

InStage(c) ==
  /\ IF pc[c] = "idle" THEN pb[c] = ROOT /\ from[c] = NoEntry
     ELSE req[c] \in Requests /\ pc[c] \in StepsOf(req[c].op)
  /\ pc[c] \in Searches \cup {"look", "missed", "claim", "fill", "move"} => node[c] \in Names
  /\ pc[c] \in {"fill", "held", "onto"} => pos[c] \in Entries
  /\ pc[c] = "next" /\ req[c].op # "mkdir" => pb[c] \in Entries
  /\ pc[c] \in {"to", "move", "onto"} => from[c] # NoEntry
  /\ from[c] # NoEntry => req[c].op = "rename"
  /\ pc[c] \notin {"list", "reply", "wild"} => listed[c] = {}

\* The locks a thread relies on: that of the directory it is in, unless mkdir
\* has made it, those of the entries it has found, and no two are the same.
LocksHeld(c) ==
  /\ pc[c] \in Walking /\ req[c].op # "mkdir" => Holds(c, pb[c])
  /\ pc[c] = "fill" => wlock[pos[c]] = c /\ pos[c] # pb[c]
  /\ pc[c] = "held" => Holds(c, pos[c])
  /\ pc[c] = "held" /\ req[c].op # "getattr" => wlock[pos[c]] = c
  /\ pc[c] = "onto" => Holds(c, pos[c]) /\ pos[c] # from[c]
  /\ from[c] # NoEntry /\ pc[c] # "reply" => Holds(c, from[c])
  /\ from[c] # NoEntry /\ pc[c] \notin {"to", "wild"} => pb[c] # from[c]
  /\ pc[c] = "list" =>
       \A p \in listed[c] : p < pos[c] /\ p # pb[c] /\ Holds(c, p)

\* What the thread of c has found stays as it found it.
FoundStays(c) ==
  /\ InDirectory(c) /\ OnNamed(c) /\ KnownUndefined(c)
  /\ pc[c] = "fill" => state[pos[c]] = "DELETED"

\* The strengthening of the four invariants that every step preserves.
IInv ==
  /\ TypeOK /\ Exclusive
  /\ \A c \in Clients : InStage(c) /\ LocksHeld(c) /\ FoundStays(c)

-----------------------------------------------------------------------------
(* Liveness *)

\* On a volume without directories every request is answered: no search, claim
\* or listing waits for ever: only readdir waits while it holds locks, and it
\* takes them in the order of the table.
EveryRequestIsAnswered == \A c \in Clients : pc[c] # "idle" ~> pc[c] = "idle"
=============================================================================
