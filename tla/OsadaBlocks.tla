----------------------------- MODULE OsadaBlocks -----------------------------
(***************************************************************************)
(* The data blocks of the OSADA volume served by pokedex-server: the       *)
(* bitmap, the mapping table that chains the blocks of a file, and the     *)
(* write, read, truncate and unlink requests that change them, each from   *)
(* the moment its path walk has locked the file-table entry of a regular   *)
(* file.  One thread per connected client (process_request) executes them. *)
(*                                                                         *)
(* Two kinds of lock matter here: the reader/writer lock of the entry,     *)
(* held for the whole request, and the mutex m_lock, held while the bitmap *)
(* is searched or blocks are given back.  A step is one iteration of a     *)
(* loop of the source, or the straight code between two loops; the test of *)
(* a bit and the setting of that bit are two steps.                        *)
(***************************************************************************)
EXTENDS Integers, FiniteSets

CONSTANTS
  Clients,     \* the connected clients, one server thread each
  Files,       \* positions of the file table that may hold a regular file
  DataSize,    \* DATA_SIZE: number of positions the bitmap search visits
  Reserved,    \* positions already busy in the bitmap of a formatted volume
  BlockSize,   \* OSADA_BLOCK_SIZE
  MaxSize,     \* bound on the file sizes the requests ask for
  NoClient     \* "nobody holds this lock"

Blocks == 0 .. DataSize - 1

ASSUME DataAssumption ==
  /\ DataSize \in Nat \ {0}
  /\ BlockSize \in Nat \ {0}
  /\ MaxSize \in Nat
  /\ Reserved \subseteq Blocks
ASSUME NoClientAssumption == NoClient \notin Clients

END_OF_FILE == -1   \* 0xffffffff: the pointer that ends a chain
Head == -2          \* the place "&(node_ptr->first_block)" of a map pointer
NoFile == -3        \* "no file", of a free block or an idle thread

ASSUME NoFileAssumption == NoFile \notin Files

VARIABLES
  bitmap,       \* the busy positions (bits that are 1)
  mapping,      \* the mapping table: the block that follows each block
  state,        \* osada_file.state of each entry
  file_size,    \* osada_file.file_size of each entry
  first_block,  \* osada_file.first_block of each entry
  wlock,        \* the client whose thread holds the write lock of each entry
  rlock,        \* the clients whose threads hold the read lock of each entry
  m_lock,       \* the client whose thread holds the bitmap mutex
  pc,           \* where each thread is
  req,          \* the request it executes
  cell,         \* aux_map_ptr: Head, or the block whose map entry it points at
  movs,         \* blocks counted by the walk (movs, current_blocks)
  need,         \* bytes_to_expand, necessary_blocks, or moves left in a seek
  free_db,      \* position the bitmap search has reached (free_db - BM_DATA_0)
  left,         \* bytes_to_write / bytes_to_read
  owner         \* auxiliary: the file each allocated block was given to

disk    == <<bitmap, mapping, owner>>
entries == <<state, file_size, first_block>>
locks   == <<wlock, rlock>>
locals  == <<cell, movs, need, free_db, left>>
vars    == <<disk, entries, locks, m_lock, pc, req, locals>>

Pointers == Blocks \cup {END_OF_FILE}
Cells    == Blocks \cup {Head}
Sizes    == 0 .. MaxSize

Operations == {"none", "write", "read", "truncate", "unlink"}
Requests   == [op : Operations, file : Files \cup {NoFile}, goal : Nat, fsize : Nat]
NoRequest  == [op |-> "none", file |-> NoFile, goal |-> 0, fsize |-> 0]

\* Steps of a thread that holds m_lock, and the other steps of a request.
Critical == {"first_test", "first_set", "add_test", "add_set", "release"}
Steps    == Critical \cup
            {"idle", "first_lock", "walk", "add_lock", "undo_seek",
             "release_lock", "data_seek", "copy", "ok", "enospc", "wild"}

TypeOK ==
  /\ bitmap \in SUBSET Blocks
  /\ mapping \in [Blocks -> Pointers]
  /\ state \in [Files -> {"DELETED", "REGULAR"}]
  /\ file_size \in [Files -> Nat]
  /\ first_block \in [Files -> Pointers]
  /\ wlock \in [Files -> Clients \cup {NoClient}]
  /\ rlock \in [Files -> SUBSET Clients]
  /\ m_lock \in Clients \cup {NoClient}
  /\ pc \in [Clients -> Steps]
  /\ req \in [Clients -> Requests]
  /\ cell \in [Clients -> Cells]
  /\ movs \in [Clients -> Nat]
  /\ need \in [Clients -> Int]
  /\ free_db \in [Clients -> 0 .. DataSize]
  /\ left \in [Clients -> Int]
  /\ owner \in [Blocks -> Files \cup {NoFile}]
  /\ \A c \in Clients :
       /\ pc[c] # "idle" => req[c].file \in Files
       /\ pc[c] \in {"first_set", "add_set"} => free_db[c] < DataSize

Init ==
  /\ bitmap = Reserved
  /\ mapping = [b \in Blocks |-> END_OF_FILE]
  /\ state = [f \in Files |-> "DELETED"]
  /\ file_size = [f \in Files |-> 0]
  /\ first_block = [f \in Files |-> END_OF_FILE]
  /\ wlock = [f \in Files |-> NoClient]
  /\ rlock = [f \in Files |-> {}]
  /\ m_lock = NoClient
  /\ pc = [c \in Clients |-> "idle"]
  /\ req = [c \in Clients |-> NoRequest]
  /\ cell = [c \in Clients |-> Head]
  /\ movs = [c \in Clients |-> 0]
  /\ need = [c \in Clients |-> 0]
  /\ free_db = [c \in Clients |-> 0]
  /\ left = [c \in Clients |-> 0]
  /\ owner = [b \in Blocks |-> NoFile]

-----------------------------------------------------------------------------
(* Helpers *)

\* The pointer that the map pointer at p designates, in a chain of file f.
Load(f, p) == IF p = Head THEN first_block[f] ELSE mapping[p]

\* Mutant of NecessaryBlocks: a block more for exact multiples.
NecessaryBlocksRoundedUp(n) == n \div BlockSize + 1

\* The blocks a file of n bytes needs.
NecessaryBlocks(n) ==
  LET whole == n \div BlockSize
  IN  IF n > 0 /\ (whole = 0 \/ n % BlockSize >= 1) THEN whole + 1 ELSE whole

Goto(c, step) == pc' = [pc EXCEPT ![c] = step]
Set(v, c, x) == [v EXCEPT ![c] = x]

\* aux_map_ptr = map_ptr + (* aux_map_ptr): following END_OF_FILE leaves the
\* mapping table, and the next dereference kills the server.
Follow(c, step) ==
  LET next == Load(req[c].file, cell[c])
  IN  IF next = END_OF_FILE
      THEN Goto(c, "wild") /\ UNCHANGED cell
      ELSE Goto(c, step) /\ cell' = Set(cell, c, next)

\* The entry locks, as the default glibc rwlock grants them: a reader waits
\* for a writer only, never for a writer that is itself waiting.
WriteLockPastReaders(c, f) ==   \* mutant of WriteLock: readers are not waited for
  /\ wlock[f] = NoClient
  /\ wlock' = [wlock EXCEPT ![f] = c]
  /\ UNCHANGED rlock
WriteLock(c, f) ==
  /\ wlock[f] = NoClient /\ rlock[f] = {}
  /\ wlock' = [wlock EXCEPT ![f] = c]
  /\ UNCHANGED rlock
ReadLock(c, f) ==
  /\ wlock[f] = NoClient
  /\ rlock' = [rlock EXCEPT ![f] = @ \cup {c}]
  /\ UNCHANGED wlock
Unlock(c, f) ==
  /\ wlock' = [wlock EXCEPT ![f] = IF @ = c THEN NoClient ELSE @]
  /\ rlock' = [rlock EXCEPT ![f] = @ \ {c}]

Request(op, f, goal) ==
  [op |-> op, file |-> f, goal |-> goal, fsize |-> file_size[f]]

-----------------------------------------------------------------------------
(* Requests start when the walk has found and locked the entry *)

\* create_node on a free entry: one step, as the entry is write-locked all
\* through and nothing but the entry is touched.
CreateNode(c, f) ==
  /\ pc[c] = "idle"
  /\ state[f] = "DELETED"
  /\ wlock[f] = NoClient /\ rlock[f] = {}
  /\ state' = [state EXCEPT ![f] = "REGULAR"]
  /\ file_size' = [file_size EXCEPT ![f] = 0]
  /\ first_block' = [first_block EXCEPT ![f] = END_OF_FILE]
  /\ UNCHANGED <<disk, locks, m_lock, pc, req, locals>>

\* osada_write: a write that stays inside the file goes straight to the data;
\* one that expands it announces the new size before it looks for room.
Write(c, f, offset, size) ==
  LET goal == offset + size IN
  /\ pc[c] = "idle"
  /\ state[f] = "REGULAR"
  /\ WriteLock(c, f)
  /\ req' = Set(req, c, Request("write", f, goal))
  /\ left' = Set(left, c, size)
  /\ movs' = Set(movs, c, 0)
  /\ free_db' = Set(free_db, c, 0)
  /\ IF goal > file_size[f]
     THEN /\ file_size' = [file_size EXCEPT ![f] = goal]
          /\ need' = Set(need, c, goal - file_size[f])
          /\ IF first_block[f] = END_OF_FILE
             THEN Goto(c, "first_lock") /\ cell' = Set(cell, c, Head)
             ELSE Goto(c, "walk") /\ cell' = Set(cell, c, first_block[f])
     ELSE /\ need' = Set(need, c, offset \div BlockSize)
          /\ cell' = Set(cell, c, Head)
          /\ Goto(c, "data_seek")
          /\ UNCHANGED file_size
  /\ UNCHANGED <<disk, state, first_block, m_lock>>

\* osada_read: "offset < (file_size - 1)" compares unsigned numbers, so it
\* holds for every offset of an empty file, whose chain has no first block:
\* map_ptr + END_OF_FILE is 16 GB away where pointers have 64 bits, and the
\* word before the mapping table, which a read of nothing ignores, where they
\* have 32.
Read(c, f, offset, size) ==
  LET goal == IF offset + size > file_size[f] THEN file_size[f] ELSE offset + size
  IN
  /\ pc[c] = "idle"
  /\ state[f] = "REGULAR"
  /\ ReadLock(c, f)
  /\ cell' = Set(cell, c, Head)
  /\ movs' = Set(movs, c, 0)
  /\ need' = Set(need, c, offset \div BlockSize)
  /\ req' = Set(req, c, Request("read", f, goal))
  /\ \/ /\ file_size[f] = 0
        /\ left' = Set(left, c, 0)
        /\ Goto(c, "wild") \/ (offset = 0 /\ Goto(c, "ok"))
     \/ /\ file_size[f] > 0 /\ offset < file_size[f] - 1
        /\ left' = Set(left, c, goal - offset)
        /\ Goto(c, "data_seek")
     \/ /\ file_size[f] > 0 /\ offset >= file_size[f] - 1
        /\ left' = Set(left, c, 0)
        /\ Goto(c, "ok")
  /\ UNCHANGED <<disk, entries, m_lock, free_db>>

\* osada_truncate: the new size is announced first, then the chain is walked
\* to learn how many blocks the file has.
Truncate(c, f, new_size) ==
  /\ pc[c] = "idle"
  /\ state[f] = "REGULAR"
  /\ WriteLock(c, f)
  /\ req' = Set(req, c, Request("truncate", f, new_size))
  /\ file_size' = [file_size EXCEPT ![f] = new_size]
  /\ cell' = Set(cell, c, Head)
  /\ movs' = Set(movs, c, 0)
  /\ need' = Set(need, c, 0)
  /\ free_db' = Set(free_db, c, 0)
  /\ left' = Set(left, c, 0)
  /\ Goto(c, IF new_size = file_size[f] THEN "ok" ELSE "walk")
  /\ UNCHANGED <<disk, state, first_block, m_lock>>

\* osada_unlink: the whole chain is given back.
Unlink(c, f) ==
  /\ pc[c] = "idle"
  /\ state[f] = "REGULAR"
  /\ WriteLock(c, f)
  /\ req' = Set(req, c, Request("unlink", f, 0))
  /\ cell' = Set(cell, c, Head)
  /\ need' = Set(need, c, 0)
  /\ Goto(c, "release_lock")
  /\ UNCHANGED <<disk, entries, m_lock, movs, free_db, left>>

-----------------------------------------------------------------------------
(* The first block of an empty file that is written *)

AcquireAtOnce(c, from, to) ==   \* mutant of Acquire: the mutex is not waited for
  /\ pc[c] = from
  /\ m_lock' = c
  /\ Goto(c, to)
  /\ UNCHANGED <<disk, entries, locks, req, locals>>

Acquire(c, from, to) ==
  /\ pc[c] = from
  /\ m_lock = NoClient
  /\ m_lock' = c
  /\ Goto(c, to)
  /\ UNCHANGED <<disk, entries, locks, req, locals>>

TestBitPastEnd(c, testing, setting) ==   \* mutant of TestBit: an off-by-one at the end
  /\ pc[c] = testing
  /\ free_db[c] <= DataSize
  /\ IF free_db[c] \in bitmap
     THEN free_db' = Set(free_db, c, free_db[c] + 1) /\ UNCHANGED pc
     ELSE Goto(c, setting) /\ UNCHANGED free_db
  /\ UNCHANGED <<disk, entries, locks, m_lock, req, cell, movs, need, left>>

\* its_busy = bitarray_test_bit(bitmap, pos)
TestBit(c, testing, setting) ==
  /\ pc[c] = testing
  /\ free_db[c] < DataSize
  /\ IF free_db[c] \in bitmap
     THEN free_db' = Set(free_db, c, free_db[c] + 1) /\ UNCHANGED pc
     ELSE Goto(c, setting) /\ UNCHANGED free_db
  /\ UNCHANGED <<disk, entries, locks, m_lock, req, cell, movs, need, left>>

FirstLock(c) == Acquire(c, "first_lock", "first_test")
FirstTest(c) == TestBit(c, "first_test", "first_set")

\* Block pos becomes busy, ends the chain of f, and the place p points at it.
Link(f, p, pos) ==
  /\ bitmap' = bitmap \cup {pos}
  /\ owner' = [owner EXCEPT ![pos] = f]
  /\ mapping' = [b \in Blocks |-> IF b = pos THEN END_OF_FILE
                                  ELSE IF b = p THEN pos ELSE mapping[b]]
  /\ first_block' = [g \in Files |-> IF g = f /\ p = Head THEN pos
                                     ELSE first_block[g]]

FirstSetKeepsPos(c) ==   \* mutant of FirstSet: the next search goes on from here
  /\ pc[c] = "first_set"
  /\ Link(req[c].file, Head, free_db[c])
  /\ m_lock' = NoClient
  /\ cell' = Set(cell, c, free_db[c])
  /\ Goto(c, "walk")
  /\ UNCHANGED <<state, file_size, locks, req, movs, need, free_db, left>>

\* The first free block starts the chain; the search for more begins again.
FirstSet(c) ==
  /\ pc[c] = "first_set"
  /\ Link(req[c].file, Head, free_db[c])
  /\ m_lock' = NoClient
  /\ cell' = Set(cell, c, free_db[c])
  /\ free_db' = Set(free_db, c, 0)
  /\ Goto(c, "walk")
  /\ UNCHANGED <<state, file_size, locks, req, movs, need, left>>

FirstNoneKeepsMutex(c) ==   \* mutant of FirstNone: the unlock is forgotten
  /\ pc[c] = "first_test"
  /\ free_db[c] = DataSize
  /\ file_size' = [file_size EXCEPT ![req[c].file] = req[c].fsize]
  /\ Goto(c, "enospc")
  /\ UNCHANGED <<disk, state, first_block, locks, m_lock, req, locals>>

\* No free block: the old size is put back.
FirstNone(c) ==
  /\ pc[c] = "first_test"
  /\ free_db[c] = DataSize
  /\ m_lock' = NoClient
  /\ file_size' = [file_size EXCEPT ![req[c].file] = req[c].fsize]
  /\ Goto(c, "enospc")
  /\ UNCHANGED <<disk, state, first_block, locks, req, locals>>

-----------------------------------------------------------------------------
(* Growing a chain *)

\* One block of the chain counted.
Walk(c) ==
  /\ pc[c] = "walk"
  /\ Load(req[c].file, cell[c]) # END_OF_FILE
  /\ cell' = Set(cell, c, Load(req[c].file, cell[c]))
  /\ movs' = Set(movs, c, movs[c] + 1)
  /\ UNCHANGED <<disk, entries, locks, m_lock, pc, req, need, free_db, left>>

WalkEndWriteDeductsNone(c) ==   \* mutant of WalkEndWrite: the last block counts as full
  /\ pc[c] = "walk" /\ req[c].op = "write"
  /\ Load(req[c].file, cell[c]) = END_OF_FILE
  /\ Goto(c, "add_lock")
  /\ UNCHANGED <<disk, entries, locks, m_lock, req, locals>>

WalkEndWriteDeductsAll(c) ==   \* mutant of WalkEndWrite: the last block counts as empty
  /\ pc[c] = "walk" /\ req[c].op = "write"
  /\ Load(req[c].file, cell[c]) = END_OF_FILE
  /\ need' = Set(need, c, need[c] - BlockSize)
  /\ Goto(c, "add_lock")
  /\ UNCHANGED <<disk, entries, locks, m_lock, req, cell, movs, free_db, left>>

\* osada_write at the end of the chain: the room left in the last block is
\* deducted from the bytes to expand.
WalkEndWrite(c) ==
  LET last_free_byte_pos == req[c].fsize - movs[c] * BlockSize
      available == BlockSize - last_free_byte_pos
  IN
  /\ pc[c] = "walk" /\ req[c].op = "write"
  /\ Load(req[c].file, cell[c]) = END_OF_FILE
  /\ need' = Set(need, c, need[c] - available)
  /\ Goto(c, "add_lock")
  /\ UNCHANGED <<disk, entries, locks, m_lock, req, cell, movs, free_db, left>>

\* osada_truncate at the end of the chain: grow, shrink, or nothing to do.
WalkEndTruncate(c) ==
  LET new_size  == req[c].goal
      old_size  == req[c].fsize
      necessary == NecessaryBlocks(new_size)
  IN
  /\ pc[c] = "walk" /\ req[c].op = "truncate"
  /\ Load(req[c].file, cell[c]) = END_OF_FILE
  /\ \/ /\ new_size > old_size /\ necessary > movs[c]
        /\ need' = Set(need, c, necessary - movs[c])
        /\ Goto(c, "add_lock")
        /\ UNCHANGED cell
     \/ /\ new_size < old_size /\ necessary < movs[c]
        /\ need' = Set(need, c, necessary)
        /\ cell' = Set(cell, c, Head)
        /\ Goto(c, "undo_seek")
     \/ /\ ~ (new_size > old_size /\ necessary > movs[c])
        /\ ~ (new_size < old_size /\ necessary < movs[c])
        /\ Goto(c, "ok")
        /\ UNCHANGED <<need, cell>>
  /\ UNCHANGED <<disk, entries, locks, m_lock, req, movs, free_db, left>>

AddLock(c) == Acquire(c, "add_lock", "add_test")

AddTest(c) == need[c] > 0 /\ TestBit(c, "add_test", "add_set")

\* A block is appended; osada_write counts bytes, osada_truncate blocks.
AddSet(c) ==
  /\ pc[c] = "add_set"
  /\ Link(req[c].file, cell[c], free_db[c])
  /\ cell' = Set(cell, c, free_db[c])
  /\ need' = Set(need, c, need[c] - IF req[c].op = "write" THEN BlockSize ELSE 1)
  /\ free_db' = Set(free_db, c, free_db[c] + 1)
  /\ Goto(c, "add_test")
  /\ UNCHANGED <<state, file_size, locks, m_lock, req, movs, left>>

\* The search stopped before the end of the bitmap: the request has its room.
AddDone(c) ==
  /\ pc[c] = "add_test" /\ need[c] <= 0 /\ free_db[c] < DataSize
  /\ m_lock' = NoClient
  /\ cell' = Set(cell, c, Head)
  /\ need' = Set(need, c, (req[c].goal - left[c]) \div BlockSize)
  /\ Goto(c, IF req[c].op = "write" THEN "data_seek" ELSE "ok")
  /\ UNCHANGED <<disk, entries, locks, req, movs, free_db, left>>

AddNoSpaceKeepsSize(c) ==   \* mutant of AddNoSpace: the old size is not put back
  /\ pc[c] = "add_test" /\ free_db[c] = DataSize
  /\ m_lock' = NoClient
  /\ need' = Set(need, c, NecessaryBlocks(req[c].fsize))
  /\ cell' = Set(cell, c, Head)
  /\ Goto(c, "undo_seek")
  /\ UNCHANGED <<disk, entries, locks, req, movs, free_db, left>>

\* "if (free_db > BM_DATA_1)": the search reached the end of the bitmap, and
\* the request is undone, whatever need[c] says.
AddNoSpace(c) ==
  /\ pc[c] = "add_test" /\ free_db[c] = DataSize
  /\ m_lock' = NoClient
  /\ file_size' = [file_size EXCEPT ![req[c].file] = req[c].fsize]
  /\ need' = Set(need, c, NecessaryBlocks(req[c].fsize))
  /\ cell' = Set(cell, c, Head)
  /\ Goto(c, "undo_seek")
  /\ UNCHANGED <<disk, state, first_block, locks, req, movs, free_db, left>>

-----------------------------------------------------------------------------
(* Giving blocks back: the tail of the chain behind the necessary blocks *)

UndoSeek(c) ==
  /\ pc[c] = "undo_seek"
  /\ IF need[c] > 0
     THEN need' = Set(need, c, need[c] - 1) /\ Follow(c, "undo_seek")
     ELSE Goto(c, "release_lock") /\ UNCHANGED <<need, cell>>
  /\ UNCHANGED <<disk, entries, locks, m_lock, req, movs, free_db, left>>

ReleaseLock(c) == Acquire(c, "release_lock", "release")

ReleaseKeepsHead(c) ==   \* mutant of Release: first_block is not reset
  LET p == cell[c]
      aux == Load(req[c].file, p)
  IN
  /\ pc[c] = "release"
  /\ aux # END_OF_FILE
  /\ bitmap' = bitmap \ {aux}
  /\ owner' = [owner EXCEPT ![aux] = NoFile]
  /\ mapping' = [b \in Blocks |-> IF b = p THEN END_OF_FILE ELSE mapping[b]]
  /\ cell' = Set(cell, c, aux)
  /\ UNCHANGED <<entries, locks, m_lock, pc, req, movs, need, free_db, left>>

ReleaseKeepsBit(c) ==   \* mutant of Release: the bit is not cleaned
  LET f == req[c].file
      p == cell[c]
      aux == Load(f, p)
  IN
  /\ pc[c] = "release"
  /\ aux # END_OF_FILE
  /\ owner' = [owner EXCEPT ![aux] = NoFile]
  /\ mapping' = [b \in Blocks |-> IF b = p THEN END_OF_FILE ELSE mapping[b]]
  /\ first_block' = [g \in Files |-> IF g = f /\ p = Head THEN END_OF_FILE
                                     ELSE first_block[g]]
  /\ cell' = Set(cell, c, aux)
  /\ UNCHANGED <<bitmap, state, file_size, locks, m_lock, pc, req, movs, need, free_db, left>>

\* aux = *p; the bit of aux is cleaned; *p = END_OF_FILE; p = map_ptr + aux.
Release(c) ==
  LET f == req[c].file
      p == cell[c]
      aux == Load(f, p)
  IN
  /\ pc[c] = "release"
  /\ aux # END_OF_FILE
  /\ bitmap' = bitmap \ {aux}
  /\ owner' = [owner EXCEPT ![aux] = NoFile]
  /\ mapping' = [b \in Blocks |-> IF b = p THEN END_OF_FILE ELSE mapping[b]]
  /\ first_block' = [g \in Files |-> IF g = f /\ p = Head THEN END_OF_FILE
                                     ELSE first_block[g]]
  /\ cell' = Set(cell, c, aux)
  /\ UNCHANGED <<state, file_size, locks, m_lock, pc, req, movs, need, free_db, left>>

ReleaseEndForgetsState(c) ==   \* mutant of ReleaseEnd: unlink leaves the entry REGULAR
  /\ pc[c] = "release"
  /\ Load(req[c].file, cell[c]) = END_OF_FILE
  /\ m_lock' = NoClient
  /\ Goto(c, IF req[c].op = "write" \/ (req[c].op = "truncate" /\ req[c].goal > req[c].fsize)
             THEN "enospc" ELSE "ok")
  /\ UNCHANGED <<disk, entries, locks, req, locals>>

\* A request that was growing answers that there is no space; unlink frees
\* the entry; a truncate that was shrinking has done what it was asked.
ReleaseEnd(c) ==
  LET f == req[c].file
      grew == req[c].op = "write" \/ (req[c].op = "truncate" /\ req[c].goal > req[c].fsize)
  IN
  /\ pc[c] = "release"
  /\ Load(f, cell[c]) = END_OF_FILE
  /\ m_lock' = NoClient
  /\ state' = IF req[c].op = "unlink" THEN [state EXCEPT ![f] = "DELETED"] ELSE state
  /\ Goto(c, IF grew THEN "enospc" ELSE "ok")
  /\ UNCHANGED <<disk, file_size, first_block, locks, req, locals>>

-----------------------------------------------------------------------------
(* The data itself, in osada_write and osada_read, and the answer *)

DataSeek(c) ==
  /\ pc[c] = "data_seek"
  /\ IF need[c] > 0
     THEN need' = Set(need, c, need[c] - 1) /\ Follow(c, "data_seek")
     ELSE Goto(c, "copy") /\ UNCHANGED <<need, cell>>
  /\ UNCHANGED <<disk, entries, locks, m_lock, req, movs, free_db, left>>

\* The bytes of this block, from the current offset to its end at most.
CopyBlock(c) ==
  LET f == req[c].file
      block == Load(f, cell[c])
      available == BlockSize - ((req[c].goal - left[c]) % BlockSize)
      bytes == IF left[c] >= available THEN available ELSE left[c]
  IN
  /\ pc[c] = "copy"
  /\ left[c] > 0
  /\ IF block = END_OF_FILE
     THEN Goto(c, "wild") /\ UNCHANGED <<cell, left>>
     ELSE /\ left' = Set(left, c, left[c] - bytes)
          /\ cell' = Set(cell, c, block)
          /\ Goto(c, IF mapping[block] = END_OF_FILE THEN "ok" ELSE "copy")
  /\ UNCHANGED <<disk, entries, locks, m_lock, req, movs, need, free_db>>

CopyEnd(c) ==
  /\ pc[c] = "copy"
  /\ left[c] <= 0
  /\ Goto(c, "ok")
  /\ UNCHANGED <<disk, entries, locks, m_lock, req, locals>>

\* The entry is unlocked and the response code written to the socket.
Reply(c) ==
  /\ pc[c] \in {"ok", "enospc"}
  /\ Unlock(c, req[c].file)
  /\ Goto(c, "idle")
  /\ req' = Set(req, c, NoRequest)
  /\ cell' = Set(cell, c, Head)
  /\ movs' = Set(movs, c, 0)
  /\ need' = Set(need, c, 0)
  /\ free_db' = Set(free_db, c, 0)
  /\ left' = Set(left, c, 0)
  /\ UNCHANGED <<disk, entries, m_lock>>

-----------------------------------------------------------------------------
\* process_request hands the next request of a client to its handler.
Start(c) ==
  \E f \in Files :
    \/ CreateNode(c, f)
    \/ \E offset, size \in Sizes :
         /\ size > 0 /\ offset + size <= MaxSize
         /\ Write(c, f, offset, size) \/ Read(c, f, offset, size)
    \/ \E new_size \in Sizes : Truncate(c, f, new_size)
    \/ Unlink(c, f)

TakeLock(c) == FirstLock(c) \/ AddLock(c) \/ ReleaseLock(c)

Continue(c) ==
  \/ FirstTest(c) \/ FirstSet(c) \/ FirstNone(c)
  \/ Walk(c) \/ WalkEndWrite(c) \/ WalkEndTruncate(c)
  \/ AddTest(c) \/ AddSet(c) \/ AddDone(c) \/ AddNoSpace(c)
  \/ UndoSeek(c) \/ Release(c) \/ ReleaseEnd(c)
  \/ DataSeek(c) \/ CopyBlock(c) \/ CopyEnd(c)
  \/ Reply(c)

\* A wild dereference is a SIGSEGV: it ends the process, all threads of it.
Alive == \A c \in Clients : pc[c] # "wild"

Next == Alive /\ \E c \in Clients : Start(c) \/ TakeLock(c) \/ Continue(c)

Spec == Init /\ [][Next]_vars

\* Threads are preempted but never abandoned, and a mutex that is released
\* again and again is given in the end to every thread that waits for it.
Fairness ==
  \A c \in Clients : /\ WF_vars(Alive /\ Continue(c))
                     /\ SF_vars(Alive /\ TakeLock(c))

FairSpec == Spec /\ Fairness
-----------------------------------------------------------------------------
(* Safety *)

\* The n-th pointer of the chain of f: first_block[f], then the map entries.
Nth(f) ==
  LET nth[n \in Nat] == IF n = 0 THEN first_block[f]
                        ELSE IF nth[n - 1] = END_OF_FILE THEN END_OF_FILE
                        ELSE mapping[nth[n - 1]]
  IN  nth
Chain(f) == {Nth(f)[n] : n \in 0 .. DataSize} \ {END_OF_FILE}

\* The busy blocks that belong to files, as opposed to the volume's own.
Allocated == {b \in Blocks : owner[b] # NoFile}

\* Two files never share a block, and no block is entered from two places of
\* the volume: over all interleavings of searches, appends and releases, no
\* two pointers that are in use lead to the same block.
NoCrossLink ==
  /\ \A f, g \in Files :
       f # g /\ first_block[f] # END_OF_FILE => first_block[f] # first_block[g]
  /\ \A f \in Files, b \in Allocated :
       first_block[f] # END_OF_FILE => first_block[f] # mapping[b]
  /\ \A a, b \in Allocated :
       a # b /\ mapping[a] # END_OF_FILE => mapping[a] # mapping[b]

\* What is in use is busy in the bitmap: no pointer in use leads to a block
\* that the next search would hand to another file.
NoDangling ==
  /\ Reserved \subseteq bitmap
  /\ \A f \in Files : first_block[f] # END_OF_FILE => first_block[f] \in bitmap \ Reserved
  /\ \A b \in Allocated : b \in bitmap /\ mapping[b] \in bitmap \cup {END_OF_FILE}

\* Between requests a file has exactly the blocks its size calls for, whatever
\* sequence of writes, truncates, unlinks and refused requests led there.
ChainMatchesSize ==
  \A f \in Files :
    wlock[f] = NoClient =>
      Cardinality(Chain(f)) = IF state[f] = "REGULAR" THEN NecessaryBlocks(file_size[f]) ELSE 0

\* Nothing is lost: between requests the busy blocks are the reserved ones and
\* those of the chains; a refused request and an unlink give every block back.
NoLeak ==
  (\A f \in Files : wlock[f] = NoClient) =>
    bitmap = Reserved \cup UNION {Chain(f) : f \in Files}

\* A request that is refused leaves the file with the size it had.
RefusedIsUndone ==
  \A c \in Clients :
    pc[c] = "enospc" =>
      /\ file_size[req[c].file] = req[c].fsize
      /\ Cardinality(Chain(req[c].file)) = NecessaryBlocks(req[c].fsize)

\* The one dereference of END_OF_FILE is the read of an empty file: no seek,
\* no copy and no rollback ever runs off the chain it walks.
OnlyEmptyReadIsWild ==
  \A c \in Clients : pc[c] = "wild" => req[c].op = "read" /\ req[c].fsize = 0

\* A write or read that is answered has moved all its bytes: the chain never
\* ends (the "break" of the copy loop) before the request does.
CopyIsComplete ==
  \A c \in Clients : pc[c] = "ok" /\ req[c].op \in {"write", "read"} => left[c] = 0

\* Two threads copy to or from the same block only if both are reading.
CopiesAreExclusive ==
  \A c, d \in Clients :
    /\ c # d /\ pc[c] = "copy" /\ pc[d] = "copy"
    /\ Load(req[c].file, cell[c]) # END_OF_FILE
    /\ Load(req[c].file, cell[c]) = Load(req[d].file, cell[d])
    => req[c].op = "read" /\ req[d].op = "read"

\* A request is refused only when every position of the volume is taken, at
\* that moment: the search begins at the first one, and m_lock keeps the rest
\* from being given back behind it (1009-1023, 1052-1070, 1420-1434).  That the
\* request may have all its blocks by then is another matter: line 1070 asks
\* where the search ended, not what it found.
EnospcOnlyWhenFull ==
  [][\A c \in Clients : FirstNone(c) \/ AddNoSpace(c) => Blocks \subseteq bitmap]_vars

-----------------------------------------------------------------------------
(* The inductive invariant of the safety proofs *)

\* m_lock is held by exactly the threads that search or release.
MutexHeld == \A c \in Clients : pc[c] \in Critical <=> m_lock = c

\* A request holds the lock of its entry from its start to its answer.
EntryHeld ==
  /\ \A c \in Clients :
       pc[c] # "idle" =>
         IF req[c].op = "read" THEN c \in rlock[req[c].file] ELSE wlock[req[c].file] = c
  /\ \A c \in Clients : req[c].op = "read" => pc[c] \in {"data_seek", "copy", "ok", "wild"}
  /\ \A f \in Files : wlock[f] # NoClient => rlock[f] = {}

\* The owner of a block says whether it is busy, and pointers respect owners.
OwnersAgree ==
  /\ Reserved \subseteq bitmap
  /\ \A b \in Blocks : owner[b] # NoFile <=> b \in bitmap \ Reserved
  /\ \A f \in Files : first_block[f] # END_OF_FILE => owner[first_block[f]] = f
  /\ \A b \in Allocated : mapping[b] # END_OF_FILE => owner[mapping[b]] = owner[b]

\* A block found free stays free until it is taken.
FoundIsFree ==
  \A c \in Clients :
    pc[c] \in {"first_set", "add_set"} => free_db[c] \notin bitmap

\* What a search has passed is taken, and every search begins at the first
\* position.
PassedIsTaken ==
  \A c \in Clients :
    /\ pc[c] \in {"first_lock", "walk", "add_lock"} => free_db[c] = 0
    /\ pc[c] \in {"first_test", "first_set", "add_test", "add_set"} =>
         \A b \in Blocks : b < free_db[c] => b \in bitmap

\* A thread that walks, appends or copies is on its own chain.
CellIsOwn ==
  \A c \in Clients :
    pc[c] \in {"walk", "add_lock", "add_test", "add_set", "undo_seek",
              "release_lock", "data_seek", "copy"} =>
      cell[c] = Head \/ owner[cell[c]] = req[c].file

\* Nothing in use leads to block a.
Unreached(a) ==
  /\ \A f \in Files : first_block[f] # a
  /\ \A b \in Allocated : mapping[b] # a

\* A thread that releases stands on its own chain, or on a block it has just
\* freed, whose successor only this thread can still reach.
ReleaseIsOwn ==
  \A c \in Clients :
    pc[c] = "release" =>
      \/ cell[c] = Head
      \/ owner[cell[c]] = req[c].file
      \/ /\ owner[cell[c]] = NoFile
         /\ mapping[cell[c]] # END_OF_FILE =>
              /\ owner[mapping[cell[c]]] = req[c].file
              /\ Unreached(mapping[cell[c]])

\* The strengthening of NoCrossLink that every step preserves: locks are held
\* where they must be, and in-flight map pointers stay on their own chain.
IInv ==
  /\ TypeOK /\ MutexHeld /\ EntryHeld /\ OwnersAgree /\ NoCrossLink
  /\ FoundIsFree /\ CellIsOwn /\ ReleaseIsOwn

-----------------------------------------------------------------------------
(* Refinement *)

\* Refinement mapping: what a client sees of each file, nothing while it does not
\* exist, else its size.  A request that has to find room takes effect when it
\* has found it; one that gives room back takes effect when it starts.
Growing(c) ==
  /\ pc[c] \in {"first_lock", "first_test", "first_set", "walk", "add_lock",
               "add_test", "add_set", "undo_seek", "release_lock", "release"}
  /\ req[c].op \in {"write", "truncate"} /\ req[c].goal > req[c].fsize
Removing(c) == req[c].op = "unlink"

Absent == -1
StoreView ==
  [f \in Files |->
     LET writer == wlock[f] IN
     IF writer # NoClient /\ Growing(writer) THEN req[writer].fsize
     ELSE IF state[f] = "DELETED" \/ (writer # NoClient /\ Removing(writer)) THEN Absent
     ELSE file_size[f]]

Store == INSTANCE OsadaStore WITH
           store <- StoreView, Capacity <- DataSize - Cardinality(Reserved)

\* The requests of all clients together behave like the atomic file store of
\* OsadaStore: a request happens completely or not at all, and the blocks of
\* all files together never exceed the volume, even in the middle of requests.
ImplementsStore == Store!Spec

-----------------------------------------------------------------------------
(* Liveness *)

\* Every request whose entry was found and locked is answered, or the server
\* has died of a read of an empty file: no chain is cyclic, no search or
\* release goes on for ever, and nobody keeps m_lock.
EveryRequestIsAnswered ==
  \A c \in Clients : pc[c] # "idle" ~> (pc[c] = "idle" \/ ~Alive)
=============================================================================
