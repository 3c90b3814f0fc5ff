-------------------------- MODULE OsadaBlocksProofs --------------------------
(***************************************************************************)
(* Proofs about OsadaBlocks, for any number of clients, files and blocks.  *)
(***************************************************************************)
EXTENDS OsadaBlocks, FiniteSetTheorems, TLAPS

Lists == INSTANCE ListFacts

LEMMA BlocksFacts ==
  /\ \A b \in Blocks : b \in Int /\ b # END_OF_FILE /\ b # Head /\ b >= 0 /\ b < DataSize
  /\ \A n \in 0 .. DataSize : n < DataSize => n \in Blocks
  /\ 0 \in Blocks
  /\ NoFile \notin Files
  /\ NoClient \notin Clients
BY DataAssumption, NoFileAssumption, NoClientAssumption DEF Blocks, END_OF_FILE, Head

LEMMA NecessaryBlocksType == \A n \in Nat : NecessaryBlocks(n) \in Int
BY DataAssumption DEF NecessaryBlocks

LEMMA InitType == Init => TypeOK
BY BlocksFacts, DataAssumption DEF Init, TypeOK, Pointers, Cells, Steps, Critical, Requests, NoRequest,
   Operations, Blocks

\* Every step of a thread keeps the variables in their types.
LEMMA StartType ==
  ASSUME TypeOK, NEW c \in Clients, Start(c)
  PROVE  TypeOK'
<1> USE BlocksFacts, DataAssumption, TypeOK
    DEF TypeOK, Pointers, Cells, Steps, Critical, Requests, Operations, Sizes,
        Goto, Set, WriteLock, ReadLock, Request, disk, entries, locks, locals
<1> PICK f \in Files :
      \/ CreateNode(c, f)
      \/ \E offset, size \in Sizes :
           /\ size > 0 /\ offset + size <= MaxSize
           /\ Write(c, f, offset, size) \/ Read(c, f, offset, size)
      \/ \E new_size \in Sizes : Truncate(c, f, new_size)
      \/ Unlink(c, f)
  BY DEF Start
<1>1. CASE CreateNode(c, f)
  BY <1>1 DEF CreateNode
<1>2. ASSUME NEW offset \in Sizes, NEW size \in Sizes, Write(c, f, offset, size)
      PROVE  TypeOK'
  <2>1. offset \div BlockSize \in Int /\ offset + size \in Nat
    OBVIOUS
  <2>2. /\ \E r \in Requests : r.file \in Files /\ req' = [req EXCEPT ![c] = r]
        /\ \E to \in {"first_lock", "walk", "data_seek"} : pc' = [pc EXCEPT ![c] = to]
        /\ \E n \in Nat : file_size' = [file_size EXCEPT ![f] = n]
        /\ \E n \in Int : need' = [need EXCEPT ![c] = n]
        /\ \E p \in Cells : cell' = [cell EXCEPT ![c] = p]
    <3>1. /\ Request("write", f, offset + size) \in Requests
          /\ Request("write", f, offset + size).file = f
          /\ req' = [req EXCEPT ![c] = Request("write", f, offset + size)]
      BY <1>2, <2>1 DEF Write
    <3>2. CASE offset + size > file_size[f]
      <4>1. /\ file_size' = [file_size EXCEPT ![f] = offset + size]
            /\ need' = [need EXCEPT ![c] = (offset + size) - file_size[f]]
            /\ (offset + size) - file_size[f] \in Int
        BY <1>2, <2>1, <3>2 DEF Write
      <4>2. \/ /\ pc' = [pc EXCEPT ![c] = "first_lock"]
               /\ cell' = [cell EXCEPT ![c] = Head]
            \/ /\ first_block[f] \in Blocks
               /\ pc' = [pc EXCEPT ![c] = "walk"]
               /\ cell' = [cell EXCEPT ![c] = first_block[f]]
        BY <1>2, <3>2 DEF Write
      <4> QED BY <2>1, <3>1, <4>1, <4>2
    <3>3. CASE ~ (offset + size > file_size[f])
      <4>1. file_size' = [file_size EXCEPT ![f] = file_size[f]]
        BY <1>2, <3>3 DEF Write
      <4> QED BY <1>2, <2>1, <3>1, <3>3, <4>1 DEF Write
    <3> QED BY <3>2, <3>3
  <2>3. /\ left' = [left EXCEPT ![c] = size] /\ movs' = [movs EXCEPT ![c] = 0]
        /\ free_db' = [free_db EXCEPT ![c] = 0]
        /\ wlock' = [wlock EXCEPT ![f] = c]
        /\ UNCHANGED <<disk, state, first_block, m_lock, rlock>>
    BY <1>2 DEF Write
  <2> QED BY <2>2, <2>3
<1>3. ASSUME NEW offset \in Sizes, NEW size \in Sizes, Read(c, f, offset, size)
      PROVE  TypeOK'
  <2>1. offset \div BlockSize \in Int /\ offset + size \in Nat
    OBVIOUS
  <2>2. /\ \E r \in Requests : r.file \in Files /\ req' = [req EXCEPT ![c] = r]
        /\ \E to \in {"wild", "data_seek", "ok"} : pc' = [pc EXCEPT ![c] = to]
        /\ \E n \in Int : left' = [left EXCEPT ![c] = n]
    <3> DEFINE goal == IF offset + size > file_size[f] THEN file_size[f] ELSE offset + size
    <3>1. goal \in Nat /\ goal - offset \in Int
      BY <2>1
    <3>2. /\ Request("read", f, goal) \in Requests
          /\ Request("read", f, goal).file = f
      BY <3>1
    <3>3. req' = [req EXCEPT ![c] = Request("read", f, goal)]
      BY <1>3 DEF Read
    <3> HIDE DEF goal
    <3>4. \E r \in Requests : r.file \in Files /\ req' = [req EXCEPT ![c] = r]
      BY <3>2, <3>3
    <3>5. \E to \in {"wild", "data_seek", "ok"} : pc' = [pc EXCEPT ![c] = to]
      BY <1>3 DEF Read
    <3>6. \E n \in Int : left' = [left EXCEPT ![c] = n]
      BY <1>3, <3>1 DEF Read, goal
    <3> QED BY <3>4, <3>5, <3>6
  <2>3. /\ cell' = [cell EXCEPT ![c] = Head] /\ movs' = [movs EXCEPT ![c] = 0]
        /\ need' = [need EXCEPT ![c] = offset \div BlockSize]
        /\ rlock' = [rlock EXCEPT ![f] = @ \cup {c}]
        /\ UNCHANGED <<disk, entries, m_lock, free_db, wlock>>
    BY <1>3 DEF Read
  <2> QED BY <2>1, <2>2, <2>3
<1>4. ASSUME NEW new_size \in Sizes, Truncate(c, f, new_size)
      PROVE  TypeOK'
  BY <1>4 DEF Truncate
<1>5. CASE Unlink(c, f)
  BY <1>5 DEF Unlink
<1> QED BY <1>1, <1>2, <1>3, <1>4, <1>5

LEMMA TestBitType ==
  ASSUME TypeOK, NEW c \in Clients,
         TestBit(c, "first_test", "first_set") \/ TestBit(c, "add_test", "add_set")
  PROVE  TypeOK'
<1> USE BlocksFacts, DataAssumption
    DEF TypeOK, TestBit, Pointers, Cells, Steps, Critical, Requests, Operations,
        Goto, Set, disk, entries, locks, locals
<1>1. CASE free_db[c] \in bitmap
  <2>1. free_db[c] + 1 \in 0 .. DataSize
    OBVIOUS
  <2>2. pc' = pc /\ free_db' = [free_db EXCEPT ![c] = free_db[c] + 1]
    BY <1>1
  <2>3. pc[c] \notin {"first_set", "add_set"}
    OBVIOUS
  <2> QED BY <2>1, <2>2, <2>3
<1>2. CASE free_db[c] \notin bitmap
  <2>1. PICK setting \in {"first_set", "add_set"} :
          pc' = [pc EXCEPT ![c] = setting] /\ free_db' = free_db
    BY <1>2
  <2>2. pc[c] # "idle" /\ free_db[c] < DataSize
    OBVIOUS
  <2> QED BY <2>1, <2>2
<1> QED BY <1>1, <1>2

LEMMA ContinueType ==
  ASSUME TypeOK, NEW c \in Clients, TakeLock(c) \/ Continue(c)
  PROVE  TypeOK'
<1> USE BlocksFacts, DataAssumption, TypeOK
    DEF TypeOK, Pointers, Cells, Steps, Critical, Requests, Operations,
        Goto, Set, disk, entries, locks, locals
<1>1. CASE TakeLock(c)
  <2>1. PICK to \in {"first_test", "add_test", "release"} :
          /\ pc[c] # "idle" /\ pc' = [pc EXCEPT ![c] = to]
          /\ m_lock' = c /\ UNCHANGED <<disk, entries, locks, req, locals>>
    BY <1>1 DEF TakeLock, FirstLock, AddLock, ReleaseLock, Acquire
  <2> QED BY <2>1
<1>2. CASE FirstTest(c)
  BY <1>2, TestBitType DEF FirstTest
<1>3. CASE FirstSet(c)
  BY <1>3 DEF FirstSet, Link
<1>4. CASE FirstNone(c)
  BY <1>4 DEF FirstNone
<1>5. CASE Walk(c)
  BY <1>5 DEF Walk, Load
<1>6. CASE WalkEndWrite(c)
  BY <1>6 DEF WalkEndWrite
<1>7. CASE WalkEndTruncate(c)
  <2>1. /\ pc[c] # "idle"
        /\ \E to \in {"add_lock", "undo_seek", "ok"} : pc' = [pc EXCEPT ![c] = to]
        /\ \E n \in Int : need' = [need EXCEPT ![c] = n]
        /\ \E p \in Cells : cell' = [cell EXCEPT ![c] = p]
        /\ UNCHANGED <<disk, entries, locks, m_lock, req, movs, free_db, left>>
    BY <1>7, NecessaryBlocksType DEF WalkEndTruncate
  <2> QED BY <2>1
<1>8. CASE AddTest(c)
  BY <1>8, TestBitType DEF AddTest
<1>9. CASE AddSet(c)
  BY <1>9 DEF AddSet, Link
<1>10. CASE AddDone(c)
  BY <1>10 DEF AddDone
<1>11. CASE AddNoSpace(c)
  BY <1>11, NecessaryBlocksType DEF AddNoSpace
<1>12. CASE UndoSeek(c)
  <2>1. /\ pc[c] # "idle"
        /\ \E to \in {"undo_seek", "release_lock", "wild"} : pc' = [pc EXCEPT ![c] = to]
        /\ \E n \in Int : need' = [need EXCEPT ![c] = n]
        /\ \E p \in Cells : cell' = [cell EXCEPT ![c] = p]
        /\ UNCHANGED <<disk, entries, locks, m_lock, req, movs, free_db, left>>
    BY <1>12 DEF UndoSeek, Follow, Load
  <2> QED BY <2>1
<1>13. CASE Release(c)
  BY <1>13 DEF Release, Load
<1>14. CASE ReleaseEnd(c)
  BY <1>14 DEF ReleaseEnd
<1>15. CASE DataSeek(c)
  <2>1. /\ pc[c] # "idle"
        /\ \E to \in {"data_seek", "copy", "wild"} : pc' = [pc EXCEPT ![c] = to]
        /\ \E n \in Int : need' = [need EXCEPT ![c] = n]
        /\ \E p \in Cells : cell' = [cell EXCEPT ![c] = p]
        /\ UNCHANGED <<disk, entries, locks, m_lock, req, movs, free_db, left>>
    BY <1>15 DEF DataSeek, Follow, Load
  <2> QED BY <2>1
<1>16. CASE CopyBlock(c)
  <2>1. /\ pc[c] # "idle"
        /\ \E to \in {"copy", "ok", "wild"} : pc' = [pc EXCEPT ![c] = to]
        /\ \E n \in Int : left' = [left EXCEPT ![c] = n]
        /\ \E p \in Cells : cell' = [cell EXCEPT ![c] = p]
        /\ UNCHANGED <<disk, entries, locks, m_lock, req, movs, need, free_db>>
    BY <1>16 DEF CopyBlock, Load
  <2> QED BY <2>1
<1>17. CASE CopyEnd(c)
  BY <1>17 DEF CopyEnd
<1>18. CASE Reply(c)
  BY <1>18 DEF Reply, Unlock, NoRequest
<1> QED BY <1>1, <1>2, <1>3, <1>4, <1>5, <1>6, <1>7, <1>8, <1>9, <1>10, <1>11,
           <1>12, <1>13, <1>14, <1>15, <1>16, <1>17, <1>18 DEF Continue

\* Type correctness of the block layer for every volume, every number of
\* clients and every sequence of requests.
THEOREM TypeCorrect == Spec => []TypeOK
<1>1. TypeOK /\ [Next]_vars => TypeOK'
  <2> SUFFICES ASSUME TypeOK, [Next]_vars PROVE TypeOK'
    OBVIOUS
  <2>1. CASE Next
    BY <2>1, StartType, ContinueType DEF Next
  <2>2. CASE UNCHANGED vars
    BY <2>2 DEF vars, disk, entries, locks, locals, TypeOK
  <2> QED BY <2>1, <2>2
<1> QED BY <1>1, InitType, PTL DEF Spec

-----------------------------------------------------------------------------
(* The inductive invariant *)

OnChain == {"walk", "add_lock", "add_test", "add_set", "undo_seek",
            "release_lock", "data_seek", "copy"}

LEMMA InitInv == Init => IInv
<1> SUFFICES ASSUME Init PROVE IInv
  OBVIOUS
<1>1. TypeOK
  BY InitType
<1>2. MutexHeld /\ EntryHeld /\ FoundIsFree /\ CellIsOwn /\ ReleaseIsOwn
  BY BlocksFacts DEF Init, MutexHeld, EntryHeld, FoundIsFree, CellIsOwn, ReleaseIsOwn,
     Critical, NoRequest
<1>3. OwnersAgree /\ NoCrossLink
  BY BlocksFacts, DataAssumption DEF Init, OwnersAgree, NoCrossLink, Allocated
<1> QED BY <1>1, <1>2, <1>3 DEF IInv

\* A step that leaves the blocks, the locks of the entries and the requests
\* alone preserves the invariant if the thread that takes it stays where the
\* invariant wants it.
LEMMA LocalStep ==
  ASSUME IInv, TypeOK', NEW c \in Clients,
         UNCHANGED <<bitmap, mapping, owner, first_block, wlock, rlock, req>>,
         \A d \in Clients \ {c} :
           pc'[d] = pc[d] /\ cell'[d] = cell[d] /\ free_db'[d] = free_db[d],
         pc[c] # "idle", pc'[c] # "idle",
         \/ m_lock' = m_lock /\ (pc[c] \in Critical <=> pc'[c] \in Critical)
         \/ m_lock = NoClient /\ m_lock' = c /\ pc'[c] \in Critical
         \/ m_lock = c /\ m_lock' = NoClient /\ pc'[c] \notin Critical,
         req[c].op = "read" => pc'[c] \in {"data_seek", "copy", "ok", "wild"},
         pc'[c] \in {"first_set", "add_set"} => free_db'[c] \notin bitmap,
         pc'[c] \in OnChain => cell'[c] = Head \/ owner[cell'[c]] = req[c].file,
         pc'[c] = "release" => cell'[c] = Head \/ owner[cell'[c]] = req[c].file
  PROVE  IInv'
<1>1. MutexHeld'
  BY BlocksFacts DEF IInv, MutexHeld
<1>2. EntryHeld'
  BY DEF IInv, EntryHeld
<1>3. (OwnersAgree /\ NoCrossLink)'
  BY DEF IInv, OwnersAgree, NoCrossLink, Allocated
<1>4. FoundIsFree'
  BY DEF IInv, FoundIsFree
<1>5. CellIsOwn'
  BY DEF IInv, CellIsOwn, OnChain
<1>6. ReleaseIsOwn'
  BY DEF IInv, ReleaseIsOwn, Unreached, Allocated
<1> QED BY <1>1, <1>2, <1>3, <1>4, <1>5, <1>6 DEF IInv

\* A request that starts takes the lock of its entry; an entry that is created
\* has no chain.
LEMMA StartInv ==
  ASSUME IInv, NEW c \in Clients, Start(c)
  PROVE  IInv'
<1> PICK f \in Files :
      \/ CreateNode(c, f)
      \/ \E offset, size \in Sizes :
           /\ size > 0 /\ offset + size <= MaxSize
           /\ Write(c, f, offset, size) \/ Read(c, f, offset, size)
      \/ \E new_size \in Sizes : Truncate(c, f, new_size)
      \/ Unlink(c, f)
  BY DEF Start
<1>0. TypeOK /\ TypeOK'
  BY StartType DEF IInv
<1>1. CASE CreateNode(c, f)
  <2>1. UNCHANGED <<bitmap, mapping, owner, wlock, rlock, m_lock, pc, req, cell, free_db>>
    BY <1>1 DEF CreateNode, disk, locks, locals
  <2>2. first_block' = [first_block EXCEPT ![f] = END_OF_FILE]
    BY <1>1 DEF CreateNode
  <2>3. \A g \in Files : first_block'[g] = first_block[g] \/ first_block'[g] = END_OF_FILE
    BY <1>0, <2>2 DEF TypeOK
  <2>4. (OwnersAgree /\ NoCrossLink)'
    BY <2>1, <2>3 DEF IInv, OwnersAgree, NoCrossLink, Allocated
  <2>5. (MutexHeld /\ EntryHeld /\ FoundIsFree /\ CellIsOwn)'
    BY <2>1 DEF IInv, MutexHeld, EntryHeld, FoundIsFree, CellIsOwn
  <2>6. ReleaseIsOwn'
    BY <1>0, <2>1, <2>3, BlocksFacts
    DEF IInv, ReleaseIsOwn, Unreached, Allocated, TypeOK, Pointers
  <2> QED BY <1>0, <2>4, <2>5, <2>6 DEF IInv
<1>2. ASSUME NEW op \in {"write", "truncate", "unlink", "read"},
             UNCHANGED <<disk, first_block, m_lock>>,
             pc[c] = "idle",
             \A d \in Clients \ {c} : /\ pc'[d] = pc[d] /\ cell'[d] = cell[d]
                                      /\ free_db'[d] = free_db[d] /\ req'[d] = req[d],
             req'[c].op = op, req'[c].file = f,
             pc'[c] \notin Critical, pc'[c] # "idle",
             op = "read" => /\ pc'[c] \in {"data_seek", "ok", "wild"}
                            /\ ReadLock(c, f),
             op # "read" => WriteLock(c, f),
             cell'[c] = Head \/ owner[cell'[c]] = f
      PROVE  IInv'
  <2>1. MutexHeld'
    BY <1>2 DEF IInv, MutexHeld, Critical
  <2>2. EntryHeld'
    <3>1. CASE op = "read"
      <4>1. /\ wlock[f] = NoClient /\ wlock' = wlock
            /\ rlock' = [rlock EXCEPT ![f] = rlock[f] \cup {c}]
        BY <1>2, <3>1 DEF ReadLock
      <4> QED BY <1>0, <1>2, <3>1, <4>1 DEF IInv, EntryHeld, TypeOK
    <3>2. CASE op # "read"
      <4>1. /\ wlock[f] = NoClient /\ rlock[f] = {} /\ rlock' = rlock
            /\ wlock' = [wlock EXCEPT ![f] = c]
        BY <1>2, <3>2 DEF WriteLock
      <4>2. ASSUME NEW d \in Clients, pc'[d] # "idle"
            PROVE  IF req'[d].op = "read" THEN d \in rlock'[req'[d].file]
                   ELSE wlock'[req'[d].file] = d
        <5>1. CASE d = c
          BY <1>0, <1>2, <3>2, <4>1, <5>1 DEF TypeOK
        <5>2. CASE d # c
          <6>1. pc[d] # "idle" /\ req'[d] = req[d] /\ req[d].file \in Files
            BY <1>0, <1>2, <4>2, <5>2 DEF TypeOK
          <6>2. IF req[d].op = "read" THEN d \in rlock[req[d].file]
                ELSE wlock[req[d].file] = d
            BY <6>1 DEF IInv, EntryHeld
          <6> QED BY <1>0, <4>1, <6>1, <6>2, BlocksFacts DEF TypeOK
        <5> QED BY <5>1, <5>2
      <4>3. \A d \in Clients :
              req'[d].op = "read" => pc'[d] \in {"data_seek", "copy", "ok", "wild"}
        BY <1>2, <3>2 DEF IInv, EntryHeld
      <4>4. \A g \in Files : wlock'[g] # NoClient => rlock'[g] = {}
        BY <1>0, <4>1 DEF IInv, EntryHeld, TypeOK
      <4> QED BY <4>2, <4>3, <4>4 DEF EntryHeld
    <3> QED BY <3>1, <3>2
  <2>3. (OwnersAgree /\ NoCrossLink)'
    BY <1>2 DEF IInv, OwnersAgree, NoCrossLink, Allocated, disk
  <2>4. (FoundIsFree /\ CellIsOwn)'
    BY <1>2 DEF IInv, FoundIsFree, CellIsOwn, disk, Critical
  <2>5. ReleaseIsOwn'
    BY <1>2 DEF IInv, ReleaseIsOwn, Unreached, Allocated, disk, Critical
  <2> QED BY <1>0, <2>1, <2>2, <2>3, <2>4, <2>5 DEF IInv
<1>3. ASSUME NEW offset \in Sizes, NEW size \in Sizes, Write(c, f, offset, size)
      PROVE  IInv'
  <2>1. cell'[c] = Head \/ (first_block[f] # END_OF_FILE /\ cell'[c] = first_block[f])
    BY <1>0, <1>3 DEF Write, Set, TypeOK
  <2>2. cell'[c] = Head \/ owner[cell'[c]] = f
    BY <2>1 DEF IInv, OwnersAgree
  <2>3. pc'[c] \in {"first_lock", "walk", "data_seek"}
    BY <1>0, <1>3 DEF Write, Goto, TypeOK
  <2>4. \A d \in Clients \ {c} : /\ pc'[d] = pc[d] /\ cell'[d] = cell[d]
                                 /\ free_db'[d] = free_db[d] /\ req'[d] = req[d]
    BY <1>0, <1>3 DEF Write, Goto, Set, TypeOK
  <2>5. req'[c].op = "write" /\ req'[c].file = f
    BY <1>0, <1>3 DEF Write, Set, Request, TypeOK
  <2>6. pc[c] = "idle" /\ WriteLock(c, f) /\ UNCHANGED <<disk, first_block, m_lock>>
    BY <1>3 DEF Write
  <2> QED BY <1>2, <2>2, <2>3, <2>4, <2>5, <2>6 DEF Critical
<1>4. ASSUME NEW offset \in Sizes, NEW size \in Sizes, Read(c, f, offset, size)
      PROVE  IInv'
  <2>1. cell'[c] = Head
    BY <1>0, <1>4 DEF Read, Set, TypeOK
  <2>2. pc'[c] \in {"data_seek", "ok", "wild"}
    BY <1>0, <1>4 DEF Read, Goto, TypeOK
  <2>3. \A d \in Clients \ {c} : /\ pc'[d] = pc[d] /\ cell'[d] = cell[d]
                                 /\ free_db'[d] = free_db[d] /\ req'[d] = req[d]
    BY <1>0, <1>4 DEF Read, Goto, Set, TypeOK
  <2>4. req'[c].op = "read" /\ req'[c].file = f
    BY <1>0, <1>4 DEF Read, Set, Request, TypeOK
  <2>5. pc[c] = "idle" /\ ReadLock(c, f) /\ UNCHANGED <<disk, first_block, m_lock>>
    BY <1>4 DEF Read, entries
  <2> QED BY <1>2, <2>1, <2>2, <2>3, <2>4, <2>5 DEF Critical
<1>5. ASSUME NEW new_size \in Sizes, Truncate(c, f, new_size)
      PROVE  IInv'
  <2>1. cell'[c] = Head /\ pc'[c] \in {"ok", "walk"}
    BY <1>0, <1>5 DEF Truncate, Goto, Set, TypeOK
  <2>2. \A d \in Clients \ {c} : /\ pc'[d] = pc[d] /\ cell'[d] = cell[d]
                                 /\ free_db'[d] = free_db[d] /\ req'[d] = req[d]
    BY <1>0, <1>5 DEF Truncate, Goto, Set, TypeOK
  <2>3. req'[c].op = "truncate" /\ req'[c].file = f
    BY <1>0, <1>5 DEF Truncate, Set, Request, TypeOK
  <2>4. pc[c] = "idle" /\ WriteLock(c, f) /\ UNCHANGED <<disk, first_block, m_lock>>
    BY <1>5 DEF Truncate
  <2> QED BY <1>2, <2>1, <2>2, <2>3, <2>4 DEF Critical
<1>6. CASE Unlink(c, f)
  <2>1. cell'[c] = Head /\ pc'[c] = "release_lock"
    BY <1>0, <1>6 DEF Unlink, Goto, Set, TypeOK
  <2>2. \A d \in Clients \ {c} : /\ pc'[d] = pc[d] /\ cell'[d] = cell[d]
                                 /\ free_db'[d] = free_db[d] /\ req'[d] = req[d]
    BY <1>0, <1>6 DEF Unlink, Goto, Set, TypeOK
  <2>3. req'[c].op = "unlink" /\ req'[c].file = f
    BY <1>0, <1>6 DEF Unlink, Set, Request, TypeOK
  <2>4. pc[c] = "idle" /\ WriteLock(c, f) /\ UNCHANGED <<disk, first_block, m_lock>>
    BY <1>6 DEF Unlink, entries
  <2> QED BY <1>2, <2>1, <2>2, <2>3, <2>4 DEF Critical
<1> QED BY <1>1, <1>3, <1>4, <1>5, <1>6

\* The threads that hold m_lock, or that only walk and copy.
LEMMA LocalActionsInv ==
  ASSUME IInv, NEW c \in Clients,
         \/ TakeLock(c) \/ FirstTest(c) \/ FirstNone(c)
         \/ Walk(c) \/ WalkEndWrite(c) \/ WalkEndTruncate(c)
         \/ AddTest(c) \/ AddDone(c) \/ AddNoSpace(c)
         \/ UndoSeek(c) \/ ReleaseEnd(c)
         \/ DataSeek(c) \/ CopyBlock(c) \/ CopyEnd(c)
  PROVE  IInv'
<1> DEFINE f == req[c].file
<1>0. TypeOK /\ TypeOK'
  BY ContinueType DEF IInv, Continue
<1>1. /\ UNCHANGED <<bitmap, mapping, owner, first_block, wlock, rlock, req>>
      /\ \A d \in Clients \ {c} :
           pc'[d] = pc[d] /\ cell'[d] = cell[d] /\ free_db'[d] = free_db[d]
  BY <1>0 DEF TakeLock, FirstLock, AddLock, ReleaseLock, Acquire, FirstTest, AddTest, TestBit,
     FirstNone, Walk, WalkEndWrite, WalkEndTruncate, AddDone, AddNoSpace, UndoSeek, ReleaseEnd,
     DataSeek, CopyBlock, CopyEnd, Follow, Goto, Set, disk, entries, locks, locals, TypeOK
<1>2. pc[c] # "idle" => f \in Files
  BY <1>0 DEF TypeOK
\* Following a pointer from the thread's own chain stays on that chain.
<1>3. pc[c] \in OnChain /\ Load(f, cell[c]) # END_OF_FILE => owner[Load(f, cell[c])] = f
  BY <1>0, <1>2, BlocksFacts
  DEF IInv, CellIsOwn, OwnersAgree, Load, OnChain, TypeOK, Cells, Allocated
<1>4. CASE FirstLock(c) \/ AddLock(c) \/ ReleaseLock(c)
  <2>1. PICK from \in {"first_lock", "add_lock", "release_lock"},
             to \in {"first_test", "add_test", "release"} :
          /\ pc[c] = from /\ pc'[c] = to /\ m_lock = NoClient /\ m_lock' = c
          /\ cell' = cell /\ free_db' = free_db
          /\ to # "first_test" => from # "first_lock"
    BY <1>0, <1>4 DEF FirstLock, AddLock, ReleaseLock, Acquire, Goto, locals, TypeOK
  <2>2. pc'[c] # "first_test" => cell[c] = Head \/ owner[cell[c]] = f
    BY <2>1 DEF IInv, CellIsOwn
  <2>3. req[c].op # "read"
    BY <2>1 DEF IInv, EntryHeld
  <2> QED BY <1>0, <1>1, <2>1, <2>2, <2>3, LocalStep DEF Critical, OnChain
<1>5. CASE FirstTest(c) \/ AddTest(c)
  <2>1. /\ pc[c] \in {"first_test", "add_test"} /\ m_lock' = m_lock /\ cell' = cell
        /\ \/ pc' = pc
           \/ /\ pc'[c] \in {"first_set", "add_set"}
              /\ free_db'[c] \notin bitmap
              /\ pc'[c] = "add_set" => pc[c] = "add_test"
    BY <1>0, <1>5 DEF FirstTest, AddTest, TestBit, Goto, Set, TypeOK
  <2>2. pc[c] = "add_test" => cell[c] = Head \/ owner[cell[c]] = f
    BY DEF IInv, CellIsOwn
  <2>3. req[c].op # "read"
    BY <2>1 DEF IInv, EntryHeld
  <2> QED BY <1>0, <1>1, <2>1, <2>2, <2>3, LocalStep DEF Critical, OnChain
<1>6. CASE FirstNone(c) \/ AddDone(c) \/ AddNoSpace(c) \/ ReleaseEnd(c)
  <2>1. /\ pc[c] \in {"first_test", "add_test", "release"} /\ m_lock' = NoClient
        /\ pc'[c] \in {"enospc", "ok", "data_seek", "undo_seek"}
        /\ cell'[c] = cell[c] \/ cell'[c] = Head
        /\ pc'[c] \in {"data_seek", "undo_seek"} => cell'[c] = Head
    BY <1>0, <1>6 DEF FirstNone, AddDone, AddNoSpace, ReleaseEnd, Goto, Set, locals, TypeOK
  <2>2. m_lock = c
    BY <2>1 DEF IInv, MutexHeld, Critical
  <2>3. req[c].op # "read"
    BY <2>1 DEF IInv, EntryHeld
  <2> QED BY <1>0, <1>1, <2>1, <2>2, <2>3, LocalStep DEF Critical, OnChain
<1>7. CASE Walk(c) \/ UndoSeek(c) \/ DataSeek(c) \/ CopyBlock(c) \/ CopyEnd(c)
  <2>1. /\ pc[c] \in {"walk", "undo_seek", "data_seek", "copy"} /\ m_lock' = m_lock
        /\ pc'[c] \in {"walk", "undo_seek", "data_seek", "copy", "release_lock", "ok", "wild"}
        /\ pc'[c] \in {"walk", "undo_seek", "release_lock"} => pc[c] \in {"walk", "undo_seek"}
        /\ \/ cell'[c] = cell[c]
           \/ Load(f, cell[c]) # END_OF_FILE /\ cell'[c] = Load(f, cell[c])
    BY <1>0, <1>7
    DEF Walk, UndoSeek, DataSeek, CopyBlock, CopyEnd, Follow, Goto, Set, locals, TypeOK
  <2>2. cell'[c] = Head \/ owner[cell'[c]] = f
    BY <1>3, <2>1 DEF IInv, CellIsOwn, OnChain
  <2>3. req[c].op = "read" => pc[c] \in {"data_seek", "copy"}
    BY <2>1 DEF IInv, EntryHeld
  <2> QED BY <1>0, <1>1, <2>1, <2>2, <2>3, LocalStep DEF Critical, OnChain
<1>8. CASE WalkEndWrite(c) \/ WalkEndTruncate(c)
  <2>1. /\ pc[c] = "walk" /\ m_lock' = m_lock
        /\ pc'[c] \in {"add_lock", "undo_seek", "ok"}
        /\ cell'[c] = cell[c] \/ cell'[c] = Head
    BY <1>0, <1>8 DEF WalkEndWrite, WalkEndTruncate, Goto, Set, TypeOK
  <2>2. cell[c] = Head \/ owner[cell[c]] = f
    BY <2>1 DEF IInv, CellIsOwn
  <2>3. req[c].op # "read"
    BY <2>1 DEF IInv, EntryHeld
  <2> QED BY <1>0, <1>1, <2>1, <2>2, <2>3, LocalStep DEF Critical, OnChain
<1> QED BY <1>4, <1>5, <1>6, <1>7, <1>8 DEF TakeLock

\* The block that a search found is linked at the end of the thread's chain.
LEMMA LinkInv ==
  ASSUME IInv, NEW c \in Clients, FirstSet(c) \/ AddSet(c)
  PROVE  IInv'
<1> DEFINE f == req[c].file
           pos == free_db[c]
           p == IF pc[c] = "first_set" THEN Head ELSE cell[c]
<1>0. TypeOK /\ TypeOK'
  BY ContinueType DEF IInv, Continue
<1>1. /\ pc[c] \in {"first_set", "add_set"} /\ Link(f, p, pos)
      /\ pc'[c] \in {"walk", "add_test"} /\ cell'[c] = pos
      /\ pc[c] = "first_set" => pc'[c] = "walk" /\ m_lock' = NoClient
      /\ pc[c] = "add_set" => pc'[c] = "add_test" /\ m_lock' = m_lock
      /\ UNCHANGED <<wlock, rlock, req>>
      /\ \A d \in Clients \ {c} :
           pc'[d] = pc[d] /\ cell'[d] = cell[d] /\ free_db'[d] = free_db[d]
  BY <1>0 DEF FirstSet, AddSet, Goto, Set, locks, TypeOK
<1>2. f \in Files /\ pos \in Blocks /\ pos \notin bitmap /\ pos # Head
  BY <1>0, <1>1, BlocksFacts DEF IInv, FoundIsFree, TypeOK
<1>3. p = Head \/ (p \in Blocks /\ owner[p] = f)
  BY <1>0, <1>1 DEF IInv, CellIsOwn, TypeOK, Cells
<1>4. owner[pos] = NoFile /\ p # pos /\ f # NoFile
  BY <1>2, <1>3, BlocksFacts DEF IInv, OwnersAgree
<1>5. /\ \A b \in Blocks : b # pos => owner'[b] = owner[b]
      /\ owner'[pos] = f
      /\ bitmap' = bitmap \cup {pos}
      /\ mapping'[pos] = END_OF_FILE
      /\ p # Head => mapping'[p] = pos
      /\ \A b \in Blocks : b # pos /\ b # p => mapping'[b] = mapping[b]
      /\ p = Head => first_block'[f] = pos
      /\ \A g \in Files : g # f \/ p # Head => first_block'[g] = first_block[g]
  BY <1>0, <1>1, <1>2, <1>3, <1>4 DEF Link, TypeOK
<1> HIDE DEF f, pos, p
<1>6. Allocated' = Allocated \cup {pos}
  BY <1>2, <1>4, <1>5 DEF Allocated
<1>7. \A g \in Files : first_block[g] \in Blocks \ {pos} \/ first_block[g] = END_OF_FILE
  BY <1>0, <1>4, BlocksFacts DEF IInv, OwnersAgree, TypeOK, Pointers
<1>8. \A b \in Allocated : mapping[b] \in Blocks \ {pos} \/ mapping[b] = END_OF_FILE
  BY <1>0, <1>4, BlocksFacts DEF IInv, OwnersAgree, TypeOK, Pointers, Allocated
<1>9. OwnersAgree'
  <2>1. (Reserved \subseteq bitmap)'
    BY <1>5 DEF IInv, OwnersAgree
  <2>2. (\A b \in Blocks : owner[b] # NoFile <=> b \in bitmap \ Reserved)'
    BY <1>2, <1>4, <1>5 DEF IInv, OwnersAgree
  <2>3. (\A g \in Files : first_block[g] # END_OF_FILE => owner[first_block[g]] = g)'
    BY <1>2, <1>5, <1>7 DEF IInv, OwnersAgree
  <2>4. (\A b \in Allocated : mapping[b] # END_OF_FILE => owner[mapping[b]] = owner[b])'
    <3> SUFFICES ASSUME NEW b \in Allocated', mapping'[b] # END_OF_FILE
                 PROVE  owner'[mapping'[b]] = owner'[b]
      OBVIOUS
    <3>1. b # pos /\ b \in Allocated /\ b \in Blocks
      BY <1>5, <1>6 DEF Allocated
    <3>2. CASE b = p
      BY <1>3, <1>5, <3>1, <3>2, BlocksFacts
    <3>3. CASE b # p
      BY <1>5, <1>8, <3>1, <3>3 DEF IInv, OwnersAgree
    <3> QED BY <3>2, <3>3
  <2> QED BY <2>1, <2>2, <2>3, <2>4 DEF OwnersAgree
<1>10. NoCrossLink'
  <2>1. (\A g, h \in Files :
           g # h /\ first_block[g] # END_OF_FILE => first_block[g] # first_block[h])'
    BY <1>5, <1>7 DEF IInv, NoCrossLink
  <2>2. (\A g \in Files, b \in Allocated :
           first_block[g] # END_OF_FILE => first_block[g] # mapping[b])'
    BY <1>2, <1>3, <1>4, <1>5, <1>6, <1>7, <1>8, BlocksFacts DEF IInv, NoCrossLink, Allocated
  <2>3. (\A a, b \in Allocated :
           a # b /\ mapping[a] # END_OF_FILE => mapping[a] # mapping[b])'
    BY <1>2, <1>3, <1>4, <1>5, <1>6, <1>8, BlocksFacts DEF IInv, NoCrossLink, Allocated
  <2> QED BY <2>1, <2>2, <2>3 DEF NoCrossLink
<1>11. m_lock = c /\ \A d \in Clients \ {c} : pc[d] \notin Critical
  BY <1>1 DEF IInv, MutexHeld, Critical
<1>12. MutexHeld'
  BY <1>1, <1>11, BlocksFacts DEF IInv, MutexHeld, Critical
<1>13. EntryHeld'
  BY <1>1 DEF IInv, EntryHeld
<1>14. FoundIsFree'
  BY <1>1, <1>11 DEF FoundIsFree, Critical
<1>15. CellIsOwn'
  <2> SUFFICES ASSUME NEW d \in Clients, pc'[d] \in OnChain
               PROVE  cell'[d] = Head \/ owner'[cell'[d]] = req'[d].file
    BY DEF CellIsOwn, OnChain
  <2>1. CASE d = c
    BY <1>1, <1>5, <2>1 DEF f, pos
  <2>2. CASE d # c
    <3>1. cell[d] = Head \/ owner[cell[d]] = req[d].file
      BY <1>1, <2>2 DEF IInv, CellIsOwn, OnChain
    <3>2. req[d].file \in Files /\ cell[d] \in Cells
      BY <1>0, <1>1, <2>2 DEF TypeOK, OnChain
    <3> QED BY <1>1, <1>4, <1>5, <2>2, <3>1, <3>2, BlocksFacts DEF Cells
  <2> QED BY <2>1, <2>2
<1>16. ReleaseIsOwn'
  BY <1>1, <1>11 DEF ReleaseIsOwn, Critical
<1> QED BY <1>0, <1>9, <1>10, <1>12, <1>13, <1>14, <1>15, <1>16 DEF IInv

\* A block is given back: only its own chain entered it, from the place that
\* is overwritten, so no pointer in use leads to it any more.
LEMMA ReleaseInv ==
  ASSUME IInv, NEW c \in Clients, Release(c)
  PROVE  IInv'
<1> DEFINE f == req[c].file
           p == cell[c]
           aux == Load(f, p)
<1>0. TypeOK /\ TypeOK'
  BY ContinueType DEF IInv, Continue
<1>1. /\ pc[c] = "release" /\ aux # END_OF_FILE
      /\ bitmap' = bitmap \ {aux}
      /\ owner' = [owner EXCEPT ![aux] = NoFile]
      /\ mapping' = [b \in Blocks |-> IF b = p THEN END_OF_FILE ELSE mapping[b]]
      /\ first_block' = [g \in Files |-> IF g = f /\ p = Head THEN END_OF_FILE
                                         ELSE first_block[g]]
      /\ cell' = [cell EXCEPT ![c] = aux]
      /\ UNCHANGED <<wlock, rlock, req, pc, m_lock, free_db>>
  BY DEF Release, locks, Set
<1>2. /\ f \in Files /\ f # NoFile /\ p \in Cells /\ aux \in Blocks /\ aux # Head
      /\ wlock[f] = c
  <2>1. f \in Files /\ f # NoFile /\ p \in Cells
    BY <1>0, <1>1, BlocksFacts DEF TypeOK
  <2>2. aux \in Blocks /\ aux # Head
    BY <1>0, <1>1, <2>1, BlocksFacts DEF TypeOK, Load, Cells, Pointers
  <2>3. req[c].op # "read" /\ pc[c] # "idle"
    BY <1>1 DEF IInv, EntryHeld
  <2> QED BY <2>1, <2>2, <2>3 DEF IInv, EntryHeld
<1>3. owner[aux] = f /\ aux \notin Reserved
  BY <1>0, <1>1, <1>2, BlocksFacts
  DEF IInv, ReleaseIsOwn, OwnersAgree, Load, Cells, Allocated
<1>4. p # Head => p \in Blocks /\ Load(f, p) = mapping[p]
  BY <1>2 DEF Load, Cells
<1>5. p = Head => Load(f, p) = first_block[f]
  BY DEF Load
\* p is the only place in use that leads to aux.
<1>6. /\ \A g \in Files : first_block[g] = aux => g = f /\ p = Head
      /\ \A b \in Allocated : mapping[b] = aux => b = p
  <2>1. CASE p = Head
    BY <1>1, <1>2, <1>3, <1>5, <2>1 DEF IInv, OwnersAgree, NoCrossLink, Allocated
  <2>2. CASE p # Head /\ owner[p] = f
    BY <1>1, <1>2, <1>3, <1>4, <2>2 DEF IInv, OwnersAgree, NoCrossLink, Allocated
  <2>3. CASE p # Head /\ owner[p] # f
    BY <1>1, <1>2, <1>4, <2>3 DEF IInv, ReleaseIsOwn, Unreached
  <2> QED BY <2>1, <2>2, <2>3
<1>7. /\ owner'[aux] = NoFile
      /\ \A b \in Blocks : b # aux => owner'[b] = owner[b]
      /\ Allocated' = Allocated \ {aux}
      /\ \A b \in Blocks : mapping'[b] = IF b = p THEN END_OF_FILE ELSE mapping[b]
      /\ \A g \in Files : first_block'[g] = IF g = f /\ p = Head THEN END_OF_FILE
                                            ELSE first_block[g]
  BY <1>0, <1>1, <1>2 DEF Allocated, TypeOK
<1> HIDE DEF f, p, aux
<1>8. /\ \A g \in Files : first_block'[g] \in (Blocks \ {aux}) \cup {END_OF_FILE}
      /\ \A b \in Allocated' : mapping'[b] \in (Blocks \ {aux}) \cup {END_OF_FILE}
  BY <1>0, <1>6, <1>7 DEF TypeOK, Pointers, Allocated
<1>9. OwnersAgree'
  <2>1. (Reserved \subseteq bitmap)'
    BY <1>1, <1>3 DEF IInv, OwnersAgree
  <2>2. (\A b \in Blocks : owner[b] # NoFile <=> b \in bitmap \ Reserved)'
    BY <1>1, <1>2, <1>7 DEF IInv, OwnersAgree
  <2>3. (\A g \in Files : first_block[g] # END_OF_FILE => owner[first_block[g]] = g)'
    BY <1>7, <1>8 DEF IInv, OwnersAgree
  <2>4. (\A b \in Allocated : mapping[b] # END_OF_FILE => owner[mapping[b]] = owner[b])'
    BY <1>7, <1>8 DEF IInv, OwnersAgree, Allocated
  <2> QED BY <2>1, <2>2, <2>3, <2>4 DEF OwnersAgree
<1>10. NoCrossLink'
  <2>1. (\A g, h \in Files :
           g # h /\ first_block[g] # END_OF_FILE => first_block[g] # first_block[h])'
    BY <1>7 DEF IInv, NoCrossLink
  <2>2. (\A g \in Files, b \in Allocated :
           first_block[g] # END_OF_FILE => first_block[g] # mapping[b])'
    BY <1>7 DEF IInv, NoCrossLink, Allocated
  <2>3. (\A a, b \in Allocated :
           a # b /\ mapping[a] # END_OF_FILE => mapping[a] # mapping[b])'
    BY <1>7 DEF IInv, NoCrossLink, Allocated
  <2> QED BY <2>1, <2>2, <2>3 DEF NoCrossLink
<1>11. \A d \in Clients \ {c} : pc[d] \notin Critical
  BY <1>1 DEF IInv, MutexHeld, Critical
<1>12. MutexHeld' /\ EntryHeld'
  BY <1>1 DEF IInv, MutexHeld, EntryHeld
<1>13. FoundIsFree'
  BY <1>1 DEF IInv, FoundIsFree
\* Another thread on the chain of f would hold a lock of the entry of f.
<1>14. CellIsOwn'
  <2> SUFFICES ASSUME NEW d \in Clients, pc'[d] \in OnChain
               PROVE  cell'[d] = Head \/ owner'[cell'[d]] = req'[d].file
    BY DEF CellIsOwn, OnChain
  <2>1. d # c
    BY <1>1 DEF OnChain
  <2>2. cell[d] = Head \/ owner[cell[d]] = req[d].file
    BY <1>1 DEF IInv, CellIsOwn, OnChain
  <2>3. req[d].file # f
    <3>1. pc[d] # "idle"
      BY <1>1 DEF OnChain
    <3>2. IF req[d].op = "read" THEN d \in rlock[req[d].file] ELSE wlock[req[d].file] = d
      BY <3>1 DEF IInv, EntryHeld
    <3>3. rlock[f] = {}
      BY <1>2, BlocksFacts DEF IInv, EntryHeld
    <3> QED BY <1>2, <2>1, <3>2, <3>3
  <2>4. cell'[d] = cell[d] /\ cell[d] \in Cells
    BY <1>0, <1>1, <2>1 DEF TypeOK
  <2> QED BY <1>1, <1>3, <1>7, <2>2, <2>3, <2>4 DEF Cells
<1>15. ReleaseIsOwn'
  <2>1. cell'[c] = aux /\ owner'[aux] = NoFile
    BY <1>0, <1>1, <1>7 DEF TypeOK
  <2>2. ASSUME mapping'[aux] # END_OF_FILE
        PROVE  /\ owner'[mapping'[aux]] = f
               /\ \A g \in Files : first_block'[g] # mapping'[aux]
               /\ \A b \in Allocated' : mapping'[b] # mapping'[aux]
    <3>1. aux # p /\ mapping'[aux] = mapping[aux] /\ mapping[aux] \in Blocks
      BY <1>0, <1>2, <1>7, <2>2 DEF TypeOK, Pointers
    <3>2. owner[mapping[aux]] = f /\ aux \in Allocated
      BY <1>2, <1>3, <2>2, <3>1 DEF IInv, OwnersAgree, Allocated
    <3>3. mapping[aux] # aux
      BY <1>6, <3>1, <3>2
    <3>4. \A g \in Files : first_block'[g] # mapping[aux]
      BY <1>7, <2>2, <3>1, <3>2 DEF IInv, NoCrossLink
    <3>5. ASSUME NEW b \in Allocated'
          PROVE  mapping'[b] # mapping[aux]
      <4>1. b \in Allocated /\ b # aux /\ b \in Blocks
        BY <1>7 DEF Allocated
      <4>2. CASE b = p
        BY <1>7, <3>1, <4>1, <4>2, BlocksFacts
      <4>3. CASE b # p
        BY <1>7, <2>2, <3>1, <3>2, <4>1, <4>3 DEF IInv, NoCrossLink
      <4> QED BY <4>2, <4>3
    <3> QED BY <1>7, <3>1, <3>2, <3>3, <3>4, <3>5
  <2> SUFFICES ASSUME NEW d \in Clients, pc'[d] = "release"
               PROVE  \/ cell'[d] = Head
                      \/ owner'[cell'[d]] = req'[d].file
                      \/ /\ owner'[cell'[d]] = NoFile
                         /\ mapping'[cell'[d]] # END_OF_FILE =>
                              /\ owner'[mapping'[cell'[d]]] = req'[d].file
                              /\ \A g \in Files : first_block'[g] # mapping'[cell'[d]]
                              /\ \A b \in Allocated' : mapping'[b] # mapping'[cell'[d]]
    BY DEF ReleaseIsOwn, Unreached
  <2>3. d = c /\ req'[c].file = f
    BY <1>1, <1>11 DEF Critical, f
  <2> QED BY <2>1, <2>2, <2>3
<1> QED BY <1>0, <1>9, <1>10, <1>12, <1>13, <1>14, <1>15 DEF IInv

\* The answer: the lock of the entry is given up and the thread is idle.
LEMMA ReplyInv ==
  ASSUME IInv, NEW c \in Clients, Reply(c)
  PROVE  IInv'
<1> DEFINE f == req[c].file
<1>0. TypeOK /\ TypeOK'
  BY ContinueType DEF IInv, Continue
<1>1. /\ pc[c] \in {"ok", "enospc"} /\ pc'[c] = "idle"
      /\ \A d \in Clients \ {c} : /\ pc'[d] = pc[d] /\ req'[d] = req[d]
                                  /\ cell'[d] = cell[d] /\ free_db'[d] = free_db[d]
      /\ req'[c].op = "none"
      /\ UNCHANGED <<bitmap, mapping, owner, first_block, m_lock>>
  BY <1>0 DEF Reply, Goto, Set, NoRequest, disk, entries, TypeOK
<1>2. /\ f \in Files
      /\ wlock' = [wlock EXCEPT ![f] = IF wlock[f] = c THEN NoClient ELSE wlock[f]]
      /\ rlock' = [rlock EXCEPT ![f] = rlock[f] \ {c}]
  BY <1>0, <1>1 DEF Reply, Unlock, TypeOK
<1>3. MutexHeld'
  BY <1>1 DEF IInv, MutexHeld, Critical
<1>4. EntryHeld'
  <2>1. ASSUME NEW d \in Clients, pc'[d] # "idle"
        PROVE  IF req'[d].op = "read" THEN d \in rlock'[req'[d].file]
               ELSE wlock'[req'[d].file] = d
    <3>1. d # c /\ req'[d] = req[d] /\ req[d].file \in Files
      BY <1>0, <1>1, <2>1 DEF TypeOK
    <3>2. IF req[d].op = "read" THEN d \in rlock[req[d].file] ELSE wlock[req[d].file] = d
      BY <1>1, <2>1, <3>1 DEF IInv, EntryHeld
    <3> QED BY <1>0, <1>2, <3>1, <3>2 DEF TypeOK
  <2>2. \A d \in Clients : req'[d].op = "read" => pc'[d] \in {"data_seek", "copy", "ok", "wild"}
    BY <1>1 DEF IInv, EntryHeld
  <2>3. \A g \in Files : wlock'[g] # NoClient => rlock'[g] = {}
    BY <1>0, <1>2 DEF IInv, EntryHeld, TypeOK
  <2> QED BY <2>1, <2>2, <2>3 DEF EntryHeld
<1>5. (OwnersAgree /\ NoCrossLink)'
  BY <1>1 DEF IInv, OwnersAgree, NoCrossLink, Allocated
<1>6. (FoundIsFree /\ CellIsOwn)'
  BY <1>1 DEF IInv, FoundIsFree, CellIsOwn
<1>7. ReleaseIsOwn'
  BY <1>1 DEF IInv, ReleaseIsOwn, Unreached, Allocated
<1> QED BY <1>0, <1>3, <1>4, <1>5, <1>6, <1>7 DEF IInv

\* IInv is inductive: locks, owners and in-flight pointers agree in every
\* reachable state, for any number of clients, files and blocks.
THEOREM Inductive == Spec => []IInv
<1>1. IInv /\ [Next]_vars => IInv'
  <2> SUFFICES ASSUME IInv, [Next]_vars PROVE IInv'
    OBVIOUS
  <2>1. ASSUME NEW c \in Clients, Start(c) \/ TakeLock(c) \/ Continue(c)
        PROVE  IInv'
    BY <2>1, StartInv, LocalActionsInv, LinkInv, ReleaseInv, ReplyInv DEF Continue
  <2>2. CASE UNCHANGED vars
    <3>1. TypeOK'
      BY <2>2 DEF vars, disk, entries, locks, locals, IInv, TypeOK
    <3>2. (MutexHeld /\ EntryHeld /\ FoundIsFree /\ CellIsOwn)'
      BY <2>2 DEF vars, disk, entries, locks, locals, IInv, MutexHeld, EntryHeld,
         FoundIsFree, CellIsOwn
    <3>3. (OwnersAgree /\ NoCrossLink /\ ReleaseIsOwn)'
      BY <2>2 DEF vars, disk, entries, locks, locals, IInv, OwnersAgree, NoCrossLink,
         ReleaseIsOwn, Unreached, Allocated
    <3> QED BY <3>1, <3>2, <3>3 DEF IInv
  <2> QED BY <2>1, <2>2 DEF Next
<1> QED BY <1>1, InitInv, PTL DEF Spec

\* No two files share a block and no block is entered from two places, however
\* the searches, appends and releases of the clients interleave.
THEOREM NoCrossLinkHolds == Spec => []NoCrossLink
BY Inductive, PTL DEF IInv

\* What is in use is busy in the bitmap, so no search hands it out again.
THEOREM NoDanglingHolds == Spec => []NoDangling
<1>1. IInv => NoDangling
  <2> SUFFICES ASSUME IInv PROVE NoDangling
    OBVIOUS
  <2>1. \A f \in Files : first_block[f] # END_OF_FILE => first_block[f] \in bitmap \ Reserved
    BY BlocksFacts DEF IInv, OwnersAgree, TypeOK, Pointers
  <2>2. \A b \in Allocated : b \in bitmap /\ mapping[b] \in bitmap \cup {END_OF_FILE}
    BY BlocksFacts DEF IInv, OwnersAgree, TypeOK, Pointers, Allocated
  <2> QED BY <2>1, <2>2 DEF NoDangling, IInv, OwnersAgree
<1> QED BY <1>1, Inductive, PTL

\* Two threads never copy to or from one block unless both are reading: the
\* entry locks alone, never taken on blocks, keep the data of files apart.
THEOREM CopiesAreExclusiveHolds == Spec => []CopiesAreExclusive
<1>1. IInv => CopiesAreExclusive
  <2> SUFFICES ASSUME IInv, NEW c \in Clients, NEW d \in Clients, c # d,
                      pc[c] = "copy", pc[d] = "copy",
                      Load(req[c].file, cell[c]) # END_OF_FILE,
                      Load(req[c].file, cell[c]) = Load(req[d].file, cell[d])
               PROVE  req[c].op = "read" /\ req[d].op = "read"
    BY DEF CopiesAreExclusive
  <2>1. ASSUME NEW e \in {c, d}
        PROVE  owner[Load(req[e].file, cell[e])] = req[e].file /\ req[e].file \in Files
    <3>1. req[e].file \in Files /\ cell[e] \in Cells
      BY DEF IInv, TypeOK
    <3>2. cell[e] = Head \/ owner[cell[e]] = req[e].file
      BY DEF IInv, CellIsOwn
    <3>3. Load(req[e].file, cell[e]) # END_OF_FILE
      OBVIOUS
    <3> QED BY <3>1, <3>2, <3>3, BlocksFacts DEF IInv, OwnersAgree, Load, Cells, Allocated
  <2>2. req[c].file = req[d].file
    BY <2>1
  <2>3. \A e \in {c, d} : IF req[e].op = "read" THEN e \in rlock[req[e].file]
                          ELSE wlock[req[e].file] = e
    BY DEF IInv, EntryHeld
  <2> QED BY <2>1, <2>2, <2>3, BlocksFacts DEF IInv, EntryHeld, TypeOK
<1> QED BY <1>1, Inductive, PTL

-----------------------------------------------------------------------------
(* Refusals *)

\* What one thread has passed is not given back by another, which would need
\* m_lock for it.
LEMMA PassedOfOthers ==
  ASSUME MutexHeld, PassedIsTaken, NEW c \in Clients,
         \A d \in Clients \ {c} : pc'[d] = pc[d] /\ free_db'[d] = free_db[d],
         bitmap \subseteq bitmap' \/ pc[c] = "release",
         pc'[c] \in {"first_lock", "walk", "add_lock"} => free_db'[c] = 0,
         pc'[c] \in {"first_test", "first_set", "add_test", "add_set"} =>
           \A b \in Blocks : b < free_db'[c] => b \in bitmap'
  PROVE  PassedIsTaken'
BY DEF PassedIsTaken, MutexHeld, Critical

LEMMA PassedStart ==
  ASSUME TypeOK, MutexHeld, PassedIsTaken, NEW c \in Clients, Start(c)
  PROVE  PassedIsTaken'
<1>1. /\ \A d \in Clients \ {c} : pc'[d] = pc[d] /\ free_db'[d] = free_db[d]
      /\ bitmap' = bitmap
      /\ pc'[c] \in {"first_lock", "walk", "add_lock"} => free_db'[c] = 0
      /\ pc'[c] \notin {"first_test", "first_set", "add_test", "add_set"}
  BY DEF Start, CreateNode, Write, Read, Truncate, Unlink, TypeOK, Goto, Set, disk, locals
<1> QED BY <1>1, PassedOfOthers

LEMMA PassedSearch ==
  ASSUME TypeOK, MutexHeld, PassedIsTaken, NEW c \in Clients,
         TestBit(c, "first_test", "first_set") \/ TestBit(c, "add_test", "add_set")
  PROVE  PassedIsTaken'
<1>1. /\ \A d \in Clients \ {c} : pc'[d] = pc[d] /\ free_db'[d] = free_db[d]
      /\ bitmap' = bitmap
      /\ pc[c] \in {"first_test", "add_test"} /\ free_db[c] \in Nat
      /\ \/ free_db[c] \in bitmap /\ free_db'[c] = free_db[c] + 1 /\ pc'[c] = pc[c]
         \/ pc'[c] \in {"first_set", "add_set"} /\ free_db'[c] = free_db[c]
  BY DataAssumption DEF TestBit, TypeOK, Goto, Set, disk
<1>2. \A b \in Blocks : b < free_db[c] => b \in bitmap
  BY <1>1 DEF PassedIsTaken
<1>3. \A b \in Blocks : b < free_db'[c] => b \in bitmap'
  BY <1>1, <1>2 DEF Blocks
<1> QED BY <1>1, <1>3, PassedOfOthers

LEMMA PassedContinue ==
  ASSUME TypeOK, MutexHeld, PassedIsTaken, NEW c \in Clients, TakeLock(c) \/ Continue(c)
  PROVE  PassedIsTaken'
<1> USE DEF Goto, Set
<1>1. CASE TakeLock(c)
  <2>1. /\ \A d \in Clients \ {c} : pc'[d] = pc[d]
        /\ bitmap' = bitmap /\ free_db' = free_db
        /\ \/ pc[c] \in {"first_lock", "add_lock"} /\ pc'[c] \in {"first_test", "add_test"}
           \/ pc'[c] = "release"
    BY <1>1 DEF TakeLock, FirstLock, AddLock, ReleaseLock, Acquire, TypeOK, disk, locals
  <2>2. pc[c] \in {"first_lock", "add_lock"} => free_db[c] = 0
    BY DEF PassedIsTaken
  <2> QED BY <2>1, <2>2, PassedOfOthers DEF Blocks
<1>2. CASE FirstTest(c) \/ AddTest(c)
  BY <1>2, PassedSearch DEF FirstTest, AddTest
<1>3. CASE FirstSet(c)
  <2>1. /\ \A d \in Clients \ {c} : pc'[d] = pc[d] /\ free_db'[d] = free_db[d]
        /\ bitmap \subseteq bitmap' /\ pc'[c] = "walk" /\ free_db'[c] = 0
    BY <1>3 DEF FirstSet, Link, TypeOK
  <2> QED BY <2>1, PassedOfOthers
<1>4. CASE AddSet(c)
  <2>1. /\ \A d \in Clients \ {c} : pc'[d] = pc[d] /\ free_db'[d] = free_db[d]
        /\ bitmap' = bitmap \cup {free_db[c]} /\ free_db[c] \in Nat
        /\ pc[c] = "add_set" /\ pc'[c] = "add_test" /\ free_db'[c] = free_db[c] + 1
    BY <1>4, DataAssumption DEF AddSet, Link, TypeOK
  <2>2. \A b \in Blocks : b < free_db[c] => b \in bitmap
    BY <2>1 DEF PassedIsTaken
  <2>3. \A b \in Blocks : b < free_db'[c] => b \in bitmap'
    BY <2>1, <2>2 DEF Blocks
  <2> QED BY <2>1, <2>3, PassedOfOthers
<1>5. CASE Walk(c) \/ WalkEndWrite(c) \/ WalkEndTruncate(c)
  <2>1. /\ \A d \in Clients \ {c} : pc'[d] = pc[d]
        /\ bitmap' = bitmap /\ free_db' = free_db
        /\ pc[c] = "walk" /\ pc'[c] \in {"walk", "add_lock", "undo_seek", "ok"}
    BY <1>5 DEF Walk, WalkEndWrite, WalkEndTruncate, TypeOK, disk, locals
  <2>2. free_db[c] = 0
    BY <2>1 DEF PassedIsTaken
  <2> QED BY <2>1, <2>2, PassedOfOthers
<1>6. CASE Release(c)
  <2>1. /\ pc[c] = "release" /\ pc' = pc /\ free_db' = free_db
    BY <1>6 DEF Release
  <2> QED BY <2>1, PassedOfOthers
<1>7. CASE FirstNone(c) \/ AddDone(c) \/ AddNoSpace(c) \/ ReleaseEnd(c) \/ CopyEnd(c) \/ Reply(c)
  <2>1. /\ \A d \in Clients \ {c} : pc'[d] = pc[d] /\ free_db'[d] = free_db[d]
        /\ bitmap' = bitmap /\ pc'[c] \in {"enospc", "data_seek", "ok", "undo_seek", "idle"}
    BY <1>7 DEF FirstNone, AddDone, AddNoSpace, ReleaseEnd, CopyEnd, Reply, TypeOK, disk, locals
  <2> QED BY <2>1, PassedOfOthers
<1>8. CASE UndoSeek(c) \/ DataSeek(c) \/ CopyBlock(c)
  <2>1. /\ \A d \in Clients \ {c} : pc'[d] = pc[d]
        /\ bitmap' = bitmap /\ free_db' = free_db
        /\ pc'[c] \in {"undo_seek", "release_lock", "wild", "data_seek", "copy", "ok"}
    BY <1>8 DEF UndoSeek, DataSeek, CopyBlock, Follow, Load, TypeOK, disk
  <2> QED BY <2>1, PassedOfOthers
<1> QED BY <1>1, <1>2, <1>3, <1>4, <1>5, <1>6, <1>7, <1>8 DEF Continue

\* A write or truncate is refused only in a moment in which the whole bitmap is
\* taken: no search misses a block that another thread gives back.
THEOREM EnospcOnlyWhenFullHolds == Spec => EnospcOnlyWhenFull
<1>1. Init => PassedIsTaken
  BY DEF Init, PassedIsTaken
<1>2. IInv /\ PassedIsTaken /\ [Next]_vars => PassedIsTaken'
  <2> SUFFICES ASSUME IInv, PassedIsTaken, [Next]_vars PROVE PassedIsTaken'
    OBVIOUS
  <2>1. TypeOK /\ MutexHeld
    BY DEF IInv
  <2>2. CASE Next
    BY <2>1, <2>2, PassedStart, PassedContinue DEF Next
  <2>3. CASE UNCHANGED vars
    BY <2>3 DEF vars, disk, locals, PassedIsTaken
  <2> QED BY <2>2, <2>3
<1>3. IInv /\ PassedIsTaken /\ [Next]_vars =>
        [\A c \in Clients : FirstNone(c) \/ AddNoSpace(c) => Blocks \subseteq bitmap]_vars
  <2> SUFFICES ASSUME IInv, PassedIsTaken, NEW c \in Clients, FirstNone(c) \/ AddNoSpace(c)
               PROVE  Blocks \subseteq bitmap
    OBVIOUS
  <2>1. pc[c] \in {"first_test", "add_test"} /\ free_db[c] = DataSize
    BY DEF FirstNone, AddNoSpace
  <2>2. \A b \in Blocks : b < free_db[c]
    BY <2>1, BlocksFacts
  <2> QED BY <2>1, <2>2 DEF PassedIsTaken
<1> QED BY <1>1, <1>2, <1>3, Inductive, PTL DEF Spec, EnospcOnlyWhenFull

-----------------------------------------------------------------------------
(* The blocks that a size calls for *)

LEMMA DivisionFacts ==
  ASSUME NEW x \in Nat
  PROVE  /\ x \div BlockSize \in Nat /\ x % BlockSize \in 0 .. BlockSize - 1
         /\ x = BlockSize * (x \div BlockSize) + (x % BlockSize)
BY DataAssumption

LEMMA TimesBlockSize ==
  ASSUME NEW a \in Int
  PROVE  /\ a * BlockSize \in Int /\ BlockSize * a = a * BlockSize
         /\ (a + 1) * BlockSize = a * BlockSize + BlockSize
         /\ (a - 1) * BlockSize = a * BlockSize - BlockSize
         /\ 0 * BlockSize = 0
         /\ a >= 0 => a * BlockSize >= 0
BY DataAssumption

LEMMA TimesKeepsOrder ==
  ASSUME NEW a \in Int, NEW b \in Int, a * BlockSize < b * BlockSize
  PROVE  a < b
BY DataAssumption

LEMMA QuotientIsBetween ==
  ASSUME NEW x \in Nat, NEW q \in Int
  PROVE  q = x \div BlockSize <=> q * BlockSize <= x /\ x < q * BlockSize + BlockSize
<1> DEFINE d == x \div BlockSize
           r == x % BlockSize
<1>1. d \in Nat /\ r \in 0 .. BlockSize - 1 /\ x = d * BlockSize + r
  BY DivisionFacts, TimesBlockSize
<1>2. BlockSize \in Nat \ {0}
  BY DataAssumption
<1> HIDE DEF d, r
<1>3. q = d => q * BlockSize <= x /\ x < q * BlockSize + BlockSize
  <2>1. d * BlockSize \in Int
    BY <1>1, TimesBlockSize
  <2>2. d * BlockSize <= x /\ x < d * BlockSize + BlockSize
    BY <1>1, <1>2, <2>1
  <2> QED BY <2>2
<1>4. ASSUME q * BlockSize <= x, x < q * BlockSize + BlockSize
      PROVE  q = d
  <2>1. /\ q * BlockSize \in Int /\ d * BlockSize \in Int
        /\ (q + 1) * BlockSize = q * BlockSize + BlockSize
        /\ (d + 1) * BlockSize = d * BlockSize + BlockSize
    BY <1>1, TimesBlockSize
  <2>2. d * BlockSize < (q + 1) * BlockSize /\ q * BlockSize < (d + 1) * BlockSize
    BY <1>1, <1>2, <1>4, <2>1
  <2>3. d < q + 1 /\ q < d + 1
    BY <1>1, <2>2, TimesKeepsOrder
  <2> QED BY <1>1, <2>3
<1> QED BY <1>3, <1>4 DEF d

\* As many blocks as the bytes fill, the last one at least in part.
LEMMA NecessaryFacts ==
  ASSUME NEW x \in Nat
  PROVE  /\ NecessaryBlocks(x) \in Nat
         /\ x <= NecessaryBlocks(x) * BlockSize
         /\ NecessaryBlocks(x) > 0 => (NecessaryBlocks(x) - 1) * BlockSize < x
<1> DEFINE d == x \div BlockSize
           r == x % BlockSize
<1>1. d \in Nat /\ r \in 0 .. BlockSize - 1 /\ x = d * BlockSize + r
  BY DivisionFacts, TimesBlockSize
<1>2. NecessaryBlocks(x) = IF x > 0 /\ (d = 0 \/ r >= 1) THEN d + 1 ELSE d
  BY DEF NecessaryBlocks
<1>3. BlockSize \in Nat \ {0}
  BY DataAssumption
<1> HIDE DEF d, r
<1>4. /\ d * BlockSize \in Int /\ 0 * BlockSize = 0
      /\ (d + 1) * BlockSize = d * BlockSize + BlockSize
      /\ (d - 1) * BlockSize = d * BlockSize - BlockSize
      /\ d * BlockSize >= 0
  BY <1>1, TimesBlockSize
<1>5. CASE x > 0 /\ (d = 0 \/ r >= 1)
  <2>1. NecessaryBlocks(x) = d + 1 /\ (d + 1) - 1 = d
    BY <1>1, <1>2, <1>5
  <2>2. d = 0 => d * BlockSize = 0
    BY <1>4
  <2>3. x <= (d + 1) * BlockSize /\ d * BlockSize < x
    BY <1>1, <1>3, <1>4, <1>5, <2>2
  <2> QED BY <1>1, <2>1, <2>3
<1>6. CASE ~ (x > 0 /\ (d = 0 \/ r >= 1))
  <2>1. NecessaryBlocks(x) = d
    BY <1>2, <1>6
  <2>2. x <= d * BlockSize
    BY <1>1, <1>4, <1>6
  <2>3. d > 0 => (d - 1) * BlockSize < x
    BY <1>1, <1>3, <1>4
  <2> QED BY <1>1, <2>1, <2>2, <2>3
<1> QED BY <1>5, <1>6

\* No other number of blocks has room for the bytes with none to spare.
LEMMA NecessaryIs ==
  ASSUME NEW x \in Nat, NEW k \in Nat,
         x <= k * BlockSize, k > 0 => (k - 1) * BlockSize < x
  PROVE  k = NecessaryBlocks(x)
<1> PICK n \in Nat : n = NecessaryBlocks(x)
  BY NecessaryFacts
<1>1. x <= n * BlockSize /\ (n > 0 => (n - 1) * BlockSize < x)
  BY NecessaryFacts
<1>2. /\ k * BlockSize \in Int /\ (k - 1) * BlockSize \in Int
      /\ n * BlockSize \in Int /\ (n - 1) * BlockSize \in Int
  BY TimesBlockSize
<1>3. n > 0 => n - 1 < k
  <2>1. n > 0 => (n - 1) * BlockSize < k * BlockSize
    BY <1>1, <1>2
  <2> QED BY <2>1, TimesKeepsOrder
<1>4. k > 0 => k - 1 < n
  <2>1. k > 0 => (k - 1) * BlockSize < n * BlockSize
    BY <1>1, <1>2
  <2> QED BY <2>1, TimesKeepsOrder
<1> QED BY <1>3, <1>4

LEMMA NecessaryMonotone ==
  ASSUME NEW x \in Nat, NEW y \in Nat, x <= y
  PROVE  NecessaryBlocks(x) <= NecessaryBlocks(y)
<1> PICK n \in Nat : n = NecessaryBlocks(x)
  BY NecessaryFacts
<1> PICK k \in Nat : k = NecessaryBlocks(y)
  BY NecessaryFacts
<1>1. y <= k * BlockSize /\ (n > 0 => (n - 1) * BlockSize < x)
  BY NecessaryFacts
<1>2. k * BlockSize \in Int /\ (n - 1) * BlockSize \in Int
  BY TimesBlockSize
<1>3. n > 0 => n - 1 < k
  <2>1. n > 0 => (n - 1) * BlockSize < k * BlockSize
    BY <1>1, <1>2
  <2> QED BY <2>1, TimesKeepsOrder
<1> QED BY <1>3

LEMMA NecessaryZero ==
  /\ NecessaryBlocks(0) = 0
  /\ \A x \in Nat : x > 0 => NecessaryBlocks(x) > 0
<1>1. NecessaryBlocks(0) = 0
  BY TimesBlockSize, NecessaryIs
<1>2. ASSUME NEW x \in Nat, x > 0 PROVE NecessaryBlocks(x) > 0
  <2> PICK n \in Nat : n = NecessaryBlocks(x)
    BY NecessaryFacts
  <2>1. x <= n * BlockSize
    BY NecessaryFacts
  <2>2. 0 * BlockSize = 0
    BY TimesBlockSize
  <2> QED BY <1>2, <2>1, <2>2
<1> QED BY <1>1, <1>2

\* The block that a byte inside the file is in is one of the file's.
LEMMA ByteIsInside ==
  ASSUME NEW off \in Nat, NEW size \in Nat, off < size
  PROVE  off \div BlockSize \in Nat /\ off \div BlockSize < NecessaryBlocks(size)
<1> PICK n \in Nat : n = NecessaryBlocks(size)
  BY NecessaryFacts
<1> PICK q \in Nat : q = off \div BlockSize
  BY DivisionFacts
<1>1. size <= n * BlockSize /\ q * BlockSize <= off
  BY NecessaryFacts, QuotientIsBetween
<1>2. q * BlockSize \in Int /\ n * BlockSize \in Int
  BY TimesBlockSize
<1>3. q * BlockSize < n * BlockSize
  BY <1>1, <1>2
<1> QED BY <1>3, TimesKeepsOrder

-----------------------------------------------------------------------------
(* The chain of a file, and what a request knows of it *)

\* The place that leads to block k + 1 of a chain.
Place(s, k) == IF k = 0 THEN Head ELSE s[k]

\* From start, the mapping table leads through the n blocks of s and no other.
Row(start, n, s) ==
  /\ s \in [1 .. n -> Blocks]
  /\ \A i, j \in 1 .. n : s[i] = s[j] => i = j
  /\ start = IF n > 0 THEN s[1] ELSE END_OF_FILE
  /\ \A k \in 1 .. n : mapping[s[k]] = IF k < n THEN s[k + 1] ELSE END_OF_FILE

\* The blocks that a request which gives some back leaves to its file.
Kept(c) == IF req[c].op = "unlink" THEN 0 ELSE NecessaryBlocks(file_size[req[c].file])

\* The block that the next byte to copy is in, counted from 0.
Turn(c) == (req[c].goal - left[c]) \div BlockSize

Opens(c, n) ==
  /\ req[c].op = "write" /\ n = 0 /\ req[c].fsize = 0
  /\ req[c].goal > 0 /\ need[c] = req[c].goal /\ movs[c] = 0
  /\ file_size[req[c].file] = req[c].goal
  /\ 1 <= left[c] /\ left[c] <= req[c].goal

Walks(c, n, s) ==
  /\ file_size[req[c].file] = req[c].goal
  /\ \/ /\ req[c].op = "write" /\ movs[c] + 1 <= n /\ cell[c] = s[movs[c] + 1]
        /\ req[c].goal > req[c].fsize /\ need[c] = req[c].goal - req[c].fsize
        /\ n = NecessaryBlocks(req[c].fsize) \/ (n = 1 /\ req[c].fsize = 0)
        /\ 1 <= left[c] /\ left[c] <= req[c].goal
     \/ /\ req[c].op = "truncate" /\ movs[c] <= n /\ cell[c] = Place(s, movs[c])
        /\ req[c].goal # req[c].fsize /\ n = NecessaryBlocks(req[c].fsize)

\* What is still missing is the goal less the room of the chain: bytes in
\* osada_write, blocks in osada_truncate.
Adds(c, n, s) ==
  /\ file_size[req[c].file] = req[c].goal
  /\ req[c].goal > req[c].fsize /\ n >= NecessaryBlocks(req[c].fsize)
  /\ cell[c] = Place(s, n)
  /\ \/ /\ req[c].op = "write" /\ need[c] = req[c].goal - n * BlockSize
        /\ n > 0 /\ (n - 1) * BlockSize < req[c].goal
        /\ 1 <= left[c] /\ left[c] <= req[c].goal
     \/ /\ req[c].op = "truncate" /\ need[c] = NecessaryBlocks(req[c].goal) - n
        /\ need[c] >= 0
  /\ pc[c] = "add_set" => need[c] > 0

Shrinks(c, n) ==
  /\ req[c].op \in {"write", "truncate", "unlink"}
  /\ Kept(c) <= n
  /\ \/ req[c].op = "write"
     \/ req[c].op = "truncate" /\ req[c].goal > req[c].fsize
     => file_size[req[c].file] = req[c].fsize

\* Either nothing is given back yet, or the thread stands on the block it has
\* just freed, which still leads to the m blocks of t that are left to free.
Releases(c, n, s, m, t) ==
  /\ Shrinks(c, n)
  /\ \/ m = 0 /\ cell[c] = Place(s, Kept(c))
     \/ /\ n = Kept(c) /\ cell[c] \in Blocks /\ owner[cell[c]] = NoFile
        /\ Row(mapping[cell[c]], m, t)

Moves(c, n, s) ==
  /\ req[c].op \in {"write", "read"} /\ n = NecessaryBlocks(file_size[req[c].file])
  /\ 0 <= left[c] /\ left[c] <= req[c].goal /\ req[c].goal <= file_size[req[c].file]
  /\ pc[c] = "data_seek" => /\ left[c] > 0 /\ need[c] >= 0 /\ need[c] <= Turn(c)
                            /\ cell[c] = Place(s, Turn(c) - need[c])
  /\ pc[c] = "copy" /\ left[c] > 0 => cell[c] = Place(s, Turn(c))

\* What holds of a thread whose file has the n blocks of s, behind which it is
\* giving back the m blocks of t.
Works(c, n, s, m, t) ==
  /\ pc[c] # "release" => m = 0
  /\ state[req[c].file] = IF req[c].op = "unlink" /\ pc[c] = "ok" THEN "DELETED" ELSE "REGULAR"
  /\ pc[c] \in {"first_lock", "first_test", "first_set"} => Opens(c, n)
  /\ pc[c] = "walk" => Walks(c, n, s)
  /\ pc[c] \in {"add_lock", "add_test", "add_set"} => Adds(c, n, s)
  /\ pc[c] = "undo_seek" => /\ Shrinks(c, n) /\ need[c] >= 0 /\ need[c] <= Kept(c)
                            /\ cell[c] = Place(s, Kept(c) - need[c])
  /\ pc[c] = "release_lock" => Shrinks(c, n) /\ cell[c] = Place(s, Kept(c))
  /\ pc[c] = "release" => Releases(c, n, s, m, t)
  /\ pc[c] \in {"data_seek", "copy"} => Moves(c, n, s)
  /\ pc[c] = "ok" => /\ n = Kept(c)
                     /\ req[c].op \in {"write", "read"} => left[c] = 0
  /\ pc[c] = "enospc" => /\ n = NecessaryBlocks(req[c].fsize)
                         /\ file_size[req[c].file] = req[c].fsize
  /\ pc[c] = "wild" => req[c].op = "read" /\ req[c].fsize = 0

\* The chain of f is the n blocks of s; f owns them and the m blocks of t.
Sound(f, n, s, m, t) ==
  /\ Row(first_block[f], n, s)
  /\ t \in [1 .. m -> Blocks]
  /\ \A b \in Blocks : owner[b] = f <=> \/ \E i \in 1 .. n : s[i] = b
                                        \/ \E i \in 1 .. m : t[i] = b
  /\ \A i \in 1 .. n, j \in 1 .. m : s[i] # t[j]
  /\ wlock[f] = NoClient =>
       m = 0 /\ n = IF state[f] = "REGULAR" THEN NecessaryBlocks(file_size[f]) ELSE 0
  /\ \A c \in Clients : pc[c] # "idle" /\ req[c].file = f => Works(c, n, s, m, t)

FileSound(f) == \E n, m \in Nat : \E s \in [1 .. n -> Blocks], t \in [1 .. m -> Blocks] :
                  Sound(f, n, s, m, t)
FilesSound == \A f \in Files : FileSound(f)

-----------------------------------------------------------------------------
(* Chains *)

\* What a place of the chain leads to.
LEMMA PlaceLeads ==
  ASSUME NEW f \in Files, NEW n \in Nat, NEW s, Row(first_block[f], n, s), NEW k \in 0 .. n
  PROVE  /\ Place(s, k) \in Cells
         /\ k = n => Load(f, Place(s, k)) = END_OF_FILE
         /\ k < n => /\ Load(f, Place(s, k)) = s[k + 1] /\ s[k + 1] \in Blocks
                     /\ s[k + 1] # END_OF_FILE /\ s[k + 1] = Place(s, k + 1)
<1>1. /\ s \in [1 .. n -> Blocks]
      /\ first_block[f] = IF n > 0 THEN s[1] ELSE END_OF_FILE
      /\ \A i \in 1 .. n : mapping[s[i]] = IF i < n THEN s[i + 1] ELSE END_OF_FILE
  BY DEF Row
<1>2. \A i \in 1 .. n : s[i] \in Blocks /\ s[i] # Head /\ s[i] # END_OF_FILE
  BY <1>1, BlocksFacts
<1>3. Load(f, Place(s, k)) = IF k < n THEN s[k + 1] ELSE END_OF_FILE
  <2>1. CASE k = 0
    BY <1>1, <2>1 DEF Load, Place
  <2>2. CASE k # 0
    <3>1. k \in 1 .. n
      BY <2>2
    <3>2. Load(f, s[k]) = mapping[s[k]]
      BY <1>2, <3>1 DEF Load
    <3> QED BY <1>1, <2>2, <3>1, <3>2 DEF Place
  <2> QED BY <2>1, <2>2
<1>4. Place(s, k) \in Cells
  BY <1>2 DEF Place, Cells
<1>5. k < n => k + 1 \in 1 .. n /\ k + 1 # 0
  OBVIOUS
<1> QED BY <1>2, <1>3, <1>4, <1>5 DEF Place

\* What follows an END_OF_FILE is END_OF_FILE, and what follows block k is the
\* next one: the chain as the properties see it is the row.
LEMMA ChainIsRow ==
  ASSUME TypeOK, NEW f \in Files, NEW n \in Nat, NEW s, Row(first_block[f], n, s)
  PROVE  /\ Chain(f) = {s[i] : i \in 1 .. n}
         /\ Cardinality(Chain(f)) = n
<1> USE DataAssumption
<1>1. /\ s \in [1 .. n -> Blocks]
      /\ \A i, j \in 1 .. n : s[i] = s[j] => i = j
      /\ first_block[f] = IF n > 0 THEN s[1] ELSE END_OF_FILE
      /\ \A i \in 1 .. n : mapping[s[i]] = IF i < n THEN s[i + 1] ELSE END_OF_FILE
  BY DEF Row
<1>2. \A i \in 1 .. n : s[i] \in Blocks /\ s[i] # END_OF_FILE
  BY <1>1, BlocksFacts
<1> DEFINE From(nth, k) == IF k = 0 THEN first_block[f]
                           ELSE IF nth[k - 1] = END_OF_FILE THEN END_OF_FILE
                           ELSE mapping[nth[k - 1]]
           row == [k \in Nat |-> IF k < n THEN s[k + 1] ELSE END_OF_FILE]
<1>3. row = [k \in Nat |-> From(row, k)]
  <2>1. ASSUME NEW k \in Nat
        PROVE  row[k] = From(row, k)
    <3>1. CASE k = 0
      BY <1>1, <3>1
    <3>2. CASE k # 0 /\ k - 1 < n
      <4>1. k \in 1 .. n /\ k - 1 \in Nat /\ (k - 1) + 1 = k
        BY <3>2
      <4>2. row[k - 1] = s[k]
        BY <3>2, <4>1
      <4>3. mapping[s[k]] = IF k < n THEN s[k + 1] ELSE END_OF_FILE
        BY <1>1, <4>1
      <4> QED BY <1>2, <3>2, <4>1, <4>2, <4>3
    <3>3. CASE k # 0 /\ ~ (k - 1 < n)
      <4>1. k - 1 \in Nat /\ ~ (k < n)
        BY <3>3
      <4> QED BY <3>3, <4>1
    <3> QED BY <3>1, <3>2, <3>3
  <2> HIDE DEF From
  <2> QED BY <2>1
<1> DEFINE nth == Nth(f)
<1>4. nth = [k \in Nat |-> From(nth, k)]
  <2>1. Nth(f) = CHOOSE g : g = [k \in Nat |-> From(g, k)]
    BY DEF Nth
  <2> DEFINE Solves(g) == g = [k \in Nat |-> From(g, k)]
  <2>2. Solves(row)
    BY <1>3
  <2>3. Nth(f) = CHOOSE g : Solves(g)
    BY <2>1
  <2> HIDE DEF Solves, row, nth
  <2>4. Solves(Nth(f))
    BY <2>2, <2>3
  <2> QED BY <2>4 DEF Solves, nth
<1>5. \A k \in Nat : nth[k] = row[k]
  <2> SUFFICES ASSUME NEW top \in Nat
               PROVE  nth[top] = row[top]
    OBVIOUS
  <2> DEFINE agree == {k \in Nat : nth[k] = row[k]}
  <2>1. \A k \in Nat : nth[k] = From(nth, k) /\ row[k] = From(row, k)
    <3> HIDE DEF From
    <3>1. \A k \in Nat : nth[k] = From(nth, k)
      <4> HIDE DEF nth
      <4> QED BY <1>4
    <3>2. \A k \in Nat : row[k] = From(row, k)
      <4> HIDE DEF row
      <4> QED BY <1>3
    <3> QED BY <3>1, <3>2
  <2> HIDE DEF nth, row
  <2>2. 0 \in agree
    BY <2>1
  <2>3. \A k \in 1 .. top : k - 1 \in agree => k \in agree
    <3> SUFFICES ASSUME NEW k \in 1 .. top, k - 1 \in agree PROVE k \in agree
      OBVIOUS
    <3>1. nth[k - 1] = row[k - 1] /\ k \in Nat
      OBVIOUS
    <3>2. From(nth, k) = From(row, k)
      BY <3>1
    <3> QED BY <2>1, <3>1, <3>2
  <2> HIDE DEF agree
  <2>4. \A k \in 0 .. top : k \in agree
    BY ONLY top \in Nat, <2>2, <2>3, Lists!FromZero
  <2> QED BY <2>4 DEF agree
<1>6. n <= DataSize
  <2>1. IsFiniteSet(Blocks) /\ Cardinality(Blocks) = DataSize
    <3>1. IsFiniteSet(0 .. DataSize - 1) /\ Cardinality(0 .. DataSize - 1) = DataSize
      BY FS_Interval
    <3> QED BY <3>1 DEF Blocks
  <2>2. IsFiniteSet(1 .. n) /\ Cardinality(1 .. n) = n
    BY FS_Interval
  <2>3. s \in Injection(1 .. n, Blocks)
    BY <1>1 DEF Injection, IsInjective
  <2> QED BY <2>1, <2>2, <2>3, FS_Injection
<1>7. Chain(f) = {s[i] : i \in 1 .. n}
  <2>1. Chain(f) = {nth[k] : k \in 0 .. DataSize} \ {END_OF_FILE}
    BY DEF Chain
  <2>2. \A k \in 0 .. DataSize : nth[k] = IF k < n THEN s[k + 1] ELSE END_OF_FILE
    BY <1>5
  <2> HIDE DEF nth
  <2>3. ASSUME NEW i \in 1 .. n PROVE s[i] \in Chain(f)
    <3>1. i - 1 \in 0 .. DataSize /\ i - 1 < n /\ (i - 1) + 1 = i
      BY <1>6
    <3>2. nth[i - 1] = s[i]
      BY <2>2, <3>1
    <3> QED BY <1>2, <2>1, <3>1, <3>2
  <2>4. ASSUME NEW b \in Chain(f) PROVE b \in {s[i] : i \in 1 .. n}
    <3>1. PICK k \in 0 .. DataSize : b = nth[k] /\ b # END_OF_FILE
      BY <2>1
    <3>2. k + 1 \in 1 .. n /\ b = s[k + 1]
      BY <2>2, <3>1
    <3> QED BY <3>2
  <2> QED BY <2>3, <2>4
<1>8. Cardinality({s[i] : i \in 1 .. n}) = n
  <2>1. IsFiniteSet(1 .. n) /\ Cardinality(1 .. n) = n
    BY FS_Interval
  <2> DEFINE R == {s[i] : i \in 1 .. n}
  <2>2. s \in Bijection(1 .. n, R)
    BY <1>1 DEF Bijection, Injection, Surjection, IsInjective
  <2> HIDE DEF R
  <2>3. Cardinality(R) = Cardinality(1 .. n)
    BY <2>1, <2>2, FS_Bijection DEF ExistsBijection
  <2> QED BY <2>1, <2>3 DEF R
<1> QED BY <1>7, <1>8

-----------------------------------------------------------------------------
(* What leaves a chain alone *)

\* A thread that stays where it is, on a file whose entry and blocks stay what
\* they are.
LEMMA WorksStays ==
  ASSUME NEW c \in Clients, NEW n \in Nat, NEW s, NEW m \in Nat, NEW t, NEW f,
         req[c].file = f, Works(c, n, s, m, t),
         pc'[c] = pc[c], req'[c] = req[c], cell'[c] = cell[c], movs'[c] = movs[c],
         need'[c] = need[c], left'[c] = left[c],
         state'[f] = state[f], file_size'[f] = file_size[f],
         pc[c] = "release" => UNCHANGED <<mapping, owner>>
  PROVE  Works(c, n, s, m, t)'
<1>1. Opens(c, n)' <=> Opens(c, n)
  BY DEF Opens
<1>2. Walks(c, n, s)' <=> Walks(c, n, s)
  BY DEF Walks
<1>3. Adds(c, n, s)' <=> Adds(c, n, s)
  BY DEF Adds
<1>4. Kept(c)' = Kept(c) /\ Turn(c)' = Turn(c)
  BY DEF Kept, Turn
<1>5. Shrinks(c, n)' <=> Shrinks(c, n)
  BY <1>4 DEF Shrinks
<1>6. Moves(c, n, s)' <=> Moves(c, n, s)
  BY <1>4 DEF Moves
<1>7. pc[c] = "release" => (Releases(c, n, s, m, t)' <=> Releases(c, n, s, m, t))
  BY <1>4, <1>5 DEF Releases, Row
<1> QED BY <1>1, <1>2, <1>3, <1>4, <1>5, <1>6, <1>7 DEF Works

\* A step of thread c moves no other thread.
OthersStay(c) ==
  \A d \in Clients \ {c} :
    /\ pc'[d] = pc[d] /\ req'[d] = req[d] /\ cell'[d] = cell[d]
    /\ movs'[d] = movs[d] /\ need'[d] = need[d] /\ left'[d] = left[d]

\* A thread that works on f, and takes or gives back blocks for f alone, leaves
\* the other files as they are.
LEMMA ElsewhereSound ==
  ASSUME TypeOK, FilesSound, NEW c \in Clients, NEW f \in Files, OthersStay(c),
         pc[c] # "idle" => req[c].file = f,
         pc'[c] # "idle" => req'[c].file = f,
         \A g \in Files \ {f} :
           /\ state'[g] = state[g] /\ file_size'[g] = file_size[g]
           /\ first_block'[g] = first_block[g] /\ wlock'[g] = wlock[g],
         \A b \in Blocks : owner[b] \notin {f, NoFile} =>
           mapping'[b] = mapping[b] /\ owner'[b] = owner[b],
         \A b \in Blocks : owner[b] \in {f, NoFile} => owner'[b] \in {f, NoFile},
         \/ UNCHANGED <<mapping, owner>>
         \/ \A d \in Clients \ {c} : pc[d] # "release"
  PROVE  \A g \in Files \ {f} : FileSound(g)'
<1> SUFFICES ASSUME NEW g \in Files, g # f PROVE FileSound(g)'
  OBVIOUS
<1> PICK n \in Nat, m \in Nat :
      \E s \in [1 .. n -> Blocks], t \in [1 .. m -> Blocks] : Sound(g, n, s, m, t)
  BY DEF FilesSound, FileSound
<1> PICK s \in [1 .. n -> Blocks], t \in [1 .. m -> Blocks] : Sound(g, n, s, m, t)
  OBVIOUS
<1>1. /\ Row(first_block[g], n, s)
      /\ \A b \in Blocks : owner[b] = g <=> \/ \E i \in 1 .. n : s[i] = b
                                            \/ \E i \in 1 .. m : t[i] = b
      /\ \A i \in 1 .. n, j \in 1 .. m : s[i] # t[j]
      /\ wlock[g] = NoClient =>
           m = 0 /\ n = IF state[g] = "REGULAR" THEN NecessaryBlocks(file_size[g]) ELSE 0
      /\ \A d \in Clients : pc[d] # "idle" /\ req[d].file = g => Works(d, n, s, m, t)
  BY DEF Sound
<1>2. g # NoFile
  BY BlocksFacts
<1>3. \A i \in 1 .. n : s[i] \in Blocks /\ owner[s[i]] = g
  BY <1>1
<1>4. \A i \in 1 .. n : mapping'[s[i]] = mapping[s[i]]
  BY <1>2, <1>3
<1>5. Row(first_block[g], n, s)'
  BY <1>1, <1>4 DEF Row
<1>6. \A b \in Blocks : owner'[b] = g <=> owner[b] = g
  BY <1>2
<1>7. ASSUME NEW d \in Clients, pc'[d] # "idle", req'[d].file = g
      PROVE  Works(d, n, s, m, t)'
  <2>1. d # c
    BY <1>7
  <2>2. /\ pc'[d] = pc[d] /\ req'[d] = req[d] /\ cell'[d] = cell[d]
        /\ movs'[d] = movs[d] /\ need'[d] = need[d] /\ left'[d] = left[d]
    BY <2>1 DEF OthersStay
  <2>3. Works(d, n, s, m, t) /\ req[d].file = g
    BY <1>1, <1>7, <2>2
  <2>4. pc[d] = "release" => UNCHANGED <<mapping, owner>>
    BY <2>1
  <2> QED BY <2>2, <2>3, <2>4, WorksStays
<1>8. Sound(g, n, s, m, t)'
  BY <1>1, <1>5, <1>6, <1>7 DEF Sound
<1> QED BY <1>8 DEF FileSound

\* A thread that only moves along its chain.
LEMMA MoveSound ==
  ASSUME TypeOK, FilesSound, NEW c \in Clients, OthersStay(c), pc[c] # "idle",
         UNCHANGED <<mapping, owner, first_block, state, file_size, wlock, req>>,
         NEW n \in Nat, NEW s \in [1 .. n -> Blocks],
         NEW m \in Nat, NEW t \in [1 .. m -> Blocks],
         Sound(req[c].file, n, s, m, t), Works(c, n, s, m, t)'
  PROVE  FilesSound'
<1> PICK f \in Files : f = req[c].file
  BY DEF TypeOK
<1>2. \A g \in Files \ {f} : FileSound(g)'
  BY ElsewhereSound
<1>3. Sound(f, n, s, m, t)
  OBVIOUS
<1>4. ASSUME NEW d \in Clients, pc'[d] # "idle", req'[d].file = f
      PROVE  Works(d, n, s, m, t)'
  <2>1. CASE d = c
    BY <2>1
  <2>2. CASE d # c
    <3>1. /\ pc'[d] = pc[d] /\ req'[d] = req[d] /\ cell'[d] = cell[d]
          /\ movs'[d] = movs[d] /\ need'[d] = need[d] /\ left'[d] = left[d]
      BY <2>2 DEF OthersStay
    <3>2. Works(d, n, s, m, t) /\ req[d].file = f
      BY <1>3, <1>4, <3>1 DEF Sound
    <3> QED BY <3>1, <3>2, WorksStays
  <2> QED BY <2>1, <2>2
<1>5. Sound(f, n, s, m, t)'
  BY <1>3, <1>4 DEF Sound, Row
<1>6. FileSound(f)'
  BY <1>5 DEF FileSound
<1> QED BY <1>2, <1>6 DEF FilesSound

\* The holder of a write lock is the only thread on its file.
LEMMA Alone ==
  ASSUME IInv, NEW c \in Clients, pc[c] # "idle", req[c].op # "read"
  PROVE  /\ wlock[req[c].file] = c
         /\ \A d \in Clients \ {c} : pc[d] # "idle" => req[d].file # req[c].file
<1>1. wlock[req[c].file] = c /\ req[c].file \in Files
  BY DEF IInv, EntryHeld, TypeOK
<1>2. rlock[req[c].file] = {}
  BY <1>1, BlocksFacts DEF IInv, EntryHeld
<1>3. ASSUME NEW d \in Clients, d # c, pc[d] # "idle", req[d].file = req[c].file
      PROVE  FALSE
  <2>1. IF req[d].op = "read" THEN d \in rlock[req[d].file] ELSE wlock[req[d].file] = d
    BY <1>3 DEF IInv, EntryHeld
  <2> QED BY <1>1, <1>2, <1>3, <2>1
<1> QED BY <1>1, <1>3

\* A thread that changes the entry it has for itself.
LEMMA EntrySound ==
  ASSUME IInv, FilesSound, NEW c \in Clients, OthersStay(c), pc[c] # "idle",
         req[c].op # "read", NEW f \in Files, f = req[c].file,
         UNCHANGED <<mapping, owner, first_block, wlock, req>>,
         \A g \in Files \ {f} : state'[g] = state[g] /\ file_size'[g] = file_size[g],
         NEW n \in Nat, NEW s \in [1 .. n -> Blocks],
         NEW m \in Nat, NEW t \in [1 .. m -> Blocks],
         Sound(f, n, s, m, t), Works(c, n, s, m, t)'
  PROVE  FilesSound'
<1>1. TypeOK
  BY DEF IInv
<1>2. \A g \in Files \ {f} : FileSound(g)'
  BY <1>1, ElsewhereSound
<1>3. ASSUME NEW d \in Clients, pc'[d] # "idle", req'[d].file = f
      PROVE  Works(d, n, s, m, t)'
  <2>1. d = c
    BY <1>3, Alone DEF OthersStay
  <2> QED BY <2>1
<1>4. wlock'[f] # NoClient
  BY Alone, BlocksFacts
<1>5. Sound(f, n, s, m, t)'
  BY <1>3, <1>4 DEF Sound, Row
<1>6. FileSound(f)'
  BY <1>5 DEF FileSound
<1> QED BY <1>2, <1>6 DEF FilesSound

-----------------------------------------------------------------------------
(* The steps of a thread on its own chain *)

LEMMA LockSound ==
  ASSUME IInv, FilesSound, NEW c \in Clients,
         TakeLock(c) \/ FirstTest(c) \/ AddTest(c)
  PROVE  FilesSound'
<1> PICK f \in Files : f = req[c].file
  BY DEF IInv, TypeOK, TakeLock, FirstLock, AddLock, ReleaseLock, Acquire, FirstTest, AddTest,
     TestBit
<1> PICK n \in Nat, m \in Nat :
      \E s \in [1 .. n -> Blocks], t \in [1 .. m -> Blocks] : Sound(f, n, s, m, t)
  BY DEF FilesSound, FileSound
<1> PICK s \in [1 .. n -> Blocks], t \in [1 .. m -> Blocks] : Sound(f, n, s, m, t)
  OBVIOUS
<1>1. TypeOK
  BY DEF IInv
<1>2. /\ UNCHANGED <<mapping, owner, first_block, state, file_size, wlock, req>>
      /\ UNCHANGED <<cell, movs, need, left>>
      /\ \A d \in Clients \ {c} : pc'[d] = pc[d]
      /\ \/ pc[c] \in {"first_lock", "first_test"} /\ pc'[c] \in {"first_test", "first_set"}
         \/ /\ pc[c] \in {"add_lock", "add_test"} /\ pc'[c] \in {"add_test", "add_set"}
            /\ pc'[c] = "add_set" => need[c] > 0
         \/ pc[c] = "release_lock" /\ pc'[c] = "release"
  BY <1>1 DEF TakeLock, FirstLock, AddLock, ReleaseLock, Acquire, FirstTest, AddTest, TestBit,
     Goto, Set, disk, entries, locks, locals, TypeOK
<1>3. OthersStay(c) /\ pc[c] # "idle"
  BY <1>2 DEF OthersStay
<1>4. Works(c, n, s, m, t)
  BY <1>3 DEF Sound
<1>5. Kept(c)' = Kept(c)
  BY <1>2 DEF Kept
<1>6. Works(c, n, s, m, t)'
  <2>1. m = 0 /\ state'[req'[c].file] = "REGULAR"
    BY <1>2, <1>4 DEF Works
  <2>2. CASE pc[c] \in {"first_lock", "first_test"} /\ pc'[c] \in {"first_test", "first_set"}
    <3>1. Opens(c, n)'
      BY <1>2, <1>4, <2>2 DEF Works, Opens
    <3> QED BY <2>1, <2>2, <3>1 DEF Works
  <2>3. CASE /\ pc[c] \in {"add_lock", "add_test"} /\ pc'[c] \in {"add_test", "add_set"}
             /\ pc'[c] = "add_set" => need[c] > 0
    <3>1. Adds(c, n, s)'
      BY <1>2, <1>4, <2>3 DEF Works, Adds
    <3> QED BY <2>1, <2>3, <3>1 DEF Works
  <2>4. CASE pc[c] = "release_lock" /\ pc'[c] = "release"
    <3>1. Shrinks(c, n)' /\ cell'[c] = Place(s, Kept(c)')
      BY <1>2, <1>4, <1>5, <2>4 DEF Works, Shrinks
    <3>2. Releases(c, n, s, m, t)'
      BY <2>1, <3>1 DEF Releases
    <3> QED BY <2>1, <2>4, <3>2 DEF Works
  <2> QED BY <1>2, <2>2, <2>3, <2>4
<1> QED BY <1>1, <1>2, <1>3, <1>6, MoveSound

\* A walk counts the blocks of the chain: where it stands is where it has got to.
LEMMA WalkSound ==
  ASSUME IInv, FilesSound, NEW c \in Clients, Walk(c)
  PROVE  FilesSound'
<1> PICK f \in Files : f = req[c].file
  BY DEF IInv, TypeOK, Walk
<1> PICK n \in Nat, m \in Nat :
      \E s \in [1 .. n -> Blocks], t \in [1 .. m -> Blocks] : Sound(f, n, s, m, t)
  BY DEF FilesSound, FileSound
<1> PICK s \in [1 .. n -> Blocks], t \in [1 .. m -> Blocks] : Sound(f, n, s, m, t)
  OBVIOUS
<1>1. TypeOK
  BY DEF IInv
<1>2. /\ UNCHANGED <<mapping, owner, first_block, state, file_size, wlock, req>>
      /\ UNCHANGED <<need, left, pc>> /\ pc[c] = "walk"
      /\ Load(f, cell[c]) # END_OF_FILE
      /\ cell' = [cell EXCEPT ![c] = Load(f, cell[c])]
      /\ movs' = [movs EXCEPT ![c] = movs[c] + 1]
  BY DEF Walk, Set, disk, entries, locks
<1>3. OthersStay(c)
  BY <1>1, <1>2 DEF OthersStay, TypeOK
<1>4. Works(c, n, s, m, t) /\ Row(first_block[f], n, s)
  BY <1>2 DEF Sound
<1>5. /\ cell'[c] = Load(f, cell[c]) /\ movs'[c] = movs[c] + 1 /\ movs[c] \in Nat
  BY <1>1, <1>2 DEF TypeOK
<1>6. \A k \in 0 .. n : Place(s, k) = cell[c] => k < n /\ cell'[c] = Place(s, k + 1)
                                                 /\ cell'[c] = s[k + 1]
  <2> SUFFICES ASSUME NEW k \in 0 .. n, Place(s, k) = cell[c]
               PROVE  k < n /\ cell'[c] = Place(s, k + 1) /\ cell'[c] = s[k + 1]
    OBVIOUS
  <2>1. /\ k = n => Load(f, Place(s, k)) = END_OF_FILE
        /\ k < n => Load(f, Place(s, k)) = s[k + 1] /\ s[k + 1] = Place(s, k + 1)
    BY ONLY <1>4, n \in Nat, f \in Files, k \in 0 .. n, PlaceLeads
  <2>2. k < n
    BY <1>2, <2>1
  <2> QED BY <1>5, <2>1, <2>2
<1>7. Walks(c, n, s)'
  <2>1. Walks(c, n, s)
    BY <1>2, <1>4 DEF Works
  <2>2. CASE req[c].op = "write"
    <3>1. movs[c] + 1 <= n /\ cell[c] = s[movs[c] + 1]
      BY <2>1, <2>2 DEF Walks
    <3>2. movs[c] + 1 \in 0 .. n /\ Place(s, movs[c] + 1) = cell[c]
      BY <1>5, <3>1 DEF Place
    <3>3. movs'[c] + 1 <= n /\ cell'[c] = s[movs'[c] + 1]
      BY <1>5, <1>6, <3>2
    <3> QED BY <1>2, <2>1, <2>2, <3>3 DEF Walks
  <2>3. CASE req[c].op = "truncate"
    <3>1. movs[c] <= n /\ cell[c] = Place(s, movs[c])
      BY <2>1, <2>3 DEF Walks
    <3>2. movs'[c] <= n /\ cell'[c] = Place(s, movs'[c])
      BY <1>5, <1>6, <3>1
    <3> QED BY <1>2, <2>1, <2>3, <3>2 DEF Walks
  <2> QED BY <2>1, <2>2, <2>3 DEF Walks
<1>8. Works(c, n, s, m, t)'
  BY <1>2, <1>4, <1>7 DEF Works
<1> QED BY <1>1, <1>2, <1>3, <1>8, MoveSound

\* At the end of the chain osada_write knows the room of the last block.
LEMMA WalkEndWriteSound ==
  ASSUME IInv, FilesSound, NEW c \in Clients, WalkEndWrite(c)
  PROVE  FilesSound'
<1> PICK f \in Files : f = req[c].file
  BY DEF IInv, TypeOK, WalkEndWrite
<1> PICK n \in Nat, m \in Nat :
      \E s \in [1 .. n -> Blocks], t \in [1 .. m -> Blocks] : Sound(f, n, s, m, t)
  BY DEF FilesSound, FileSound
<1> PICK s \in [1 .. n -> Blocks], t \in [1 .. m -> Blocks] : Sound(f, n, s, m, t)
  OBVIOUS
<1>1. TypeOK
  BY DEF IInv
<1>2. /\ UNCHANGED <<mapping, owner, first_block, state, file_size, wlock, req>>
      /\ UNCHANGED <<left, cell, movs>> /\ pc[c] = "walk" /\ req[c].op = "write"
      /\ Load(f, cell[c]) = END_OF_FILE
      /\ need' = [need EXCEPT
                   ![c] = need[c] - (BlockSize - (req[c].fsize - movs[c] * BlockSize))]
      /\ pc' = [pc EXCEPT ![c] = "add_lock"]
  BY DEF WalkEndWrite, Goto, Set, disk, entries, locks
<1>3. OthersStay(c)
  BY <1>1, <1>2 DEF OthersStay, TypeOK
<1>4. Works(c, n, s, m, t) /\ Row(first_block[f], n, s) /\ Walks(c, n, s)
  BY <1>2 DEF Sound, Works
<1> PICK k \in Nat, goal \in Nat, old \in Nat :
      k = movs[c] /\ goal = req[c].goal /\ old = req[c].fsize
  BY <1>1 DEF TypeOK, Requests
<1>5. /\ k + 1 <= n /\ cell[c] = s[k + 1] /\ goal > old /\ need[c] = goal - old
      /\ n = NecessaryBlocks(old) \/ (n = 1 /\ old = 0)
      /\ 1 <= left[c] /\ left[c] <= goal /\ file_size[f] = goal
  BY <1>2, <1>4 DEF Walks
<1>6. n = k + 1
  <2>1. k + 1 \in 0 .. n /\ Place(s, k + 1) = cell[c]
    BY <1>5 DEF Place
  <2> PICK j \in 0 .. n : j = k + 1
    BY <2>1
  <2>2. j < n => Load(f, Place(s, j)) # END_OF_FILE
    BY ONLY <1>4, n \in Nat, f \in Files, j \in 0 .. n, PlaceLeads
  <2> QED BY <1>2, <2>1, <2>2
<1>7. /\ n >= NecessaryBlocks(old)
      /\ (n - 1) * BlockSize < goal
  <2>1. CASE n = NecessaryBlocks(old)
    <3>1. (n - 1) * BlockSize < old
      <4>1. n > 0 => (n - 1) * BlockSize < old
        BY ONLY <2>1, old \in Nat, NecessaryFacts
      <4> QED BY <1>6, <4>1
    <3>2. (n - 1) * BlockSize \in Int
      BY TimesBlockSize
    <3> QED BY <1>5, <2>1, <3>1, <3>2
  <2>2. CASE n = 1 /\ old = 0
    <3>1. (n - 1) * BlockSize = 0
      BY <2>2, TimesBlockSize
    <3> QED BY <1>5, <2>2, <3>1, NecessaryZero
  <2> QED BY <1>5, <2>1, <2>2
<1>8. need'[c] = goal - n * BlockSize
  <2>1. need'[c] = (goal - old) - (BlockSize - (old - k * BlockSize))
    BY <1>1, <1>2, <1>5 DEF TypeOK
  <2>2. k * BlockSize \in Int /\ n * BlockSize = k * BlockSize + BlockSize /\ BlockSize \in Int
    BY <1>6, TimesBlockSize, DataAssumption
  <2> PICK room \in Int : room = k * BlockSize
    BY <2>2
  <2> PICK block \in Int : block = BlockSize
    BY <2>2
  <2>3. (goal - old) - (block - (old - room)) = goal - (room + block)
    BY ONLY goal \in Nat, old \in Nat, room \in Int, block \in Int
  <2> QED BY ONLY <2>1, <2>2, <2>3, room = k * BlockSize, block = BlockSize, Zenon
<1>9. Adds(c, n, s)'
  <2>1. pc'[c] = "add_lock"
    BY <1>1, <1>2 DEF TypeOK
  <2>2. cell'[c] = Place(s, n) /\ n > 0
    BY <1>2, <1>5, <1>6 DEF Place
  <2> QED BY <1>2, <1>5, <1>7, <1>8, <2>1, <2>2 DEF Adds
<1>10. Works(c, n, s, m, t)'
  <2>1. pc'[c] = "add_lock"
    BY <1>1, <1>2 DEF TypeOK
  <2> QED BY <1>2, <1>4, <1>9, <2>1 DEF Works
<1> QED BY <1>1, <1>2, <1>3, <1>10, MoveSound

\* At the end of the chain osada_truncate knows how many blocks there are.
LEMMA WalkEndTruncateSound ==
  ASSUME IInv, FilesSound, NEW c \in Clients, WalkEndTruncate(c)
  PROVE  FilesSound'
<1> PICK f \in Files : f = req[c].file
  BY DEF IInv, TypeOK, WalkEndTruncate
<1> PICK n \in Nat, m \in Nat :
      \E s \in [1 .. n -> Blocks], t \in [1 .. m -> Blocks] : Sound(f, n, s, m, t)
  BY DEF FilesSound, FileSound
<1> PICK s \in [1 .. n -> Blocks], t \in [1 .. m -> Blocks] : Sound(f, n, s, m, t)
  OBVIOUS
<1>1. TypeOK
  BY DEF IInv
<1> PICK k \in Nat, goal \in Nat, old \in Nat, new \in Nat :
      /\ k = movs[c] /\ goal = req[c].goal /\ old = req[c].fsize
      /\ new = NecessaryBlocks(goal)
  BY <1>1, NecessaryFacts DEF TypeOK, Requests
<1>2. /\ UNCHANGED <<mapping, owner, first_block, state, file_size, wlock, req>>
      /\ UNCHANGED <<left, movs>> /\ pc[c] = "walk" /\ req[c].op = "truncate"
      /\ Load(f, cell[c]) = END_OF_FILE
  BY DEF WalkEndTruncate, Goto, Set, disk, entries, locks
<1>3. \/ /\ goal > old /\ new > k /\ need' = [need EXCEPT ![c] = new - k]
         /\ pc' = [pc EXCEPT ![c] = "add_lock"] /\ cell' = cell
      \/ /\ goal < old /\ new < k /\ need' = [need EXCEPT ![c] = new]
         /\ pc' = [pc EXCEPT ![c] = "undo_seek"] /\ cell' = [cell EXCEPT ![c] = Head]
      \/ /\ ~ (goal > old /\ new > k) /\ ~ (goal < old /\ new < k)
         /\ pc' = [pc EXCEPT ![c] = "ok"] /\ need' = need /\ cell' = cell
  BY DEF WalkEndTruncate, Goto, Set
<1>4. OthersStay(c)
  BY <1>1, <1>2, <1>3 DEF OthersStay, TypeOK
<1>5. Works(c, n, s, m, t) /\ Row(first_block[f], n, s) /\ Walks(c, n, s)
  BY <1>2 DEF Sound, Works
<1>6. /\ k <= n /\ cell[c] = Place(s, k) /\ goal # old
      /\ n = NecessaryBlocks(old) /\ file_size[f] = goal
  BY <1>2, <1>5 DEF Walks
<1>7. n = k
  <2>1. k < n => Load(f, Place(s, k)) # END_OF_FILE
    <3>1. k \in 0 .. n
      BY <1>6
    <3> QED BY ONLY <1>5, n \in Nat, f \in Files, <3>1, PlaceLeads
  <2> QED BY <1>2, <1>6, <2>1
<1>8. Kept(c)' = new /\ Kept(c)' = Kept(c)
  BY <1>2, <1>6 DEF Kept
<1>9. m = 0 /\ state'[req'[c].file] = "REGULAR"
  BY <1>2, <1>5 DEF Works
<1>10. Works(c, n, s, m, t)'
  <2>1. CASE /\ goal > old /\ new > k /\ need' = [need EXCEPT ![c] = new - k]
             /\ pc' = [pc EXCEPT ![c] = "add_lock"] /\ cell' = cell
    <3>1. pc'[c] = "add_lock" /\ need'[c] = new - k
      BY <1>1, <2>1 DEF TypeOK
    <3>2. Adds(c, n, s)'
      BY <1>2, <1>6, <1>7, <2>1, <3>1 DEF Adds
    <3> QED BY <1>9, <3>1, <3>2 DEF Works
  <2>2. CASE /\ goal < old /\ new < k /\ need' = [need EXCEPT ![c] = new]
             /\ pc' = [pc EXCEPT ![c] = "undo_seek"] /\ cell' = [cell EXCEPT ![c] = Head]
    <3>1. pc'[c] = "undo_seek" /\ need'[c] = new /\ cell'[c] = Head
      BY <1>1, <2>2 DEF TypeOK
    <3>2. Shrinks(c, n)'
      BY <1>2, <1>7, <1>8, <2>2 DEF Shrinks
    <3>3. need'[c] >= 0 /\ need'[c] <= Kept(c)' /\ cell'[c] = Place(s, Kept(c)' - need'[c])
      <4>1. new - new = 0 /\ new >= 0 /\ new <= new
        BY ONLY new \in Nat
      <4>2. Place(s, new - new) = Head
        BY <4>1 DEF Place
      <4> QED BY ONLY <1>8, <3>1, <4>1, <4>2, Zenon
    <3> QED BY <1>9, <3>1, <3>2, <3>3 DEF Works
  <2>3. CASE /\ ~ (goal > old /\ new > k) /\ ~ (goal < old /\ new < k)
             /\ pc' = [pc EXCEPT ![c] = "ok"] /\ need' = need /\ cell' = cell
    <3>1. pc'[c] = "ok"
      BY <1>1, <2>3 DEF TypeOK
    <3>2. n = new
      <4>1. goal < old => new <= n
        BY <1>6, NecessaryMonotone
      <4>2. goal > old => n <= new
        BY <1>6, NecessaryMonotone
      <4> QED BY <1>6, <1>7, <2>3, <4>1, <4>2
    <3>3. n = Kept(c)' /\ req'[c].op = "truncate"
      BY <1>2, <1>8, <3>2
    <3> QED BY <1>9, <3>1, <3>3 DEF Works
  <2> QED BY <1>3, <2>1, <2>2, <2>3
<1> QED BY <1>1, <1>2, <1>4, <1>10, MoveSound

\* What is missing is nothing: the chain has just the blocks of the new size.
LEMMA AddDoneSound ==
  ASSUME IInv, FilesSound, NEW c \in Clients, AddDone(c)
  PROVE  FilesSound'
<1> PICK f \in Files : f = req[c].file
  BY DEF IInv, TypeOK, AddDone
<1> PICK n \in Nat, m \in Nat :
      \E s \in [1 .. n -> Blocks], t \in [1 .. m -> Blocks] : Sound(f, n, s, m, t)
  BY DEF FilesSound, FileSound
<1> PICK s \in [1 .. n -> Blocks], t \in [1 .. m -> Blocks] : Sound(f, n, s, m, t)
  OBVIOUS
<1>1. TypeOK
  BY DEF IInv
<1> PICK goal \in Nat : goal = req[c].goal
  BY <1>1 DEF TypeOK, Requests
<1> PICK turn \in Int : turn = (goal - left[c]) \div BlockSize
  <2> PICK done \in Int : done = goal - left[c]
    BY <1>1 DEF TypeOK
  <2>1. done \div BlockSize \in Int
    BY DataAssumption
  <2> QED BY <2>1
<1>2. /\ UNCHANGED <<mapping, owner, first_block, state, file_size, wlock, req>>
      /\ UNCHANGED <<left, movs>> /\ pc[c] = "add_test" /\ need[c] <= 0
      /\ cell' = [cell EXCEPT ![c] = Head] /\ need' = [need EXCEPT ![c] = turn]
      /\ pc' = [pc EXCEPT ![c] = IF req[c].op = "write" THEN "data_seek" ELSE "ok"]
  BY DEF AddDone, Goto, Set, disk, entries, locks
<1>3. OthersStay(c)
  BY <1>1, <1>2 DEF OthersStay, TypeOK
<1>4. Works(c, n, s, m, t) /\ Adds(c, n, s)
  BY <1>2 DEF Sound, Works
<1>5. m = 0 /\ state'[req'[c].file] = "REGULAR"
  BY <1>2, <1>4 DEF Works
<1>6. /\ cell'[c] = Head /\ need'[c] = turn /\ need[c] \in Int /\ left[c] \in Int
      /\ pc'[c] = IF req[c].op = "write" THEN "data_seek" ELSE "ok"
  BY <1>1, <1>2 DEF TypeOK
<1>7. file_size[f] = goal
  BY <1>4 DEF Adds
<1>8. CASE req[c].op = "write"
  <2>1. /\ need[c] = goal - n * BlockSize /\ n > 0 /\ (n - 1) * BlockSize < goal
        /\ 1 <= left[c] /\ left[c] <= goal
    BY <1>4, <1>8 DEF Adds
  <2>2. goal <= n * BlockSize
    <3>1. n * BlockSize \in Int
      BY TimesBlockSize
    <3> QED BY <1>2, <2>1, <3>1
  <2>3. n = NecessaryBlocks(goal)
    BY <2>1, <2>2, NecessaryIs
  <2>4. Turn(c)' = turn
    BY <1>2 DEF Turn
  <2>5. turn >= 0
    <3>1. goal - left[c] \in Nat
      BY <1>6, <2>1
    <3> QED BY <3>1, DivisionFacts
  <2>6. cell'[c] = Place(s, Turn(c)' - need'[c])
    <3>1. turn - turn = 0 /\ turn <= turn
      OBVIOUS
    <3>2. Place(s, turn - turn) = Head
      BY <3>1 DEF Place
    <3> QED BY ONLY <1>6, <2>4, <3>2, Zenon
  <2>7. Moves(c, n, s)'
    <3>1. need'[c] >= 0 /\ need'[c] <= Turn(c)'
      <4>1. turn <= turn
        OBVIOUS
      <4> QED BY ONLY <1>6, <2>4, <2>5, <4>1, Zenon
    <3>2. left'[c] > 0 /\ 0 <= left'[c] /\ left'[c] <= req'[c].goal
      BY <1>2, <1>6, <2>1
    <3>3. req'[c].goal <= file_size'[req'[c].file] /\ n = NecessaryBlocks(file_size'[req'[c].file])
      BY <1>2, <1>7, <2>3
    <3> QED BY <1>2, <1>6, <1>8, <2>6, <3>1, <3>2, <3>3 DEF Moves
  <2>8. Works(c, n, s, m, t)'
    BY <1>5, <1>6, <1>8, <2>7 DEF Works
  <2> QED BY <1>1, <1>2, <1>3, <2>8, MoveSound
<1>9. CASE req[c].op # "write"
  <2> PICK new \in Nat : new = NecessaryBlocks(goal)
    BY NecessaryFacts
  <2>1. req[c].op = "truncate" /\ need[c] = new - n /\ need[c] >= 0
    BY <1>4, <1>9 DEF Adds
  <2>2. n = new
    BY <1>2, <2>1
  <2>3. Kept(c)' = new
    BY <1>2, <1>7, <2>1 DEF Kept
  <2>4. Works(c, n, s, m, t)'
    BY <1>2, <1>5, <1>6, <1>9, <2>1, <2>2, <2>3 DEF Works
  <2> QED BY <1>1, <1>2, <1>3, <2>4, MoveSound
<1> QED BY <1>8, <1>9

\* A seek passes blocks that the chain has: it meets no end.
LEMMA UndoSeekSound ==
  ASSUME IInv, FilesSound, NEW c \in Clients, UndoSeek(c)
  PROVE  FilesSound'
<1> PICK f \in Files : f = req[c].file
  BY DEF IInv, TypeOK, UndoSeek
<1> PICK n \in Nat, m \in Nat :
      \E s \in [1 .. n -> Blocks], t \in [1 .. m -> Blocks] : Sound(f, n, s, m, t)
  BY DEF FilesSound, FileSound
<1> PICK s \in [1 .. n -> Blocks], t \in [1 .. m -> Blocks] : Sound(f, n, s, m, t)
  OBVIOUS
<1>1. TypeOK
  BY DEF IInv
<1>2. /\ UNCHANGED <<mapping, owner, first_block, state, file_size, wlock, req>>
      /\ UNCHANGED <<left, movs>> /\ pc[c] = "undo_seek"
      /\ \A d \in Clients \ {c} : pc'[d] = pc[d] /\ cell'[d] = cell[d] /\ need'[d] = need[d]
  BY <1>1 DEF UndoSeek, Follow, Goto, Set, disk, entries, locks, TypeOK
<1>3. OthersStay(c)
  BY <1>2 DEF OthersStay
<1>4. Works(c, n, s, m, t) /\ Row(first_block[f], n, s)
  BY <1>2 DEF Sound
<1>5. m = 0 /\ state'[req'[c].file] = "REGULAR"
  BY <1>2, <1>4 DEF Works
<1> PICK kept \in Nat : kept = Kept(c)
  BY <1>1, NecessaryFacts DEF Kept, TypeOK
<1> PICK moves \in Int : moves = need[c]
  BY <1>1 DEF TypeOK
<1>6. Kept(c)' = kept
  BY <1>2 DEF Kept
<1>7. /\ Shrinks(c, n) /\ moves >= 0 /\ moves <= kept /\ cell[c] = Place(s, kept - moves)
      /\ kept <= n
  BY <1>2, <1>4 DEF Works, Shrinks
<1>8. Shrinks(c, n)'
  BY <1>2, <1>6, <1>7 DEF Shrinks
<1>9. CASE moves > 0
  <2> PICK k \in 0 .. n : k = kept - moves /\ k < n
    BY <1>7, <1>9
  <2>1. Load(f, cell[c]) # END_OF_FILE /\ Load(f, cell[c]) = Place(s, k + 1)
    <3>1. Load(f, Place(s, k)) = s[k + 1] /\ s[k + 1] = Place(s, k + 1) /\ s[k + 1] # END_OF_FILE
      BY ONLY <1>4, n \in Nat, f \in Files, k \in 0 .. n, k < n, PlaceLeads
    <3>2. cell[c] = Place(s, k)
      BY <1>7
    <3> QED BY <3>1, <3>2
  <2>2. pc'[c] = "undo_seek" /\ need'[c] = moves - 1 /\ cell'[c] = Place(s, k + 1)
    BY <1>1, <1>9, <2>1 DEF UndoSeek, Follow, Goto, Set, TypeOK
  <2>3. cell'[c] = Place(s, Kept(c)' - need'[c])
    <3>1. kept - (moves - 1) = k + 1
      OBVIOUS
    <3> QED BY ONLY <1>6, <2>2, <3>1, Zenon
  <2>4. need'[c] >= 0 /\ need'[c] <= Kept(c)'
    <3>1. moves - 1 >= 0 /\ moves - 1 <= kept
      BY <1>7, <1>9
    <3> QED BY ONLY <1>6, <2>2, <3>1, Zenon
  <2>5. Works(c, n, s, m, t)'
    BY <1>5, <1>8, <2>2, <2>3, <2>4 DEF Works
  <2> QED BY <1>1, <1>2, <1>3, <2>5, MoveSound
<1>10. CASE ~ (moves > 0)
  <2>1. pc'[c] = "release_lock" /\ cell' = cell
    BY <1>1, <1>10 DEF UndoSeek, Goto, TypeOK
  <2>2. cell'[c] = Place(s, Kept(c)')
    <3>1. kept - moves = kept
      BY <1>7, <1>10
    <3> QED BY ONLY <1>6, <1>7, <2>1, <3>1, Zenon
  <2>3. Works(c, n, s, m, t)'
    BY <1>5, <1>8, <2>1, <2>2 DEF Works
  <2> QED BY <1>1, <1>2, <1>3, <2>3, MoveSound
<1> QED BY <1>9, <1>10

LEMMA DataSeekSound ==
  ASSUME IInv, FilesSound, NEW c \in Clients, DataSeek(c)
  PROVE  FilesSound'
<1> PICK f \in Files : f = req[c].file
  BY DEF IInv, TypeOK, DataSeek
<1> PICK n \in Nat, m \in Nat :
      \E s \in [1 .. n -> Blocks], t \in [1 .. m -> Blocks] : Sound(f, n, s, m, t)
  BY DEF FilesSound, FileSound
<1> PICK s \in [1 .. n -> Blocks], t \in [1 .. m -> Blocks] : Sound(f, n, s, m, t)
  OBVIOUS
<1>1. TypeOK
  BY DEF IInv
<1>2. /\ UNCHANGED <<mapping, owner, first_block, state, file_size, wlock, req>>
      /\ UNCHANGED <<left, movs>> /\ pc[c] = "data_seek"
      /\ \A d \in Clients \ {c} : pc'[d] = pc[d] /\ cell'[d] = cell[d] /\ need'[d] = need[d]
  BY <1>1 DEF DataSeek, Follow, Goto, Set, disk, entries, locks, TypeOK
<1>3. OthersStay(c)
  BY <1>2 DEF OthersStay
<1>4. Works(c, n, s, m, t) /\ Row(first_block[f], n, s) /\ Moves(c, n, s)
  BY <1>2 DEF Sound, Works
<1>5. m = 0 /\ req[c].op \in {"write", "read"} /\ state'[req'[c].file] = "REGULAR"
  BY <1>2, <1>4 DEF Works, Moves
<1> PICK goal \in Nat, size \in Nat, rest \in Int :
      goal = req[c].goal /\ size = file_size[f] /\ rest = left[c]
  BY <1>1 DEF TypeOK, Requests
<1> PICK turn \in Int, moves \in Int : turn = Turn(c) /\ moves = need[c]
  BY <1>1, DataAssumption DEF TypeOK, Turn, Requests
<1>6. /\ n = NecessaryBlocks(size) /\ goal <= size /\ rest > 0 /\ rest <= goal
      /\ moves >= 0 /\ moves <= turn /\ cell[c] = Place(s, turn - moves)
  BY <1>2, <1>4 DEF Moves
<1>7. turn \in Nat /\ turn < n
  <2>1. goal - rest \in Nat /\ goal - rest < size
    <3>1. rest > 0 /\ rest <= goal /\ goal <= size
      BY <1>6
    <3> QED BY ONLY <3>1, goal \in Nat, size \in Nat, rest \in Int
  <2>2. turn = (goal - rest) \div BlockSize
    BY DEF Turn
  <2> QED BY <1>6, <2>1, <2>2, ByteIsInside
<1>8. Turn(c)' = turn
  BY <1>2 DEF Turn
<1>9. CASE moves > 0
  <2> PICK k \in 0 .. n : k = turn - moves /\ k < n
    BY <1>6, <1>7, <1>9
  <2>1. Load(f, cell[c]) # END_OF_FILE /\ Load(f, cell[c]) = Place(s, k + 1)
    <3>1. Load(f, Place(s, k)) = s[k + 1] /\ s[k + 1] = Place(s, k + 1) /\ s[k + 1] # END_OF_FILE
      BY ONLY <1>4, n \in Nat, f \in Files, k \in 0 .. n, k < n, PlaceLeads
    <3>2. cell[c] = Place(s, k)
      BY <1>6
    <3> QED BY <3>1, <3>2
  <2>2. pc'[c] = "data_seek" /\ need'[c] = moves - 1 /\ cell'[c] = Place(s, k + 1)
    BY <1>1, <1>9, <2>1 DEF DataSeek, Follow, Goto, Set, TypeOK
  <2>3. cell'[c] = Place(s, Turn(c)' - need'[c])
    <3>1. turn - (moves - 1) = k + 1
      OBVIOUS
    <3> QED BY ONLY <1>8, <2>2, <3>1, Zenon
  <2>4. need'[c] >= 0 /\ need'[c] <= Turn(c)'
    <3>1. moves - 1 >= 0 /\ moves - 1 <= turn
      BY <1>6, <1>9
    <3> QED BY ONLY <1>8, <2>2, <3>1, Zenon
  <2>5. Moves(c, n, s)'
    BY <1>2, <1>4, <2>2, <2>3, <2>4 DEF Moves
  <2>6. Works(c, n, s, m, t)'
    BY <1>5, <1>2, <2>2, <2>5 DEF Works
  <2> QED BY <1>1, <1>2, <1>3, <2>6, MoveSound
<1>10. CASE ~ (moves > 0)
  <2>1. pc'[c] = "copy" /\ cell' = cell
    BY <1>1, <1>10 DEF DataSeek, Goto, TypeOK
  <2>2. cell'[c] = Place(s, Turn(c)')
    <3>1. turn - moves = turn
      BY <1>6, <1>10
    <3> QED BY ONLY <1>6, <1>8, <2>1, <3>1, Zenon
  <2>3. Moves(c, n, s)'
    BY <1>2, <1>4, <2>1, <2>2 DEF Moves
  <2>4. Works(c, n, s, m, t)'
    BY <1>5, <1>2, <2>1, <2>3 DEF Works
  <2> QED BY <1>1, <1>2, <1>3, <2>4, MoveSound
<1> QED BY <1>9, <1>10

\* The bytes copied from one block of the chain: to its end, and then the next
\* byte is the first of the next block, or to the last byte of the request.
LEMMA CopyArithmetic ==
  ASSUME NEW goal \in Nat, NEW rest \in Int, rest > 0, rest <= goal,
         NEW n \in Nat, goal <= n * BlockSize,
         NEW bytes \in Int,
         bytes = IF rest >= BlockSize - ((goal - rest) % BlockSize)
                 THEN BlockSize - ((goal - rest) % BlockSize) ELSE rest
  PROVE  /\ rest - bytes \in Nat
         /\ rest - bytes > 0 =>
              /\ (goal - (rest - bytes)) \div BlockSize = (goal - rest) \div BlockSize + 1
              /\ (goal - rest) \div BlockSize + 1 < n
<1> PICK off \in Nat : off = goal - rest
  OBVIOUS
<1> PICK B \in Nat \ {0} : B = BlockSize
  BY DataAssumption
<1> PICK q \in Nat, r \in 0 .. B - 1 :
      q = off \div BlockSize /\ r = off % BlockSize /\ off = q * BlockSize + r
  BY DivisionFacts, TimesBlockSize
<1>1. bytes = IF rest >= B - r THEN B - r ELSE rest
  OBVIOUS
<1>2. rest - bytes \in Nat
  BY <1>1
<1>3. ASSUME rest - bytes > 0
      PROVE  /\ (goal - (rest - bytes)) \div BlockSize = q + 1
             /\ q + 1 < n
  <2>1. bytes = B - r /\ B - r < rest
    BY <1>1, <1>3
  <2> PICK whole \in Int : whole = q * BlockSize
    BY TimesBlockSize
  <2> PICK next \in Nat : next = goal - (rest - bytes)
    <3>1. goal - (rest - bytes) = off + (B - r) /\ B - r > 0
      BY ONLY <2>1, off = goal - rest, goal \in Nat, rest \in Int, bytes \in Int,
              B \in Nat \ {0}, r \in 0 .. B - 1
    <3> QED BY ONLY <3>1, off \in Nat, B \in Nat \ {0}, r \in 0 .. B - 1
  <2>2. next = whole + B /\ next < goal
    BY <2>1
  <2>3. (q + 1) * BlockSize = whole + B
    BY TimesBlockSize
  <2>4. q + 1 = next \div BlockSize
    <3>1. (q + 1) * BlockSize <= next /\ next < (q + 1) * BlockSize + BlockSize
      BY <2>2, <2>3
    <3> QED BY <3>1, QuotientIsBetween
  <2>5. q + 1 < n
    <3>1. n * BlockSize \in Int
      BY TimesBlockSize
    <3>2. (q + 1) * BlockSize < n * BlockSize
      BY <2>2, <2>3, <3>1
    <3> QED BY <3>2, TimesKeepsOrder
  <2> QED BY <2>4, <2>5
<1> QED BY <1>2, <1>3

LEMMA CopySound ==
  ASSUME IInv, FilesSound, NEW c \in Clients, CopyBlock(c)
  PROVE  FilesSound'
<1> PICK f \in Files : f = req[c].file
  BY DEF IInv, TypeOK, CopyBlock
<1> PICK n \in Nat, m \in Nat :
      \E s \in [1 .. n -> Blocks], t \in [1 .. m -> Blocks] : Sound(f, n, s, m, t)
  BY DEF FilesSound, FileSound
<1> PICK s \in [1 .. n -> Blocks], t \in [1 .. m -> Blocks] : Sound(f, n, s, m, t)
  OBVIOUS
<1>1. TypeOK
  BY DEF IInv
<1> PICK goal \in Nat, size \in Nat, rest \in Int :
      goal = req[c].goal /\ size = file_size[f] /\ rest = left[c]
  BY <1>1 DEF TypeOK, Requests
<1> PICK bytes \in Int :
      bytes = IF rest >= BlockSize - ((goal - rest) % BlockSize)
              THEN BlockSize - ((goal - rest) % BlockSize) ELSE rest
  BY DataAssumption
<1>2. /\ UNCHANGED <<mapping, owner, first_block, state, file_size, wlock, req>>
      /\ UNCHANGED <<need, movs>> /\ pc[c] = "copy" /\ rest > 0
  BY DEF CopyBlock, disk, entries, locks
<1>3. Works(c, n, s, m, t) /\ Row(first_block[f], n, s) /\ Moves(c, n, s)
  BY <1>2 DEF Sound, Works
<1>4. m = 0 /\ req[c].op \in {"write", "read"} /\ state'[req'[c].file] = "REGULAR"
  BY <1>2, <1>3 DEF Works, Moves
<1>5. /\ n = NecessaryBlocks(size) /\ goal <= size /\ rest <= goal
      /\ cell[c] = Place(s, Turn(c))
  BY <1>2, <1>3 DEF Moves
<1> PICK turn \in Nat : turn = (goal - rest) \div BlockSize /\ turn < n
  <2>1. goal - rest \in Nat /\ goal - rest < size
    BY <1>2, <1>5
  <2> QED BY <1>5, <2>1, ByteIsInside
<1>6. Turn(c) = turn
  BY DEF Turn
<1> PICK block \in Blocks : block = s[turn + 1]
  <2>1. turn + 1 \in 1 .. n
    OBVIOUS
  <2> QED BY <2>1
<1>7. Load(f, cell[c]) = block /\ block = Place(s, turn + 1) /\ block # END_OF_FILE
  <2>1. turn \in 0 .. n
    OBVIOUS
  <2>2. /\ Load(f, Place(s, turn)) = s[turn + 1] /\ s[turn + 1] # END_OF_FILE
        /\ s[turn + 1] = Place(s, turn + 1)
    BY ONLY <1>3, n \in Nat, f \in Files, <2>1, turn < n, PlaceLeads
  <2> QED BY <1>5, <1>6, <2>2
<1>8. mapping[block] # END_OF_FILE <=> turn + 1 < n
  <2>1. turn + 1 \in 1 .. n
    OBVIOUS
  <2>2. mapping[block] = IF turn + 1 < n THEN s[(turn + 1) + 1] ELSE END_OF_FILE
    BY <1>3, <2>1 DEF Row
  <2>3. turn + 1 < n => (turn + 1) + 1 \in 1 .. n
    BY <2>1
  <2> QED BY <2>2, <2>3, BlocksFacts
<1>9. /\ left' = [left EXCEPT ![c] = rest - bytes]
      /\ cell' = [cell EXCEPT ![c] = block]
      /\ pc' = [pc EXCEPT ![c] = IF mapping[block] = END_OF_FILE THEN "ok" ELSE "copy"]
  BY <1>7 DEF CopyBlock, Goto, Set
<1>10. /\ left'[c] = rest - bytes /\ cell'[c] = block
       /\ pc'[c] = IF mapping[block] = END_OF_FILE THEN "ok" ELSE "copy"
  BY <1>1, <1>9 DEF TypeOK
<1>11. OthersStay(c)
  BY <1>1, <1>2, <1>9 DEF OthersStay, TypeOK
<1>12. /\ rest - bytes \in Nat
       /\ rest - bytes > 0 => /\ (goal - (rest - bytes)) \div BlockSize = turn + 1
                              /\ turn + 1 < n
  <2>1. goal <= n * BlockSize
    <3>1. size <= n * BlockSize /\ n * BlockSize \in Int
      BY ONLY <1>5, size \in Nat, n \in Nat, NecessaryFacts, TimesBlockSize
    <3> QED BY <1>5, <3>1
  <2>2. bytes = IF rest >= BlockSize - ((goal - rest) % BlockSize)
                THEN BlockSize - ((goal - rest) % BlockSize) ELSE rest
    OBVIOUS
  <2>3. rest > 0 /\ rest <= goal
    BY <1>2, <1>5
  <2>4. /\ rest - bytes \in Nat
        /\ rest - bytes > 0 =>
             /\ (goal - (rest - bytes)) \div BlockSize = (goal - rest) \div BlockSize + 1
             /\ (goal - rest) \div BlockSize + 1 < n
    BY ONLY goal \in Nat, rest \in Int, n \in Nat, bytes \in Int, <2>1, <2>2, <2>3,
            CopyArithmetic
  <2> QED BY ONLY <2>4, turn = (goal - rest) \div BlockSize, Zenon
<1>13. bytes >= 0
  <2>1. goal - rest \in Nat
    BY <1>5
  <2>2. (goal - rest) % BlockSize \in 0 .. BlockSize - 1
    BY <2>1, DivisionFacts
  <2> QED BY <1>2, <2>2, DataAssumption
<1>14. Works(c, n, s, m, t)'
  <2>1. CASE mapping[block] = END_OF_FILE
    <3>1. left'[c] = 0
      BY <1>8, <1>10, <1>12, <2>1
    <3>2. pc'[c] = "ok"
      BY <1>10, <2>1
    <3>3. n = Kept(c)'
      BY <1>2, <1>4, <1>5 DEF Kept
    <3> QED BY <1>2, <1>4, <3>1, <3>2, <3>3 DEF Works
  <2>2. CASE mapping[block] # END_OF_FILE
    <3>1. pc'[c] = "copy"
      BY <1>10, <2>2
    <3>2. 0 <= left'[c] /\ left'[c] <= req'[c].goal
      BY <1>2, <1>5, <1>10, <1>12, <1>13
    <3>3. left'[c] > 0 => cell'[c] = Place(s, Turn(c)')
      <4>1. Turn(c)' = (goal - (rest - bytes)) \div BlockSize
        BY <1>2, <1>10 DEF Turn
      <4>2. rest - bytes > 0 => Turn(c)' = turn + 1
        BY ONLY <1>12, <4>1, Zenon
      <4> QED BY ONLY <1>7, <1>10, <4>2, Zenon
    <3>4. Moves(c, n, s)'
      BY <1>2, <1>4, <1>5, <3>1, <3>2, <3>3 DEF Moves
    <3> QED BY <1>2, <1>4, <3>1, <3>4 DEF Works
  <2> QED BY <2>1, <2>2
<1> QED BY <1>1, <1>2, <1>11, <1>14, MoveSound

LEMMA CopyEndSound ==
  ASSUME IInv, FilesSound, NEW c \in Clients, CopyEnd(c)
  PROVE  FilesSound'
<1> PICK f \in Files : f = req[c].file
  BY DEF IInv, TypeOK, CopyEnd
<1> PICK n \in Nat, m \in Nat :
      \E s \in [1 .. n -> Blocks], t \in [1 .. m -> Blocks] : Sound(f, n, s, m, t)
  BY DEF FilesSound, FileSound
<1> PICK s \in [1 .. n -> Blocks], t \in [1 .. m -> Blocks] : Sound(f, n, s, m, t)
  OBVIOUS
<1>1. TypeOK
  BY DEF IInv
<1>2. /\ UNCHANGED <<mapping, owner, first_block, state, file_size, wlock, req>>
      /\ UNCHANGED <<need, movs, left, cell>> /\ pc[c] = "copy" /\ left[c] <= 0
      /\ pc' = [pc EXCEPT ![c] = "ok"]
  BY DEF CopyEnd, Goto, disk, entries, locks, locals
<1>3. OthersStay(c)
  BY <1>1, <1>2 DEF OthersStay, TypeOK
<1>4. Works(c, n, s, m, t) /\ Moves(c, n, s)
  BY <1>2 DEF Sound, Works
<1>5. m = 0 /\ req[c].op \in {"write", "read"} /\ state'[req'[c].file] = "REGULAR"
  BY <1>2, <1>4 DEF Works, Moves
<1>6. n = Kept(c)'
  BY <1>2, <1>4, <1>5 DEF Kept, Moves
<1>7. pc'[c] = "ok" /\ left'[c] = 0
  BY <1>1, <1>2, <1>4 DEF Moves, TypeOK
<1>8. Works(c, n, s, m, t)'
  BY <1>2, <1>5, <1>6, <1>7 DEF Works
<1> QED BY <1>1, <1>2, <1>3, <1>8, MoveSound

\* The old size is put back on a file that still has the old blocks.
LEMMA FirstNoneSound ==
  ASSUME IInv, FilesSound, NEW c \in Clients, FirstNone(c)
  PROVE  FilesSound'
<1> PICK f \in Files : f = req[c].file
  BY DEF IInv, TypeOK, FirstNone
<1> PICK n \in Nat, m \in Nat :
      \E s \in [1 .. n -> Blocks], t \in [1 .. m -> Blocks] : Sound(f, n, s, m, t)
  BY DEF FilesSound, FileSound
<1> PICK s \in [1 .. n -> Blocks], t \in [1 .. m -> Blocks] : Sound(f, n, s, m, t)
  OBVIOUS
<1>1. TypeOK
  BY DEF IInv
<1>2. /\ UNCHANGED <<mapping, owner, first_block, state, wlock, req>>
      /\ UNCHANGED <<need, movs, left, cell>> /\ pc[c] = "first_test"
      /\ pc' = [pc EXCEPT ![c] = "enospc"]
      /\ file_size' = [file_size EXCEPT ![f] = req[c].fsize]
  BY DEF FirstNone, Goto, disk, locks, locals
<1>3. OthersStay(c) /\ req[c].op # "read"
  BY <1>1, <1>2 DEF OthersStay, TypeOK, IInv, EntryHeld
<1>4. Works(c, n, s, m, t) /\ Opens(c, n)
  BY <1>2 DEF Sound, Works
<1>5. m = 0 /\ state'[req'[c].file] = "REGULAR"
  BY <1>2, <1>4 DEF Works
<1>6. pc'[c] = "enospc" /\ file_size'[f] = req[c].fsize
  BY <1>1, <1>2 DEF TypeOK
<1>7. n = NecessaryBlocks(req[c].fsize)
  BY <1>4, NecessaryZero DEF Opens
<1>8. Works(c, n, s, m, t)'
  BY <1>2, <1>5, <1>6, <1>7, <1>4 DEF Works, Opens
<1>9. \A g \in Files \ {f} : state'[g] = state[g] /\ file_size'[g] = file_size[g]
  BY <1>1, <1>2 DEF TypeOK
<1> QED BY <1>2, <1>3, <1>8, <1>9, EntrySound

\* The old size is put back on a file that has its old blocks at least.
LEMMA AddNoSpaceSound ==
  ASSUME IInv, FilesSound, NEW c \in Clients, AddNoSpace(c)
  PROVE  FilesSound'
<1> PICK f \in Files : f = req[c].file
  BY DEF IInv, TypeOK, AddNoSpace
<1> PICK n \in Nat, m \in Nat :
      \E s \in [1 .. n -> Blocks], t \in [1 .. m -> Blocks] : Sound(f, n, s, m, t)
  BY DEF FilesSound, FileSound
<1> PICK s \in [1 .. n -> Blocks], t \in [1 .. m -> Blocks] : Sound(f, n, s, m, t)
  OBVIOUS
<1>1. TypeOK
  BY DEF IInv
<1> PICK old \in Nat, kept \in Nat : old = req[c].fsize /\ kept = NecessaryBlocks(old)
  BY <1>1, NecessaryFacts DEF TypeOK, Requests
<1>2. /\ UNCHANGED <<mapping, owner, first_block, state, wlock, req>>
      /\ UNCHANGED <<movs, left>> /\ pc[c] = "add_test"
      /\ pc' = [pc EXCEPT ![c] = "undo_seek"]
      /\ file_size' = [file_size EXCEPT ![f] = old]
      /\ need' = [need EXCEPT ![c] = kept] /\ cell' = [cell EXCEPT ![c] = Head]
  BY DEF AddNoSpace, Goto, Set, disk, locks
<1>3. OthersStay(c) /\ req[c].op # "read"
  BY <1>1, <1>2 DEF OthersStay, TypeOK, IInv, EntryHeld
<1>4. Works(c, n, s, m, t) /\ Adds(c, n, s)
  BY <1>2 DEF Sound, Works
<1>5. m = 0 /\ state'[req'[c].file] = "REGULAR"
  BY <1>2, <1>4 DEF Works
<1>6. /\ pc'[c] = "undo_seek" /\ file_size'[f] = old /\ need'[c] = kept /\ cell'[c] = Head
  BY <1>1, <1>2 DEF TypeOK
<1>7. req[c].op \in {"write", "truncate"} /\ req[c].goal > old /\ kept <= n
  BY <1>1, <1>4 DEF Adds, TypeOK
<1>8. Kept(c)' = kept
  BY <1>2, <1>6, <1>7 DEF Kept
<1>9. Shrinks(c, n)'
  BY <1>2, <1>6, <1>7, <1>8 DEF Shrinks
<1>10. need'[c] >= 0 /\ need'[c] <= Kept(c)' /\ cell'[c] = Place(s, Kept(c)' - need'[c])
  <2>1. kept - kept = 0 /\ kept >= 0 /\ kept <= kept
    BY ONLY kept \in Nat
  <2>2. Place(s, kept - kept) = Head
    BY <2>1 DEF Place
  <2> QED BY ONLY <1>6, <1>8, <2>1, <2>2, Zenon
<1>11. Works(c, n, s, m, t)'
  BY <1>5, <1>6, <1>9, <1>10 DEF Works
<1>12. \A g \in Files \ {f} : state'[g] = state[g] /\ file_size'[g] = file_size[g]
  BY <1>1, <1>2 DEF TypeOK
<1> QED BY <1>2, <1>3, <1>11, <1>12, EntrySound

\* Where a release ends, nothing is left behind the blocks to keep.
LEMMA ReleaseEndSound ==
  ASSUME IInv, FilesSound, NEW c \in Clients, ReleaseEnd(c)
  PROVE  FilesSound'
<1> PICK f \in Files : f = req[c].file
  BY DEF IInv, TypeOK, ReleaseEnd
<1> PICK n \in Nat, m \in Nat :
      \E s \in [1 .. n -> Blocks], t \in [1 .. m -> Blocks] : Sound(f, n, s, m, t)
  BY DEF FilesSound, FileSound
<1> PICK s \in [1 .. n -> Blocks], t \in [1 .. m -> Blocks] : Sound(f, n, s, m, t)
  OBVIOUS
<1>1. TypeOK
  BY DEF IInv
<1> DEFINE grew == req[c].op = "write" \/ (req[c].op = "truncate" /\ req[c].goal > req[c].fsize)
<1>2. /\ UNCHANGED <<mapping, owner, first_block, file_size, wlock, req>>
      /\ UNCHANGED <<need, movs, left, cell>> /\ pc[c] = "release"
      /\ Load(f, cell[c]) = END_OF_FILE
      /\ pc' = [pc EXCEPT ![c] = IF grew THEN "enospc" ELSE "ok"]
      /\ state' = IF req[c].op = "unlink" THEN [state EXCEPT ![f] = "DELETED"] ELSE state
  BY DEF ReleaseEnd, Goto, disk, locks, locals
<1>3. OthersStay(c) /\ req[c].op # "read"
  BY <1>1, <1>2 DEF OthersStay, TypeOK, IInv, EntryHeld
<1>4. Works(c, n, s, m, t) /\ Row(first_block[f], n, s) /\ Releases(c, n, s, m, t)
  BY <1>2 DEF Sound, Works
<1> PICK kept \in Nat : kept = Kept(c)
  BY <1>1, NecessaryFacts DEF Kept, TypeOK
<1>5. /\ req[c].op \in {"write", "truncate", "unlink"} /\ kept <= n
      /\ grew => file_size[f] = req[c].fsize
  BY <1>4 DEF Releases, Shrinks
<1>6. m = 0 /\ n = kept
  <2>1. CASE m = 0 /\ cell[c] = Place(s, kept)
    <3>1. kept < n => Load(f, Place(s, kept)) # END_OF_FILE
      <4>1. kept \in 0 .. n
        BY <1>5
      <4> QED BY ONLY <1>4, n \in Nat, f \in Files, <4>1, PlaceLeads
    <3> QED BY <1>2, <1>5, <2>1, <3>1
  <2>2. CASE n = kept /\ cell[c] \in Blocks /\ Row(mapping[cell[c]], m, t)
    <3>1. Load(f, cell[c]) = mapping[cell[c]]
      BY <2>2, BlocksFacts DEF Load
    <3>2. m > 0 => t[1] \in Blocks /\ mapping[cell[c]] = t[1]
      BY <2>2 DEF Row
    <3> QED BY <1>2, <2>2, <3>1, <3>2, BlocksFacts
  <2> QED BY <1>4, <2>1, <2>2 DEF Releases
<1>7. Kept(c)' = kept
  BY <1>2 DEF Kept
<1>8. pc'[c] = IF grew THEN "enospc" ELSE "ok"
  BY <1>1, <1>2 DEF TypeOK
<1>9. state'[f] = IF req[c].op = "unlink" THEN "DELETED" ELSE "REGULAR"
  <2>1. state[f] = "REGULAR"
    BY <1>2, <1>4 DEF Works
  <2> QED BY <1>1, <1>2, <2>1 DEF TypeOK
<1>10. Works(c, n, s, m, t)'
  <2>1. CASE grew
    <3>1. n = NecessaryBlocks(req[c].fsize)
      BY <1>5, <1>6, <2>1 DEF Kept
    <3> QED BY <1>2, <1>5, <1>6, <1>8, <1>9, <2>1, <3>1 DEF Works
  <2>2. CASE ~grew
    BY <1>2, <1>5, <1>6, <1>7, <1>8, <1>9, <2>2 DEF Works
  <2> QED BY <2>1, <2>2
<1>11. \A g \in Files \ {f} : state'[g] = state[g] /\ file_size'[g] = file_size[g]
  BY <1>1, <1>2 DEF TypeOK
<1> QED BY <1>2, <1>3, <1>10, <1>11, EntrySound

-----------------------------------------------------------------------------
(* The steps that change a chain *)

\* A free block is entered behind the last one.
LEMMA LinkedRow ==
  ASSUME TypeOK, NEW f \in Files, NEW n \in Nat, NEW s \in [1 .. n -> Blocks],
         Row(first_block[f], n, s), NEW pos \in Blocks, \A i \in 1 .. n : s[i] # pos,
         Link(f, Place(s, n), pos),
         NEW longer, longer = [i \in 1 .. n + 1 |-> IF i <= n THEN s[i] ELSE pos]
  PROVE  /\ longer \in [1 .. n + 1 -> Blocks]
         /\ Row(first_block[f], n + 1, longer)'
         /\ pos = Place(longer, n + 1)
<1> DEFINE p == Place(s, n)
<1>1. /\ \A i, j \in 1 .. n : s[i] = s[j] => i = j
      /\ first_block[f] = IF n > 0 THEN s[1] ELSE END_OF_FILE
      /\ \A k \in 1 .. n : mapping[s[k]] = IF k < n THEN s[k + 1] ELSE END_OF_FILE
  BY DEF Row
<1>2. /\ \A i \in 1 .. n : i \in 1 .. n + 1 /\ longer[i] = s[i]
      /\ longer[n + 1] = pos
      /\ \A i \in 1 .. n + 1 : i \in 1 .. n \/ i = n + 1
  OBVIOUS
<1>3. longer \in [1 .. n + 1 -> Blocks]
  OBVIOUS
<1>4. p = IF n = 0 THEN Head ELSE s[n]
  BY DEF Place
<1>5. /\ mapping' = [b \in Blocks |-> IF b = pos THEN END_OF_FILE
                                      ELSE IF b = p THEN pos ELSE mapping[b]]
      /\ first_block'[f] = IF p = Head THEN pos ELSE first_block[f]
  BY DEF Link
<1> HIDE DEF p
<1>6. \A i \in 1 .. n : s[i] \in Blocks /\ s[i] # Head /\ s[i] # pos
  BY BlocksFacts
<1>7. \A i, j \in 1 .. n + 1 : longer[i] = longer[j] => i = j
  BY <1>1, <1>2, <1>6
<1>8. first_block'[f] = longer[1]
  <2>1. CASE n = 0
    BY <1>2, <1>4, <1>5, <2>1
  <2>2. CASE n # 0
    <3>1. 1 \in 1 .. n /\ n \in 1 .. n
      BY <2>2
    <3>2. p # Head
      BY <1>4, <1>6, <2>2, <3>1
    <3> QED BY <1>1, <1>2, <1>5, <2>2, <3>1, <3>2
  <2> QED BY <2>1, <2>2
<1>9. ASSUME NEW k \in 1 .. n + 1
      PROVE  mapping'[longer[k]] = IF k < n + 1 THEN longer[k + 1] ELSE END_OF_FILE
  <2>1. CASE k = n + 1
    BY <1>2, <1>5, <2>1
  <2>2. CASE k = n
    <3>1. n \in 1 .. n /\ p = s[n]
      BY <1>4, <2>2
    <3> QED BY <1>2, <1>5, <1>6, <2>2, <3>1
  <2>3. CASE k < n
    <3>1. k \in 1 .. n /\ k + 1 \in 1 .. n /\ n \in 1 .. n /\ k # n /\ n # 0
      BY <2>3
    <3>2. s[k] # p
      BY <1>1, <1>4, <3>1
    <3>3. mapping'[s[k]] = mapping[s[k]]
      BY <1>5, <1>6, <3>1, <3>2
    <3> QED BY <1>1, <1>2, <2>3, <3>1, <3>3
  <2> QED BY <2>1, <2>2, <2>3
<1>10. Row(first_block[f], n + 1, longer)'
  <2>1. n + 1 > 0
    OBVIOUS
  <2> QED BY <1>3, <1>7, <1>8, <1>9, <2>1 DEF Row
<1> QED BY <1>2, <1>3, <1>10 DEF Place

\* The file that gets the block owns it; no other file does.
LEMMA LinkSound ==
  ASSUME IInv, FilesSound, NEW c \in Clients, OthersStay(c),
         pc[c] \in {"first_set", "add_set"}, pc'[c] # "idle",
         NEW f \in Files, f = req[c].file,
         NEW n \in Nat, NEW s \in [1 .. n -> Blocks], NEW t \in [1 .. 0 -> Blocks],
         Sound(f, n, s, 0, t), NEW pos \in Blocks, pos \notin bitmap,
         Link(f, Place(s, n), pos),
         UNCHANGED <<state, file_size, wlock, req>>,
         NEW longer, longer = [i \in 1 .. n + 1 |-> IF i <= n THEN s[i] ELSE pos],
         Works(c, n + 1, longer, 0, t)'
  PROVE  FilesSound'
<1>1. TypeOK
  BY DEF IInv
<1>2. owner[pos] = NoFile /\ f # NoFile
  BY BlocksFacts DEF IInv, OwnersAgree
<1>3. /\ Row(first_block[f], n, s)
      /\ \A b \in Blocks : owner[b] = f <=> \/ \E i \in 1 .. n : s[i] = b
                                            \/ \E i \in 1 .. 0 : t[i] = b
  BY DEF Sound
<1>4. \A b \in Blocks : owner[b] = f <=> \E i \in 1 .. n : s[i] = b
  BY <1>3
<1>5. \A i \in 1 .. n : s[i] # pos
  BY <1>2, <1>4
<1>6. /\ longer \in [1 .. n + 1 -> Blocks] /\ Row(first_block[f], n + 1, longer)'
  BY <1>1, <1>3, <1>5, LinkedRow
<1>7. /\ \A i \in 1 .. n : i \in 1 .. n + 1 /\ longer[i] = s[i]
      /\ n + 1 \in 1 .. n + 1 /\ longer[n + 1] = pos
      /\ \A i \in 1 .. n + 1 : i \in 1 .. n \/ i = n + 1
  OBVIOUS
<1>8. /\ owner' = [owner EXCEPT ![pos] = f]
      /\ mapping' = [b \in Blocks |-> IF b = pos THEN END_OF_FILE
                                      ELSE IF b = Place(s, n) THEN pos ELSE mapping[b]]
      /\ \A g \in Files \ {f} : first_block'[g] = first_block[g]
  BY DEF Link
<1>9. \A b \in Blocks : owner'[b] = f <=> \E i \in 1 .. n + 1 : longer[i] = b
  <2> SUFFICES ASSUME NEW b \in Blocks
               PROVE  owner'[b] = f <=> \E i \in 1 .. n + 1 : longer[i] = b
    OBVIOUS
  <2>1. owner'[b] = IF b = pos THEN f ELSE owner[b]
    BY <1>1, <1>8 DEF TypeOK
  <2>2. CASE b = pos
    BY <1>7, <2>1, <2>2
  <2>3. CASE b # pos
    BY <1>4, <1>7, <2>1, <2>3
  <2> QED BY <2>2, <2>3
<1>10. pc[c] # "idle" /\ req[c].op # "read" /\ m_lock = c
  BY DEF IInv, EntryHeld, MutexHeld, Critical
<1>11. ASSUME NEW d \in Clients, pc'[d] # "idle", req'[d].file = f
       PROVE  d = c
  BY <1>10, <1>11, Alone DEF OthersStay
<1>12. wlock'[f] # NoClient
  BY <1>10, Alone, BlocksFacts
<1>13. Sound(f, n + 1, longer, 0, t)'
  <2>1. \A b \in Blocks : owner'[b] = f <=> \/ \E i \in 1 .. n + 1 : longer[i] = b
                                            \/ \E i \in 1 .. 0 : t[i] = b
    BY <1>9
  <2>2. \A i \in 1 .. n + 1, j \in 1 .. 0 : longer[i] # t[j]
    OBVIOUS
  <2>3. \A d \in Clients : pc'[d] # "idle" /\ req'[d].file = f => Works(d, n + 1, longer, 0, t)'
    BY <1>11
  <2> QED BY ONLY t \in [1 .. 0 -> Blocks], <1>6, <1>12, <2>1, <2>2, <2>3 DEF Sound
<1>14. FileSound(f)'
  <2>1. n + 1 \in Nat /\ 0 \in Nat
    OBVIOUS
  <2> QED BY <1>6, <1>13, <2>1 DEF FileSound
<1>15. \A g \in Files \ {f} : FileSound(g)'
  <2>1. \A d \in Clients \ {c} : pc[d] # "release"
    BY <1>10 DEF IInv, MutexHeld, Critical
  <2>2. \A b \in Blocks : owner[b] \notin {f, NoFile} =>
          mapping'[b] = mapping[b] /\ owner'[b] = owner[b]
    <3> SUFFICES ASSUME NEW b \in Blocks, owner[b] \notin {f, NoFile}
                 PROVE  mapping'[b] = mapping[b] /\ owner'[b] = owner[b]
      OBVIOUS
    <3>1. b # pos /\ b # Head
      BY <1>2, BlocksFacts
    <3>2. b # Place(s, n)
      <4>1. n # 0 => n \in 1 .. n
        OBVIOUS
      <4> QED BY <1>4, <3>1, <4>1 DEF Place
    <3> QED BY <1>1, <1>8, <3>1, <3>2 DEF TypeOK
  <2>3. \A b \in Blocks : owner[b] \in {f, NoFile} => owner'[b] \in {f, NoFile}
    BY <1>1, <1>8 DEF TypeOK
  <2> QED BY <1>1, <1>8, <2>1, <2>2, <2>3, ElsewhereSound
<1> QED BY <1>14, <1>15 DEF FilesSound

LEMMA FirstSetSound ==
  ASSUME IInv, FilesSound, NEW c \in Clients, FirstSet(c)
  PROVE  FilesSound'
<1> PICK f \in Files : f = req[c].file
  BY DEF IInv, TypeOK, FirstSet
<1> PICK n \in Nat, m \in Nat :
      \E s \in [1 .. n -> Blocks], t \in [1 .. m -> Blocks] : Sound(f, n, s, m, t)
  BY DEF FilesSound, FileSound
<1> PICK s \in [1 .. n -> Blocks], t \in [1 .. m -> Blocks] : Sound(f, n, s, m, t)
  OBVIOUS
<1>1. TypeOK
  BY DEF IInv
<1> PICK pos \in Blocks : pos = free_db[c] /\ pos \notin bitmap
  BY <1>1, BlocksFacts DEF FirstSet, TypeOK, IInv, FoundIsFree
<1>2. /\ Link(f, Head, pos) /\ pc[c] = "first_set"
      /\ cell' = [cell EXCEPT ![c] = pos] /\ pc' = [pc EXCEPT ![c] = "walk"]
      /\ UNCHANGED <<state, file_size, wlock, req>> /\ UNCHANGED <<movs, need, left>>
  BY DEF FirstSet, Goto, Set, locks
<1>3. OthersStay(c) /\ pc'[c] = "walk" /\ cell'[c] = pos
  BY <1>1, <1>2 DEF OthersStay, TypeOK
<1>4. Works(c, n, s, m, t) /\ Opens(c, n)
  BY <1>2 DEF Sound, Works
<1>5. m = 0 /\ n = 0 /\ state'[req'[c].file] = "REGULAR"
  BY <1>2, <1>4 DEF Works, Opens
<1> PICK longer : longer = [i \in 1 .. n + 1 |-> IF i <= n THEN s[i] ELSE pos]
  OBVIOUS
<1>6. longer[1] = pos /\ n + 1 = 1 /\ 1 > 0
  BY <1>5
<1>7. Walks(c, n + 1, longer)'
  <2>1. /\ req'[c].op = "write" /\ req'[c].fsize = 0 /\ req'[c].goal > 0
        /\ file_size'[req'[c].file] = req'[c].goal
        /\ need'[c] = req'[c].goal /\ movs'[c] = 0
        /\ 1 <= left'[c] /\ left'[c] <= req'[c].goal
    BY <1>2, <1>4 DEF Opens
  <2>2. req'[c].goal - req'[c].fsize = req'[c].goal
    BY <1>1, <1>2, <2>1 DEF TypeOK, Requests
  <2>3. movs'[c] + 1 = 1 /\ 1 <= n + 1
    BY <1>6, <2>1
  <2> QED BY <1>3, <1>6, <2>1, <2>2, <2>3 DEF Walks
<1>8. Works(c, n + 1, longer, 0, t)'
  BY <1>3, <1>5, <1>7 DEF Works
<1>9. Link(f, Place(s, n), pos)
  BY <1>2, <1>5 DEF Place
<1>10. t \in [1 .. 0 -> Blocks] /\ Sound(f, n, s, 0, t)
  BY <1>5
<1>11. /\ UNCHANGED <<state, file_size, wlock, req>>
       /\ pc[c] \in {"first_set", "add_set"} /\ pc'[c] # "idle"
  BY <1>2, <1>3
<1> QED BY ONLY IInv, FilesSound, c \in Clients, f \in Files, f = req[c].file, n \in Nat,
                s \in [1 .. n -> Blocks], pos \in Blocks, pos \notin bitmap,
                longer = [i \in 1 .. n + 1 |-> IF i <= n THEN s[i] ELSE pos],
                <1>3, <1>8, <1>9, <1>10, <1>11, LinkSound

LEMMA AddSetSound ==
  ASSUME IInv, FilesSound, NEW c \in Clients, AddSet(c)
  PROVE  FilesSound'
<1> PICK f \in Files : f = req[c].file
  BY DEF IInv, TypeOK, AddSet
<1> PICK n \in Nat, m \in Nat :
      \E s \in [1 .. n -> Blocks], t \in [1 .. m -> Blocks] : Sound(f, n, s, m, t)
  BY DEF FilesSound, FileSound
<1> PICK s \in [1 .. n -> Blocks], t \in [1 .. m -> Blocks] : Sound(f, n, s, m, t)
  OBVIOUS
<1>1. TypeOK
  BY DEF IInv
<1> PICK pos \in Blocks : pos = free_db[c] /\ pos \notin bitmap
  BY <1>1, BlocksFacts DEF AddSet, TypeOK, IInv, FoundIsFree
<1> PICK goal \in Nat, missing \in Int : goal = req[c].goal /\ missing = need[c]
  BY <1>1 DEF TypeOK, Requests
<1>2. /\ Link(f, cell[c], pos) /\ pc[c] = "add_set"
      /\ cell' = [cell EXCEPT ![c] = pos] /\ pc' = [pc EXCEPT ![c] = "add_test"]
      /\ need' = [need EXCEPT ![c] =
                    missing - IF req[c].op = "write" THEN BlockSize ELSE 1]
      /\ UNCHANGED <<state, file_size, wlock, req>> /\ UNCHANGED <<movs, left>>
  BY DEF AddSet, Goto, Set, locks
<1>3. /\ OthersStay(c) /\ pc'[c] = "add_test" /\ cell'[c] = pos
      /\ need'[c] = missing - IF req[c].op = "write" THEN BlockSize ELSE 1
  BY <1>1, <1>2 DEF OthersStay, TypeOK
<1>4. Works(c, n, s, m, t) /\ Adds(c, n, s) /\ Row(first_block[f], n, s)
  BY <1>2 DEF Sound, Works
<1>5. m = 0 /\ state'[req'[c].file] = "REGULAR"
  BY <1>2, <1>4 DEF Works
<1> PICK longer : longer = [i \in 1 .. n + 1 |-> IF i <= n THEN s[i] ELSE pos]
  OBVIOUS
<1>6. longer[n + 1] = pos /\ n + 1 # 0 /\ n + 1 > 0 /\ (n + 1) - 1 = n
  OBVIOUS
<1>7. cell'[c] = Place(longer, n + 1)
  BY <1>3, <1>6 DEF Place
<1>8. /\ file_size[f] = goal /\ goal > req[c].fsize /\ n >= NecessaryBlocks(req[c].fsize)
      /\ cell[c] = Place(s, n) /\ missing > 0
  BY <1>2, <1>4 DEF Adds
<1>9. Adds(c, n + 1, longer)'
  <2>1. n + 1 >= NecessaryBlocks(req[c].fsize)
    <3> PICK kept \in Nat : kept = NecessaryBlocks(req[c].fsize)
      BY <1>1, NecessaryFacts DEF TypeOK, Requests
    <3> QED BY <1>8
  <2>2. CASE req[c].op = "write"
    <3>1. /\ missing = goal - n * BlockSize /\ 1 <= left[c] /\ left[c] <= goal
      BY <1>4, <2>2 DEF Adds
    <3>2. n * BlockSize \in Int /\ (n + 1) * BlockSize = n * BlockSize + BlockSize
      BY TimesBlockSize
    <3>3. n * BlockSize < goal
      BY <1>8, <3>1, <3>2
    <3>4. need'[c] = goal - (n + 1) * BlockSize
      BY <1>3, <2>2, <3>1, <3>2, DataAssumption
    <3> QED BY <1>2, <1>3, <1>6, <1>7, <1>8, <2>1, <2>2, <3>1, <3>3, <3>4 DEF Adds
  <2>3. CASE req[c].op # "write"
    <3> PICK new \in Nat : new = NecessaryBlocks(goal)
      BY NecessaryFacts
    <3>1. req[c].op = "truncate" /\ missing = new - n
      BY <1>4, <2>3 DEF Adds
    <3>2. need'[c] = new - (n + 1) /\ need'[c] >= 0
      BY <1>3, <1>8, <2>3, <3>1
    <3> QED BY <1>2, <1>3, <1>7, <1>8, <2>1, <3>1, <3>2 DEF Adds
  <2> QED BY <2>2, <2>3
<1>10. Works(c, n + 1, longer, 0, t)'
  BY <1>3, <1>5, <1>9 DEF Works
<1>11. Link(f, Place(s, n), pos)
  BY <1>2, <1>8
<1>12. t \in [1 .. 0 -> Blocks] /\ Sound(f, n, s, 0, t)
  BY <1>5
<1>13. /\ UNCHANGED <<state, file_size, wlock, req>>
       /\ pc[c] \in {"first_set", "add_set"} /\ pc'[c] # "idle"
  BY <1>2, <1>3
<1> QED BY ONLY IInv, FilesSound, c \in Clients, f \in Files, f = req[c].file, n \in Nat,
                s \in [1 .. n -> Blocks], pos \in Blocks, pos \notin bitmap,
                longer = [i \in 1 .. n + 1 |-> IF i <= n THEN s[i] ELSE pos],
                <1>3, <1>10, <1>11, <1>12, <1>13, LinkSound

\* The place p of the chain of f ends it.
Cuts(f, p) ==
  /\ mapping' = [b \in Blocks |-> IF b = p THEN END_OF_FILE ELSE mapping[b]]
  /\ first_block'[f] = IF p = Head THEN END_OF_FILE ELSE first_block[f]

FirstOf(s, k) == [i \in 1 .. k |-> s[i]]
BehindOf(s, k, m) == [i \in 1 .. m |-> s[k + 1 + i]]

\* The chain is cut after its first k blocks: what was behind is a row that
\* begins at the block behind the cut.
LEMMA CutRow ==
  ASSUME TypeOK, NEW f \in Files, NEW n \in Nat, NEW s \in [1 .. n -> Blocks],
         Row(first_block[f], n, s), NEW k \in 0 .. n - 1, NEW p, p = Place(s, k),
         NEW aux \in Blocks, aux = s[k + 1],
         Cuts(f, p), NEW kept, kept = FirstOf(s, k),
         NEW m \in Nat, m = n - (k + 1), NEW rest, rest = BehindOf(s, k, m)
  PROVE  /\ kept \in [1 .. k -> Blocks] /\ Row(first_block[f], k, kept)'
         /\ rest \in [1 .. m -> Blocks] /\ Row(mapping[aux], m, rest)'
<1> USE DEF Cuts, FirstOf, BehindOf
<1>1. /\ \A i, j \in 1 .. n : s[i] = s[j] => i = j
      /\ first_block[f] = IF n > 0 THEN s[1] ELSE END_OF_FILE
      /\ \A i \in 1 .. n : mapping[s[i]] = IF i < n THEN s[i + 1] ELSE END_OF_FILE
  BY DEF Row
<1>2. /\ \A i \in 1 .. k : i \in 1 .. n /\ kept[i] = s[i]
      /\ \A i \in 1 .. m : k + 1 + i \in 1 .. n /\ rest[i] = s[k + 1 + i]
      /\ kept \in [1 .. k -> Blocks] /\ rest \in [1 .. m -> Blocks]
  OBVIOUS
<1>3. \A i \in 1 .. n : s[i] \in Blocks /\ s[i] # Head
  BY BlocksFacts
<1>4. p = IF k = 0 THEN Head ELSE s[k]
  BY DEF Place
<1>5. \A i \in 1 .. n : i # k => mapping'[s[i]] = mapping[s[i]]
  <2> SUFFICES ASSUME NEW i \in 1 .. n, i # k PROVE mapping'[s[i]] = mapping[s[i]]
    OBVIOUS
  <2>1. s[i] # p
    <3>1. k # 0 => k \in 1 .. n
      OBVIOUS
    <3> QED BY <1>1, <1>3, <1>4, <3>1
  <2> QED BY <1>3, <2>1
<1>6. k # 0 => mapping'[s[k]] = END_OF_FILE
  <2>1. k # 0 => k \in 1 .. n
    OBVIOUS
  <2> QED BY <1>3, <1>4, <2>1
<1>7. Row(first_block[f], k, kept)'
  <2>1. \A i, j \in 1 .. k : kept[i] = kept[j] => i = j
    BY <1>1, <1>2
  <2>2. first_block'[f] = IF k > 0 THEN kept[1] ELSE END_OF_FILE
    <3>1. CASE k = 0
      BY <1>4, <3>1
    <3>2. CASE k # 0
      <4>1. 1 \in 1 .. k /\ k \in 1 .. n /\ n > 0 /\ k > 0
        BY <3>2
      <4>2. p # Head
        BY <1>3, <1>4, <3>2, <4>1
      <4> QED BY <1>1, <1>2, <4>1, <4>2
    <3> QED BY <3>1, <3>2
  <2>3. ASSUME NEW i \in 1 .. k
        PROVE  mapping'[kept[i]] = IF i < k THEN kept[i + 1] ELSE END_OF_FILE
    <3>1. CASE i = k
      BY <1>2, <1>6, <3>1
    <3>2. CASE i < k
      <4>1. i \in 1 .. n /\ i + 1 \in 1 .. k /\ i # k /\ i < n
        BY <3>2
      <4> QED BY <1>1, <1>2, <1>5, <3>2, <4>1
    <3> QED BY <3>1, <3>2
  <2> QED BY <1>2, <2>1, <2>2, <2>3 DEF Row
<1>8. Row(mapping[aux], m, rest)'
  <2>1. \A i, j \in 1 .. m : rest[i] = rest[j] => i = j
    <3> SUFFICES ASSUME NEW i \in 1 .. m, NEW j \in 1 .. m, rest[i] = rest[j] PROVE i = j
      OBVIOUS
    <3>1. k + 1 + i = k + 1 + j
      BY <1>1, <1>2
    <3> QED BY <3>1
  <2>2. mapping'[aux] = IF m > 0 THEN rest[1] ELSE END_OF_FILE
    <3>1. k + 1 \in 1 .. n /\ k + 1 # k
      OBVIOUS
    <3>2. mapping'[aux] = IF k + 1 < n THEN s[(k + 1) + 1] ELSE END_OF_FILE
      BY <1>1, <1>5, <3>1
    <3>3. (k + 1 < n <=> m > 0) /\ (m > 0 => 1 \in 1 .. m)
      OBVIOUS
    <3> QED BY <1>2, <3>2, <3>3
  <2>3. ASSUME NEW i \in 1 .. m
        PROVE  mapping'[rest[i]] = IF i < m THEN rest[i + 1] ELSE END_OF_FILE
    <3> PICK j \in 1 .. n : j = k + 1 + i
      BY <1>2
    <3>1. j # k /\ rest[i] = s[j]
      BY <1>2
    <3>2. mapping'[rest[i]] = IF j < n THEN s[j + 1] ELSE END_OF_FILE
      BY <1>1, <1>5, <3>1
    <3>3. (j < n <=> i < m) /\ (i < m => i + 1 \in 1 .. m) /\ j + 1 = k + 1 + (i + 1)
      OBVIOUS
    <3> QED BY <1>2, <3>2, <3>3
  <2> QED BY <1>2, <2>1, <2>2, <2>3 DEF Row
<1> QED BY <1>2, <1>7, <1>8

\* The blocks of f are those of s and those of t.
Owns(f, n, s, m, t) ==
  /\ \A b \in Blocks : owner[b] = f <=> \/ \E i \in 1 .. n : s[i] = b
                                        \/ \E i \in 1 .. m : t[i] = b
  /\ \A i \in 1 .. n, j \in 1 .. m : s[i] # t[j]

\* What the freed block leads to is freed in its turn.
LEMMA ReleaseSound ==
  ASSUME IInv, FilesSound, NEW c \in Clients, Release(c)
  PROVE  FilesSound'
<1> PICK f \in Files : f = req[c].file
  BY DEF IInv, TypeOK, Release
<1> PICK n \in Nat, m \in Nat :
      \E s \in [1 .. n -> Blocks], t \in [1 .. m -> Blocks] : Sound(f, n, s, m, t)
  BY DEF FilesSound, FileSound
<1> PICK s \in [1 .. n -> Blocks], t \in [1 .. m -> Blocks] : Sound(f, n, s, m, t)
  OBVIOUS
<1>1. TypeOK
  BY DEF IInv
<1> PICK p \in Cells, aux \in Blocks :
      p = cell[c] /\ aux = Load(f, p) /\ aux # END_OF_FILE /\ aux # Head
  <2>1. cell[c] \in Cells /\ Load(f, cell[c]) # END_OF_FILE
    BY <1>1 DEF Release, TypeOK
  <2>2. Load(f, cell[c]) \in Pointers
    BY <1>1, <2>1 DEF Load, Cells, TypeOK
  <2> QED BY <2>1, <2>2, BlocksFacts DEF Pointers
<1>2. /\ pc[c] = "release"
      /\ owner' = [owner EXCEPT ![aux] = NoFile]
      /\ mapping' = [b \in Blocks |-> IF b = p THEN END_OF_FILE ELSE mapping[b]]
      /\ first_block' = [g \in Files |-> IF g = f /\ p = Head THEN END_OF_FILE
                                         ELSE first_block[g]]
      /\ cell' = [cell EXCEPT ![c] = aux]
      /\ UNCHANGED <<state, file_size, wlock, pc, req, movs, need, left>>
  BY DEF Release, Set, locks
<1>3. OthersStay(c) /\ cell'[c] = aux /\ req[c].op # "read" /\ f # NoFile
  BY <1>1, <1>2, BlocksFacts DEF OthersStay, TypeOK, IInv, EntryHeld
<1>4. Works(c, n, s, m, t) /\ Releases(c, n, s, m, t)
  BY <1>2 DEF Sound, Works
<1>5. /\ Row(first_block[f], n, s)
      /\ \A b \in Blocks : owner[b] = f <=> \/ \E i \in 1 .. n : s[i] = b
                                            \/ \E i \in 1 .. m : t[i] = b
      /\ \A i \in 1 .. n, j \in 1 .. m : s[i] # t[j]
  BY DEF Sound
<1> PICK kept \in Nat : kept = Kept(c)
  BY <1>1, NecessaryFacts DEF Kept, TypeOK
<1>6. Kept(c)' = kept
  BY <1>2 DEF Kept
<1>7. Shrinks(c, n) /\ kept <= n
  BY <1>4 DEF Releases, Shrinks
<1>8. \A k \in Nat : kept <= k => Shrinks(c, k)'
  BY <1>2, <1>6, <1>7 DEF Shrinks
<1>9. owner'[aux] = NoFile /\ \A b \in Blocks : b # aux => owner'[b] = owner[b]
  BY <1>1, <1>2 DEF TypeOK
<1>18. wlock[f] = c /\ \A d \in Clients \ {c} : pc[d] # "idle" => req[d].file # f
  <2>1. pc[c] # "idle"
    BY <1>2
  <2> QED BY ONLY IInv, c \in Clients, <1>3, <2>1, f = req[c].file, Alone
<1>10. wlock'[f] # NoClient
  BY <1>2, <1>18, BlocksFacts
<1>11. ASSUME NEW d \in Clients, pc'[d] # "idle", req'[d].file = f
       PROVE  d = c
  BY <1>2, <1>11, <1>18
<1>12. /\ p # Head => p \in Blocks
       /\ Load(f, p) = IF p = Head THEN first_block[f] ELSE mapping[p]
  BY DEF Load, Cells
\* It is enough to show the chain and the rest behind the new place.
<1>13. ASSUME NEW m2 \in Nat, NEW s2 \in [1 .. kept -> Blocks], NEW t2 \in [1 .. m2 -> Blocks],
              Row(first_block[f], kept, s2)', Row(mapping[aux], m2, t2)',
              Owns(f, kept, s2, m2, t2)'
       PROVE  FileSound(f)'
  <2>1. Releases(c, kept, s2, m2, t2)'
    <3>1. Shrinks(c, kept)'
      BY <1>8
    <3>2. kept = Kept(c)' /\ cell'[c] \in Blocks /\ owner'[cell'[c]] = NoFile
      BY <1>3, <1>6, <1>9
    <3>3. Row(mapping[cell[c]], m2, t2)'
      BY <1>3, <1>13 DEF Row
    <3> QED BY <3>1, <3>2, <3>3 DEF Releases
  <2>2. Works(c, kept, s2, m2, t2)'
    <3>1. state'[req'[c].file] = "REGULAR" /\ pc'[c] = "release"
      BY <1>2, <1>4 DEF Works
    <3> QED BY <2>1, <3>1 DEF Works
  <2>3. \A d \in Clients : pc'[d] # "idle" /\ req'[d].file = f => Works(d, kept, s2, m2, t2)'
    BY <1>11, <2>2
  <2>4. Sound(f, kept, s2, m2, t2)'
    BY <1>10, <1>13, <2>3 DEF Sound, Owns
  <2> QED BY <2>4 DEF FileSound
\* The first block given back is behind the last one to keep.
<1>14. ASSUME m = 0, p = Place(s, kept) PROVE FileSound(f)'
  <2>1. /\ kept = n => Load(f, Place(s, kept)) = END_OF_FILE
        /\ kept < n => Load(f, Place(s, kept)) = s[kept + 1]
    <3>1. kept \in 0 .. n
      BY <1>7
    <3> QED BY ONLY <1>5, n \in Nat, f \in Files, <3>1, PlaceLeads
  <2>2. kept \in 0 .. n - 1 /\ aux = s[kept + 1] /\ kept + 1 \in 1 .. n
    BY <1>7, <1>14, <2>1
  <2> PICK s2 : s2 = FirstOf(s, kept)
    OBVIOUS
  <2> PICK m2 \in Nat : m2 = n - (kept + 1)
    BY <2>2
  <2> PICK t2 : t2 = BehindOf(s, kept, m2)
    OBVIOUS
  <2>3. first_block'[f] = IF p = Head THEN END_OF_FILE ELSE first_block[f]
    BY <1>2
  <2>10. Row(first_block[f], n, s) /\ Cuts(f, p)
    BY <1>2, <1>5, <2>3 DEF Cuts
  <2>11. p = Place(s, kept)
    BY <1>14
  <2>12. kept \in 0 .. n - 1
    BY <2>2
  <2>13. aux = s[kept + 1]
    BY <2>2
  <2>4. /\ s2 \in [1 .. kept -> Blocks] /\ Row(first_block[f], kept, s2)'
        /\ t2 \in [1 .. m2 -> Blocks] /\ Row(mapping[aux], m2, t2)'
    <3>1. s2 \in [1 .. kept -> Blocks]
      BY <2>2 DEF FirstOf
    <3>2. Row(first_block[f], kept, s2)'
      BY ONLY <1>1, <2>10, <2>11, <2>12, <2>13, f \in Files, n \in Nat, m2 \in Nat,
              s \in [1 .. n -> Blocks], aux \in Blocks, m2 = n - (kept + 1),
              s2 = FirstOf(s, kept), t2 = BehindOf(s, kept, m2), CutRow
    <3>3. t2 \in [1 .. m2 -> Blocks]
      BY ONLY <1>1, <2>10, <2>11, <2>12, <2>13, f \in Files, n \in Nat, m2 \in Nat,
              s \in [1 .. n -> Blocks], aux \in Blocks, m2 = n - (kept + 1),
              s2 = FirstOf(s, kept), t2 = BehindOf(s, kept, m2), CutRow
    <3>4. Row(mapping[aux], m2, t2)'
      BY ONLY <1>1, <2>10, <2>11, <2>12, <2>13, f \in Files, n \in Nat, m2 \in Nat,
              s \in [1 .. n -> Blocks], aux \in Blocks, m2 = n - (kept + 1),
              s2 = FirstOf(s, kept), t2 = BehindOf(s, kept, m2), CutRow
    <3> QED BY <3>1, <3>2, <3>3, <3>4
  <2>5. /\ \A i \in 1 .. kept : i \in 1 .. n /\ i # kept + 1 /\ s2[i] = s[i]
        /\ \A i \in 1 .. m2 : kept + 1 + i \in 1 .. n /\ kept + 1 + i > kept + 1
                              /\ t2[i] = s[kept + 1 + i]
        /\ \A i \in 1 .. n : \/ i \in 1 .. kept
                             \/ i = kept + 1
                             \/ i - (kept + 1) \in 1 .. m2 /\ kept + 1 + (i - (kept + 1)) = i
    <3>1. \A i \in 1 .. kept : i \in 1 .. n /\ i # kept + 1
      BY <2>2
    <3>2. \A i \in 1 .. m2 : kept + 1 + i \in 1 .. n /\ kept + 1 + i > kept + 1
      BY <2>2
    <3>3. \A i \in 1 .. n : \/ i \in 1 .. kept
                            \/ i = kept + 1
                            \/ i - (kept + 1) \in 1 .. m2 /\ kept + 1 + (i - (kept + 1)) = i
      BY <2>2
    <3>4. /\ \A i \in 1 .. kept : s2[i] = s[i]
          /\ \A i \in 1 .. m2 : t2[i] = s[kept + 1 + i]
      BY DEF FirstOf, BehindOf
    <3> QED BY <3>1, <3>2, <3>3, <3>4
  <2>6. \A i, j \in 1 .. n : s[i] = s[j] => i = j
    BY <1>5 DEF Row
  <2>7. \A i \in 1 .. kept, j \in 1 .. m2 : s2[i] # t2[j]
    <3> SUFFICES ASSUME NEW i \in 1 .. kept, NEW j \in 1 .. m2, s2[i] = t2[j] PROVE FALSE
      OBVIOUS
    <3>1. i = kept + 1 + j
      BY <2>5, <2>6
    <3> QED BY <3>1
  <2>8. \A b \in Blocks : owner[b] = f <=> \E i \in 1 .. n : s[i] = b
    BY <1>5, <1>14
  <2>9. \A b \in Blocks : owner'[b] = f <=> \/ \E i \in 1 .. kept : s2[i] = b
                                            \/ \E i \in 1 .. m2 : t2[i] = b
    <3> SUFFICES ASSUME NEW b \in Blocks
                 PROVE  owner'[b] = f <=> \/ \E i \in 1 .. kept : s2[i] = b
                                          \/ \E i \in 1 .. m2 : t2[i] = b
      OBVIOUS
    <3>1. owner'[b] = f <=> b # aux /\ \E i \in 1 .. n : s[i] = b
      BY <1>3, <1>9, <2>8
    <3>2. ASSUME NEW i \in 1 .. n, s[i] = b, b # aux
          PROVE  (\E j \in 1 .. kept : s2[j] = b) \/ \E j \in 1 .. m2 : t2[j] = b
      <4>1. i # kept + 1
        BY <2>2, <3>2
      <4>2. CASE i \in 1 .. kept
        BY <2>5, <3>2, <4>2
      <4>3. CASE i \notin 1 .. kept
        <5> PICK j \in 1 .. m2 : kept + 1 + j = i
          BY <2>5, <4>1, <4>3
        <5> QED BY <2>5, <3>2
      <4> QED BY <4>2, <4>3
    <3>3. ASSUME NEW j \in 1 .. kept, s2[j] = b
          PROVE  b # aux /\ \E i \in 1 .. n : s[i] = b
      BY <2>2, <2>5, <2>6, <3>3
    <3>4. ASSUME NEW j \in 1 .. m2, t2[j] = b
          PROVE  b # aux /\ \E i \in 1 .. n : s[i] = b
      <4>1. kept + 1 + j \in 1 .. n /\ kept + 1 + j # kept + 1 /\ s[kept + 1 + j] = b
        BY <2>5, <3>4
      <4> QED BY <2>2, <2>6, <4>1
    <3> QED BY <3>1, <3>2, <3>3, <3>4
  <2>14. Owns(f, kept, s2, m2, t2)'
    BY <2>7, <2>9 DEF Owns
  <2> QED BY ONLY <1>13, <2>4, <2>14, m2 \in Nat
\* The next ones hang on the block that was given back before them.
<1>15. ASSUME n = kept, p \in Blocks, owner[p] = NoFile, Row(mapping[p], m, t) PROVE FileSound(f)'
  <2>1. aux = mapping[p] /\ p # Head
    BY <1>12, <1>15, BlocksFacts
  <2>2. /\ \A i, j \in 1 .. m : t[i] = t[j] => i = j
        /\ mapping[p] = IF m > 0 THEN t[1] ELSE END_OF_FILE
        /\ \A i \in 1 .. m : mapping[t[i]] = IF i < m THEN t[i + 1] ELSE END_OF_FILE
    BY <1>15 DEF Row
  <2>3. m > 0 /\ aux = t[1] /\ 1 \in 1 .. m
    BY <2>1, <2>2
  <2> PICK m2 \in Nat : m2 = m - 1
    BY <2>3
  <2> PICK t2 : t2 = [i \in 1 .. m2 |-> t[i + 1]]
    OBVIOUS
  <2>4. /\ \A i \in 1 .. m2 : i + 1 \in 1 .. m /\ i + 1 # 1 /\ t2[i] = t[i + 1]
        /\ \A i \in 1 .. m : i = 1 \/ (i - 1 \in 1 .. m2 /\ (i - 1) + 1 = i)
        /\ t2 \in [1 .. m2 -> Blocks]
    BY <2>3
  <2>5. /\ \A i \in 1 .. n : s[i] # p /\ mapping'[s[i]] = mapping[s[i]]
        /\ \A i \in 1 .. m : t[i] # p /\ mapping'[t[i]] = mapping[t[i]]
    <3>1. /\ \A i \in 1 .. n : owner[s[i]] = f /\ s[i] \in Blocks
          /\ \A i \in 1 .. m : owner[t[i]] = f /\ t[i] \in Blocks
      BY <1>5
    <3>2. f # owner[p]
      BY <1>3, <1>15
    <3> QED BY <1>2, <3>1, <3>2
  <2>6. Row(first_block[f], kept, s)'
    <3>1. first_block'[f] = first_block[f]
      BY <1>2, <2>1
    <3> QED BY <1>5, <1>15, <2>5, <3>1 DEF Row
  <2>7. Row(mapping[aux], m2, t2)'
    <3>1. \A i, j \in 1 .. m2 : t2[i] = t2[j] => i = j
      <4> SUFFICES ASSUME NEW i \in 1 .. m2, NEW j \in 1 .. m2, t2[i] = t2[j] PROVE i = j
        OBVIOUS
      <4>1. i + 1 = j + 1
        BY <2>2, <2>4
      <4> QED BY <4>1
    <3>2. mapping'[aux] = IF m2 > 0 THEN t2[1] ELSE END_OF_FILE
      <4>1. (1 < m <=> m2 > 0) /\ (m2 > 0 => 1 \in 1 .. m2)
        BY <2>3
      <4> QED BY <2>2, <2>3, <2>4, <2>5, <4>1
    <3>3. ASSUME NEW i \in 1 .. m2
          PROVE  mapping'[t2[i]] = IF i < m2 THEN t2[i + 1] ELSE END_OF_FILE
      <4>1. mapping'[t2[i]] = IF i + 1 < m THEN t[(i + 1) + 1] ELSE END_OF_FILE
        BY <2>2, <2>4, <2>5
      <4>2. (i + 1 < m <=> i < m2) /\ (i < m2 => i + 1 \in 1 .. m2)
        BY <2>3
      <4> QED BY <2>4, <4>1, <4>2
    <3> QED BY <2>4, <3>1, <3>2, <3>3 DEF Row
  <2>8. \A i \in 1 .. kept, j \in 1 .. m2 : s[i] # t2[j]
    BY <1>5, <1>15, <2>4
  <2>9. \A b \in Blocks : owner'[b] = f <=> \/ \E i \in 1 .. kept : s[i] = b
                                            \/ \E i \in 1 .. m2 : t2[i] = b
    <3> SUFFICES ASSUME NEW b \in Blocks
                 PROVE  owner'[b] = f <=> \/ \E i \in 1 .. kept : s[i] = b
                                          \/ \E i \in 1 .. m2 : t2[i] = b
      OBVIOUS
    <3>1. owner'[b] = f <=> b # aux /\ ((\E i \in 1 .. n : s[i] = b) \/ \E i \in 1 .. m : t[i] = b)
      BY <1>3, <1>5, <1>9
    <3>2. ASSUME NEW i \in 1 .. m, t[i] = b, b # aux
          PROVE  \E j \in 1 .. m2 : t2[j] = b
      <4>1. i # 1
        BY <2>3, <3>2
      <4>2. i - 1 \in 1 .. m2 /\ t2[i - 1] = t[i]
        BY <2>4, <4>1
      <4> QED BY <3>2, <4>2
    <3>3. ASSUME NEW i \in 1 .. n, s[i] = b
          PROVE  b # aux
      BY <1>5, <2>3, <3>3
    <3>4. ASSUME NEW j \in 1 .. m2, t2[j] = b
          PROVE  b # aux /\ \E i \in 1 .. m : t[i] = b
      BY <2>2, <2>3, <2>4, <3>4
    <3> QED BY <1>15, <3>1, <3>2, <3>3, <3>4
  <2>10. Owns(f, kept, s, m2, t2)'
    BY <2>8, <2>9 DEF Owns
  <2>11. s \in [1 .. kept -> Blocks] /\ t2 \in [1 .. m2 -> Blocks]
    BY <1>15, <2>4
  <2> QED BY ONLY <1>13, <2>6, <2>7, <2>10, <2>11, m2 \in Nat
<1>16. FileSound(f)'
  BY <1>4, <1>14, <1>15 DEF Releases
<1>17. \A g \in Files \ {f} : FileSound(g)'
  <2>1. \A d \in Clients \ {c} : pc[d] # "release"
    BY <1>2 DEF IInv, MutexHeld, Critical
  <2>2. owner[aux] = f
    <3>1. CASE m = 0 /\ p = Place(s, kept)
      <4>1. /\ kept = n => Load(f, Place(s, kept)) = END_OF_FILE
            /\ kept < n => Load(f, Place(s, kept)) = s[kept + 1]
        <5>1. kept \in 0 .. n
          BY <1>7
        <5> QED BY ONLY <1>5, n \in Nat, f \in Files, <5>1, PlaceLeads
      <4>2. kept + 1 \in 1 .. n /\ aux = s[kept + 1]
        BY <1>7, <3>1, <4>1
      <4> QED BY <1>5, <4>2
    <3>2. CASE p \in Blocks /\ Row(mapping[p], m, t)
      <4>1. aux = mapping[p]
        BY <1>12, <3>2, BlocksFacts
      <4>2. 1 \in 1 .. m /\ aux = t[1]
        BY <3>2, <4>1 DEF Row
      <4> QED BY <1>5, <4>2
    <3> QED BY <1>4, <3>1, <3>2 DEF Releases
  <2>3. p = Head \/ owner[p] \in {f, NoFile}
    <3>1. CASE p = Place(s, kept)
      <4>1. kept # 0 => kept \in 1 .. n
        BY <1>7
      <4> QED BY <1>5, <3>1, <4>1 DEF Place
    <3> QED BY <1>4, <3>1 DEF Releases
  <2>4. \A b \in Blocks : owner[b] \notin {f, NoFile} =>
          mapping'[b] = mapping[b] /\ owner'[b] = owner[b]
    BY <1>2, <1>9, <2>2, <2>3, BlocksFacts
  <2>5. \A b \in Blocks : owner[b] \in {f, NoFile} => owner'[b] \in {f, NoFile}
    BY <1>9
  <2>6. \A g \in Files \ {f} : first_block'[g] = first_block[g]
    BY <1>2
  <2> QED BY <1>1, <1>2, <1>3, <2>1, <2>4, <2>5, <2>6, ElsewhereSound
<1> QED BY <1>16, <1>17 DEF FilesSound
-----------------------------------------------------------------------------
(* The first and the last step of a request *)

\* Nobody works on an entry that is not locked.
LEMMA Unlocked ==
  ASSUME IInv, NEW f \in Files, wlock[f] = NoClient, rlock[f] = {}
  PROVE  \A d \in Clients : pc[d] # "idle" => req[d].file # f
<1> SUFFICES ASSUME NEW d \in Clients, pc[d] # "idle", req[d].file = f PROVE FALSE
  OBVIOUS
<1>1. IF req[d].op = "read" THEN d \in rlock[f] ELSE wlock[f] = d
  BY DEF IInv, EntryHeld
<1> QED BY <1>1, BlocksFacts

\* A request that has just locked its entry for itself.
LEMMA EnterSound ==
  ASSUME IInv, FilesSound, NEW c \in Clients, NEW f \in Files, pc[c] = "idle", OthersStay(c),
         req'[c].file = f, wlock[f] = NoClient, rlock[f] = {}, wlock'[f] = c,
         UNCHANGED <<mapping, owner, first_block, state>>,
         \A g \in Files \ {f} : file_size'[g] = file_size[g] /\ wlock'[g] = wlock[g],
         NEW n \in Nat, NEW s \in [1 .. n -> Blocks],
         NEW m \in Nat, NEW t \in [1 .. m -> Blocks],
         Sound(f, n, s, m, t), Works(c, n, s, m, t)'
  PROVE  FilesSound'
<1>1. TypeOK
  BY DEF IInv
<1>2. \A g \in Files \ {f} : FileSound(g)'
  BY <1>1, ElsewhereSound
<1>3. ASSUME NEW d \in Clients, pc'[d] # "idle", req'[d].file = f
      PROVE  Works(d, n, s, m, t)'
  <2>1. d = c
    BY <1>3, Unlocked DEF OthersStay
  <2> QED BY <2>1
<1>4. wlock'[f] # NoClient
  BY BlocksFacts
<1>5. Sound(f, n, s, m, t)'
  BY <1>3, <1>4 DEF Sound, Row
<1>6. FileSound(f)'
  BY <1>5 DEF FileSound
<1> QED BY <1>2, <1>6 DEF FilesSound

\* A new file has no blocks; a free entry had none either.
LEMMA CreateSound ==
  ASSUME IInv, FilesSound, NEW c \in Clients, NEW f \in Files, CreateNode(c, f)
  PROVE  FilesSound'
<1> PICK n \in Nat, m \in Nat :
      \E s \in [1 .. n -> Blocks], t \in [1 .. m -> Blocks] : Sound(f, n, s, m, t)
  BY DEF FilesSound, FileSound
<1> PICK s \in [1 .. n -> Blocks], t \in [1 .. m -> Blocks] : Sound(f, n, s, m, t)
  OBVIOUS
<1>1. TypeOK
  BY DEF IInv
<1>2. /\ pc[c] = "idle" /\ state[f] = "DELETED" /\ wlock[f] = NoClient /\ rlock[f] = {}
      /\ UNCHANGED <<mapping, owner, wlock, pc, req, cell, movs, need, left>>
      /\ state'[f] = "REGULAR" /\ file_size'[f] = 0 /\ first_block'[f] = END_OF_FILE
      /\ \A g \in Files \ {f} : /\ state'[g] = state[g] /\ file_size'[g] = file_size[g]
                                /\ first_block'[g] = first_block[g]
  BY <1>1 DEF CreateNode, disk, locks, locals, TypeOK
<1>3. m = 0 /\ n = 0
  BY <1>2 DEF Sound
<1>4. OthersStay(c)
  BY <1>2 DEF OthersStay
<1>5. \A g \in Files \ {f} : FileSound(g)'
  BY <1>1, <1>2, <1>4, ElsewhereSound
<1>6. \A d \in Clients : pc'[d] # "idle" => req'[d].file # f
  BY <1>2, Unlocked
<1>7. Row(first_block[f], n, s)'
  BY <1>2, <1>3 DEF Row
<1>8. Sound(f, n, s, m, t)'
  BY <1>2, <1>3, <1>6, <1>7, NecessaryZero DEF Sound
<1>9. FileSound(f)'
  BY <1>8 DEF FileSound
<1> QED BY <1>5, <1>9 DEF FilesSound

\* A write knows from the first block of the entry whether there is a chain.
LEMMA WriteSound ==
  ASSUME IInv, FilesSound, NEW c \in Clients, NEW f \in Files,
         NEW offset \in Nat, NEW size \in Nat, size > 0, Write(c, f, offset, size)
  PROVE  FilesSound'
<1> PICK n \in Nat, m \in Nat :
      \E s \in [1 .. n -> Blocks], t \in [1 .. m -> Blocks] : Sound(f, n, s, m, t)
  BY DEF FilesSound, FileSound
<1> PICK s \in [1 .. n -> Blocks], t \in [1 .. m -> Blocks] : Sound(f, n, s, m, t)
  OBVIOUS
<1>1. TypeOK
  BY DEF IInv
<1> PICK goal \in Nat : goal = offset + size
  OBVIOUS
<1> PICK old \in Nat : old = file_size[f]
  BY <1>1 DEF TypeOK
<1>2. /\ pc[c] = "idle" /\ state[f] = "REGULAR" /\ wlock[f] = NoClient /\ rlock[f] = {}
      /\ wlock'[f] = c /\ \A g \in Files \ {f} : wlock'[g] = wlock[g]
      /\ req'[c] = [op |-> "write", file |-> f, goal |-> goal, fsize |-> old]
      /\ left'[c] = size /\ movs'[c] = 0
      /\ UNCHANGED <<mapping, owner, state, first_block>>
  BY <1>1 DEF Write, WriteLock, Set, Request, disk, TypeOK
<1>3. OthersStay(c)
  BY <1>1 DEF Write, Goto, Set, OthersStay, TypeOK
<1>4. \/ /\ goal > old /\ file_size'[f] = goal /\ need'[c] = goal - old
         /\ \/ first_block[f] = END_OF_FILE /\ pc'[c] = "first_lock"
            \/ /\ first_block[f] # END_OF_FILE /\ pc'[c] = "walk"
               /\ cell'[c] = first_block[f]
      \/ /\ goal <= old /\ file_size'[f] = old /\ need'[c] = offset \div BlockSize
         /\ cell'[c] = Head /\ pc'[c] = "data_seek"
  BY <1>1 DEF Write, Goto, Set, TypeOK
<1>5. \A g \in Files \ {f} : file_size'[g] = file_size[g]
  BY <1>1 DEF Write, TypeOK
<1>6. m = 0 /\ n = NecessaryBlocks(old) /\ Row(first_block[f], n, s)
  BY <1>2 DEF Sound
<1>7. /\ req'[c].op = "write" /\ req'[c].file = f /\ req'[c].goal = goal /\ req'[c].fsize = old
      /\ state'[f] = "REGULAR" /\ 1 <= left'[c] /\ left'[c] <= goal
  BY <1>2
<1>8. n = 0 <=> first_block[f] = END_OF_FILE
  BY <1>6, BlocksFacts DEF Row
<1>9. Works(c, n, s, m, t)'
  <2>1. CASE pc'[c] = "first_lock"
    <3>1. old = 0
      BY <1>4, <1>6, <1>8, <2>1, NecessaryZero
    <3>2. Opens(c, n)'
      BY <1>2, <1>4, <1>7, <1>8, <2>1, <3>1 DEF Opens
    <3> QED BY <1>6, <1>7, <2>1, <3>2 DEF Works
  <2>2. CASE pc'[c] = "walk"
    <3>1. n > 0 /\ cell'[c] = s[movs'[c] + 1]
      BY <1>2, <1>4, <1>6, <1>8, <2>2 DEF Row
    <3>2. Walks(c, n, s)'
      BY <1>2, <1>4, <1>6, <1>7, <2>2, <3>1 DEF Walks
    <3> QED BY <1>6, <1>7, <2>2, <3>2 DEF Works
  <2>3. CASE pc'[c] = "data_seek"
    <3> PICK turn \in Nat : turn = offset \div BlockSize
      BY DivisionFacts
    <3>1. Turn(c)' = turn /\ need'[c] = turn
      <4>1. req'[c].goal - left'[c] = offset
        BY <1>2
      <4> QED BY <1>4, <2>3, <4>1 DEF Turn
    <3>2. cell'[c] = Place(s, Turn(c)' - need'[c])
      <4>1. Turn(c)' - need'[c] = 0
        BY <3>1
      <4> QED BY <1>4, <2>3, <4>1 DEF Place
    <3>3. Moves(c, n, s)'
      <4>1. left'[c] > 0 /\ 0 <= left'[c] /\ left'[c] <= req'[c].goal
        BY <1>2
      <4>2. /\ req'[c].goal <= file_size'[req'[c].file]
            /\ n = NecessaryBlocks(file_size'[req'[c].file])
        BY <1>4, <1>6, <1>7, <2>3
      <4>3. need'[c] >= 0 /\ need'[c] <= Turn(c)'
        BY <3>1
      <4> QED BY <1>7, <2>3, <3>2, <4>1, <4>2, <4>3 DEF Moves
    <3> QED BY <1>6, <1>7, <2>3, <3>3 DEF Works
  <2> QED BY <1>4, <2>1, <2>2, <2>3
<1> QED BY <1>2, <1>3, <1>5, <1>7, <1>9, EnterSound

\* A truncate begins its walk at the entry.
LEMMA TruncateSound ==
  ASSUME IInv, FilesSound, NEW c \in Clients, NEW f \in Files, NEW new_size \in Nat,
         Truncate(c, f, new_size)
  PROVE  FilesSound'
<1> PICK n \in Nat, m \in Nat :
      \E s \in [1 .. n -> Blocks], t \in [1 .. m -> Blocks] : Sound(f, n, s, m, t)
  BY DEF FilesSound, FileSound
<1> PICK s \in [1 .. n -> Blocks], t \in [1 .. m -> Blocks] : Sound(f, n, s, m, t)
  OBVIOUS
<1>1. TypeOK
  BY DEF IInv
<1> PICK old \in Nat : old = file_size[f]
  BY <1>1 DEF TypeOK
<1>2. /\ pc[c] = "idle" /\ state[f] = "REGULAR" /\ wlock[f] = NoClient /\ rlock[f] = {}
      /\ wlock'[f] = c /\ \A g \in Files \ {f} : wlock'[g] = wlock[g]
      /\ req'[c] = [op |-> "truncate", file |-> f, goal |-> new_size, fsize |-> old]
      /\ movs'[c] = 0 /\ cell'[c] = Head
      /\ pc'[c] = IF new_size = old THEN "ok" ELSE "walk"
      /\ file_size'[f] = new_size /\ \A g \in Files \ {f} : file_size'[g] = file_size[g]
      /\ UNCHANGED <<mapping, owner, state, first_block>>
  BY <1>1 DEF Truncate, WriteLock, Goto, Set, Request, disk, TypeOK
<1>3. OthersStay(c)
  BY <1>1 DEF Truncate, Goto, Set, OthersStay, TypeOK
<1>4. m = 0 /\ n = NecessaryBlocks(old)
  BY <1>2 DEF Sound
<1>5. /\ req'[c].op = "truncate" /\ req'[c].file = f /\ req'[c].goal = new_size
      /\ req'[c].fsize = old /\ state'[f] = "REGULAR"
  BY <1>2
<1>6. Works(c, n, s, m, t)'
  <2>1. CASE new_size = old
    <3>1. n = Kept(c)'
      BY <1>2, <1>4, <1>5, <2>1 DEF Kept
    <3> QED BY <1>2, <1>4, <1>5, <2>1, <3>1 DEF Works
  <2>2. CASE new_size # old
    <3>1. Walks(c, n, s)'
      BY <1>2, <1>4, <1>5, <2>2 DEF Walks, Place
    <3> QED BY <1>2, <1>4, <1>5, <2>2, <3>1 DEF Works
  <2> QED BY <2>1, <2>2
<1> QED BY <1>2, <1>3, <1>5, <1>6, EnterSound

\* An unlink keeps no block.
LEMMA UnlinkSound ==
  ASSUME IInv, FilesSound, NEW c \in Clients, NEW f \in Files, Unlink(c, f)
  PROVE  FilesSound'
<1> PICK n \in Nat, m \in Nat :
      \E s \in [1 .. n -> Blocks], t \in [1 .. m -> Blocks] : Sound(f, n, s, m, t)
  BY DEF FilesSound, FileSound
<1> PICK s \in [1 .. n -> Blocks], t \in [1 .. m -> Blocks] : Sound(f, n, s, m, t)
  OBVIOUS
<1>1. TypeOK
  BY DEF IInv
<1>2. /\ pc[c] = "idle" /\ state[f] = "REGULAR" /\ wlock[f] = NoClient /\ rlock[f] = {}
      /\ wlock'[f] = c /\ \A g \in Files \ {f} : wlock'[g] = wlock[g]
      /\ req'[c].op = "unlink" /\ req'[c].file = f
      /\ cell'[c] = Head /\ pc'[c] = "release_lock"
      /\ UNCHANGED <<mapping, owner, state, first_block, file_size>>
  BY <1>1 DEF Unlink, WriteLock, Goto, Set, Request, disk, entries, TypeOK
<1>3. OthersStay(c)
  BY <1>1 DEF Unlink, Goto, Set, OthersStay, TypeOK
<1>4. m = 0
  BY <1>2 DEF Sound
<1>5. Kept(c)' = 0
  BY <1>2 DEF Kept
<1>6. Shrinks(c, n)'
  BY <1>2, <1>5 DEF Shrinks
<1>7. Works(c, n, s, m, t)'
  BY <1>2, <1>4, <1>5, <1>6 DEF Works, Place
<1> QED BY <1>2, <1>3, <1>7, EnterSound

\* A read stands among other readers of its file.
LEMMA ReadSound ==
  ASSUME IInv, FilesSound, NEW c \in Clients, NEW f \in Files,
         NEW offset \in Nat, NEW size \in Nat, size > 0, Read(c, f, offset, size)
  PROVE  FilesSound'
<1> PICK n \in Nat, m \in Nat :
      \E s \in [1 .. n -> Blocks], t \in [1 .. m -> Blocks] : Sound(f, n, s, m, t)
  BY DEF FilesSound, FileSound
<1> PICK s \in [1 .. n -> Blocks], t \in [1 .. m -> Blocks] : Sound(f, n, s, m, t)
  OBVIOUS
<1>1. TypeOK
  BY DEF IInv
<1> PICK old \in Nat : old = file_size[f]
  BY <1>1 DEF TypeOK
<1> PICK goal \in Nat : goal = IF offset + size > old THEN old ELSE offset + size
  OBVIOUS
<1>2. /\ pc[c] = "idle" /\ state[f] = "REGULAR" /\ wlock[f] = NoClient
      /\ cell'[c] = Head /\ need'[c] = offset \div BlockSize
      /\ req'[c] = [op |-> "read", file |-> f, goal |-> goal, fsize |-> old]
      /\ UNCHANGED <<mapping, owner, state, first_block, file_size, wlock>>
  BY <1>1 DEF Read, ReadLock, Set, Request, disk, entries, TypeOK
<1>3. OthersStay(c)
  BY <1>1 DEF Read, Goto, Set, OthersStay, TypeOK
<1>4. \/ old = 0 /\ left'[c] = 0 /\ pc'[c] \in {"wild", "ok"}
      \/ offset < old - 1 /\ left'[c] = goal - offset /\ pc'[c] = "data_seek"
      \/ old > 0 /\ left'[c] = 0 /\ pc'[c] = "ok"
  BY <1>1 DEF Read, Goto, Set, TypeOK
<1>5. m = 0 /\ n = NecessaryBlocks(old)
  BY <1>2 DEF Sound
<1>6. /\ req'[c].op = "read" /\ req'[c].file = f /\ req'[c].goal = goal /\ req'[c].fsize = old
      /\ state'[f] = "REGULAR" /\ file_size'[f] = old
  BY <1>2
<1>7. Works(c, n, s, m, t)'
  <2>1. CASE pc'[c] = "wild"
    <3>1. old = 0
      BY <1>4, <2>1
    <3> QED BY <1>5, <1>6, <2>1, <3>1 DEF Works
  <2>2. CASE pc'[c] = "ok"
    <3>1. left'[c] = 0
      BY <1>4, <2>2
    <3>2. n = Kept(c)'
      BY <1>5, <1>6 DEF Kept
    <3> QED BY <1>5, <1>6, <2>2, <3>1, <3>2 DEF Works
  <2>3. CASE pc'[c] = "data_seek"
    <3> PICK turn \in Nat : turn = offset \div BlockSize
      BY DivisionFacts
    <3>1. offset < old - 1 /\ left'[c] = goal - offset
      BY <1>4, <2>3
    <3>2. left'[c] > 0 /\ goal <= old /\ left'[c] <= goal
      BY <3>1
    <3>3. Turn(c)' = turn /\ need'[c] = turn
      <4>1. req'[c].goal - left'[c] = offset
        BY <1>6, <3>1
      <4> QED BY <1>2, <4>1 DEF Turn
    <3>4. cell'[c] = Place(s, Turn(c)' - need'[c])
      <4>1. Turn(c)' - need'[c] = 0
        BY <3>3
      <4> QED BY <1>2, <4>1 DEF Place
    <3>5. Moves(c, n, s)'
      <4>1. 0 <= left'[c] /\ left'[c] <= req'[c].goal
        BY <1>6, <3>1, <3>2
      <4>2. /\ req'[c].goal <= file_size'[req'[c].file]
            /\ n = NecessaryBlocks(file_size'[req'[c].file])
        BY <1>5, <1>6, <3>2
      <4>3. need'[c] >= 0 /\ need'[c] <= Turn(c)'
        BY <3>3
      <4> QED BY <1>6, <2>3, <3>2, <3>4, <4>1, <4>2, <4>3 DEF Moves
    <3> QED BY <1>5, <1>6, <2>3, <3>5 DEF Works
  <2> QED BY <1>4, <2>1, <2>2, <2>3
<1>8. ASSUME NEW d \in Clients, pc'[d] # "idle", req'[d].file = f
      PROVE  Works(d, n, s, m, t)'
  <2>1. CASE d = c
    BY <1>7, <2>1
  <2>2. CASE d # c
    <3>1. /\ pc'[d] = pc[d] /\ req'[d] = req[d] /\ cell'[d] = cell[d]
          /\ movs'[d] = movs[d] /\ need'[d] = need[d] /\ left'[d] = left[d]
      BY <1>3, <2>2 DEF OthersStay
    <3>2. Works(d, n, s, m, t) /\ req[d].file = f
      BY <1>8, <3>1 DEF Sound
    <3> QED BY <1>2, <3>1, <3>2, WorksStays
  <2> QED BY <2>1, <2>2
<1>9. Sound(f, n, s, m, t)'
  BY <1>2, <1>8 DEF Sound, Row
<1>10. FileSound(f)'
  BY <1>9 DEF FileSound
<1>11. \A g \in Files \ {f} : FileSound(g)'
  BY <1>1, <1>2, <1>3, <1>6, ElsewhereSound
<1> QED BY <1>10, <1>11 DEF FilesSound

\* An answered request leaves its file with the blocks its size calls for.
LEMMA ReplySound ==
  ASSUME IInv, FilesSound, NEW c \in Clients, Reply(c)
  PROVE  FilesSound'
<1> PICK f \in Files : f = req[c].file
  BY DEF IInv, TypeOK, Reply
<1> PICK n \in Nat, m \in Nat :
      \E s \in [1 .. n -> Blocks], t \in [1 .. m -> Blocks] : Sound(f, n, s, m, t)
  BY DEF FilesSound, FileSound
<1> PICK s \in [1 .. n -> Blocks], t \in [1 .. m -> Blocks] : Sound(f, n, s, m, t)
  OBVIOUS
<1>1. TypeOK
  BY DEF IInv
<1>2. /\ pc[c] \in {"ok", "enospc"} /\ pc'[c] = "idle"
      /\ UNCHANGED <<mapping, owner, state, first_block, file_size>>
      /\ wlock' = [wlock EXCEPT ![f] = IF @ = c THEN NoClient ELSE @]
      /\ \A g \in Files \ {f} : wlock'[g] = wlock[g]
  BY <1>1 DEF Reply, Unlock, Goto, disk, entries, TypeOK
<1>3. OthersStay(c)
  BY <1>1 DEF Reply, Goto, Set, OthersStay, TypeOK
<1>4. Works(c, n, s, m, t)
  BY <1>2 DEF Sound
<1>5. m = 0 /\ n = IF state[f] = "REGULAR" THEN NecessaryBlocks(file_size[f]) ELSE 0
  <2>1. CASE req[c].op = "read"
    <3>1. c \in rlock[f]
      BY <1>2, <2>1 DEF IInv, EntryHeld
    <3>2. wlock[f] = NoClient
      BY <3>1 DEF IInv, EntryHeld
    <3> QED BY <3>2 DEF Sound
  <2>2. CASE pc[c] = "ok"
    BY <1>4, <2>2 DEF Works, Kept
  <2>3. CASE pc[c] = "enospc"
    BY <1>4, <2>3 DEF Works
  <2> QED BY <1>2, <2>2, <2>3
<1>6. ASSUME NEW d \in Clients, pc'[d] # "idle", req'[d].file = f
      PROVE  Works(d, n, s, m, t)'
  <2>1. d # c
    BY <1>2, <1>6
  <2>2. /\ pc'[d] = pc[d] /\ req'[d] = req[d] /\ cell'[d] = cell[d]
        /\ movs'[d] = movs[d] /\ need'[d] = need[d] /\ left'[d] = left[d]
    BY <1>3, <2>1 DEF OthersStay
  <2>3. Works(d, n, s, m, t) /\ req[d].file = f
    BY <1>6, <2>2 DEF Sound
  <2> QED BY <1>2, <2>2, <2>3, WorksStays
<1>7. Sound(f, n, s, m, t)'
  BY <1>2, <1>5, <1>6 DEF Sound, Row
<1>8. FileSound(f)'
  BY <1>7 DEF FileSound
<1>9. \A g \in Files \ {f} : FileSound(g)'
  BY <1>1, <1>2, <1>3, ElsewhereSound
<1> QED BY <1>8, <1>9 DEF FilesSound
-----------------------------------------------------------------------------
(* Every file is sound in every state *)

LEMMA InitSound == Init => FilesSound
<1> SUFFICES ASSUME Init, NEW f \in Files PROVE FileSound(f)
  BY DEF FilesSound
<1> PICK s : s \in [1 .. 0 -> Blocks]
  <2>1. [i \in 1 .. 0 |-> 0] \in [1 .. 0 -> Blocks]
    OBVIOUS
  <2> QED BY <2>1
<1>1. /\ first_block[f] = END_OF_FILE /\ state[f] = "DELETED"
      /\ \A c \in Clients : pc[c] = "idle"
      /\ \A b \in Blocks : owner[b] = NoFile
  BY DEF Init
<1>2. Row(first_block[f], 0, s)
  BY <1>1 DEF Row
<1>3. Sound(f, 0, s, 0, s)
  BY <1>1, <1>2, BlocksFacts DEF Sound
<1> QED BY <1>3 DEF FileSound

LEMMA StartSound ==
  ASSUME IInv, FilesSound, NEW c \in Clients, Start(c)
  PROVE  FilesSound'
<1> PICK f \in Files :
      \/ CreateNode(c, f)
      \/ \E offset, size \in Sizes :
           /\ size > 0 /\ offset + size <= MaxSize
           /\ Write(c, f, offset, size) \/ Read(c, f, offset, size)
      \/ \E new_size \in Sizes : Truncate(c, f, new_size)
      \/ Unlink(c, f)
  BY DEF Start
<1>1. \A x \in Sizes : x \in Nat
  BY DataAssumption DEF Sizes
<1>2. CASE CreateNode(c, f)
  BY <1>2, CreateSound
<1>3. ASSUME NEW offset \in Sizes, NEW size \in Sizes, size > 0,
             Write(c, f, offset, size) \/ Read(c, f, offset, size)
      PROVE  FilesSound'
  BY <1>1, <1>3, WriteSound, ReadSound
<1>4. ASSUME NEW new_size \in Sizes, Truncate(c, f, new_size) PROVE FilesSound'
  BY <1>1, <1>4, TruncateSound
<1>5. CASE Unlink(c, f)
  BY <1>5, UnlinkSound
<1> QED BY <1>2, <1>3, <1>4, <1>5

LEMMA StutterSound ==
  ASSUME FilesSound, UNCHANGED vars
  PROVE  FilesSound'
<1> SUFFICES ASSUME NEW f \in Files PROVE FileSound(f)'
  BY DEF FilesSound
<1> PICK n \in Nat, m \in Nat :
      \E s \in [1 .. n -> Blocks], t \in [1 .. m -> Blocks] : Sound(f, n, s, m, t)
  BY DEF FilesSound, FileSound
<1> PICK s \in [1 .. n -> Blocks], t \in [1 .. m -> Blocks] : Sound(f, n, s, m, t)
  OBVIOUS
<1>1. UNCHANGED <<mapping, owner, state, file_size, first_block, wlock, pc, req, cell, movs,
                  need, left>>
  BY DEF vars, disk, entries, locks, locals
<1>2. ASSUME NEW d \in Clients, pc'[d] # "idle", req'[d].file = f
      PROVE  Works(d, n, s, m, t)'
  <2>1. Works(d, n, s, m, t) /\ req[d].file = f
    BY <1>1, <1>2 DEF Sound
  <2> QED BY <1>1, <2>1, WorksStays
<1>3. Sound(f, n, s, m, t)'
  BY <1>1, <1>2 DEF Sound, Row
<1> QED BY <1>3 DEF FileSound

\* In every state the chain of every file is a row of blocks of its own, and a
\* request on it knows how far along that row it stands: nothing an interleaving
\* of walks, appends, refusals, releases and copies does breaks a chain.
THEOREM ChainsAreSound == Spec => [](IInv /\ FilesSound)
<1>1. IInv /\ FilesSound /\ [Next]_vars => FilesSound'
  <2> SUFFICES ASSUME IInv, FilesSound, [Next]_vars PROVE FilesSound'
    OBVIOUS
  <2>1. ASSUME NEW c \in Clients, Continue(c) PROVE FilesSound'
    <3>1. CASE FirstTest(c) \/ FirstSet(c) \/ FirstNone(c)
      BY <3>1, LockSound, FirstSetSound, FirstNoneSound
    <3>2. CASE Walk(c) \/ WalkEndWrite(c) \/ WalkEndTruncate(c)
      BY <3>2, WalkSound, WalkEndWriteSound, WalkEndTruncateSound
    <3>3. CASE AddTest(c) \/ AddSet(c) \/ AddDone(c) \/ AddNoSpace(c)
      BY <3>3, LockSound, AddSetSound, AddDoneSound, AddNoSpaceSound
    <3>4. CASE UndoSeek(c) \/ Release(c) \/ ReleaseEnd(c)
      BY <3>4, UndoSeekSound, ReleaseSound, ReleaseEndSound
    <3>5. CASE DataSeek(c) \/ CopyBlock(c) \/ CopyEnd(c) \/ Reply(c)
      BY <3>5, DataSeekSound, CopySound, CopyEndSound, ReplySound
    <3> QED BY <2>1, <3>1, <3>2, <3>3, <3>4, <3>5 DEF Continue
  <2>2. ASSUME NEW c \in Clients, Start(c) \/ TakeLock(c) PROVE FilesSound'
    BY <2>2, StartSound, LockSound
  <2>3. CASE UNCHANGED vars
    BY <2>3, StutterSound
  <2> QED BY <2>1, <2>2, <2>3 DEF Next
<1> QED BY <1>1, InitSound, Inductive, PTL DEF Spec

\* What FilesSound says of one file.
LEMMA SoundFile ==
  ASSUME IInv, FilesSound, NEW f \in Files
  PROVE  \E n \in Nat, m \in Nat :
           \E s \in [1 .. n -> Blocks], t \in [1 .. m -> Blocks] :
             /\ Sound(f, n, s, m, t)
             /\ Chain(f) = {s[i] : i \in 1 .. n} /\ Cardinality(Chain(f)) = n
<1> PICK n \in Nat, m \in Nat :
      \E s \in [1 .. n -> Blocks], t \in [1 .. m -> Blocks] : Sound(f, n, s, m, t)
  BY DEF FilesSound, FileSound
<1> PICK s \in [1 .. n -> Blocks], t \in [1 .. m -> Blocks] : Sound(f, n, s, m, t)
  OBVIOUS
<1>1. TypeOK /\ Row(first_block[f], n, s)
  BY DEF IInv, Sound
<1>2. Chain(f) = {s[i] : i \in 1 .. n} /\ Cardinality(Chain(f)) = n
  BY ONLY <1>1, f \in Files, n \in Nat, ChainIsRow
<1> QED BY <1>2

\* Whatever writes, truncates, refusals and unlinks came before, a file nobody
\* writes to has exactly the blocks its size calls for, and a free entry none.
THEOREM ChainMatchesSizeHolds == Spec => []ChainMatchesSize
<1>1. IInv /\ FilesSound => ChainMatchesSize
  <2> SUFFICES ASSUME IInv, FilesSound, NEW f \in Files, wlock[f] = NoClient
               PROVE  Cardinality(Chain(f)) = IF state[f] = "REGULAR"
                                              THEN NecessaryBlocks(file_size[f]) ELSE 0
    BY DEF ChainMatchesSize
  <2> PICK n \in Nat, m \in Nat :
        \E s \in [1 .. n -> Blocks], t \in [1 .. m -> Blocks] :
          /\ Sound(f, n, s, m, t)
          /\ Chain(f) = {s[i] : i \in 1 .. n} /\ Cardinality(Chain(f)) = n
    BY SoundFile
  <2> QED BY DEF Sound
<1> QED BY <1>1, ChainsAreSound, PTL

\* When nobody writes, every busy block is the volume's own or in the chain of
\* a file: neither a refused request nor an unlink loses a block for good.
THEOREM NoLeakHolds == Spec => []NoLeak
<1>1. IInv /\ FilesSound => NoLeak
  <2> SUFFICES ASSUME IInv, FilesSound, \A f \in Files : wlock[f] = NoClient
               PROVE  bitmap = Reserved \cup UNION {Chain(f) : f \in Files}
    BY DEF NoLeak
  <2>1. ASSUME NEW f \in Files, NEW b \in Blocks
        PROVE  owner[b] = f <=> b \in Chain(f)
    <3> PICK n \in Nat, m \in Nat :
          \E s \in [1 .. n -> Blocks], t \in [1 .. m -> Blocks] :
            /\ Sound(f, n, s, m, t)
            /\ Chain(f) = {s[i] : i \in 1 .. n} /\ Cardinality(Chain(f)) = n
      BY SoundFile
    <3> QED BY DEF Sound
  <2>2. ASSUME NEW f \in Files PROVE Chain(f) \subseteq Blocks
    <3> PICK n \in Nat, m \in Nat :
          \E s \in [1 .. n -> Blocks], t \in [1 .. m -> Blocks] :
            /\ Sound(f, n, s, m, t)
            /\ Chain(f) = {s[i] : i \in 1 .. n} /\ Cardinality(Chain(f)) = n
      BY SoundFile
    <3> QED OBVIOUS
  <2>3. /\ bitmap \subseteq Blocks /\ Reserved \subseteq bitmap
        /\ \A b \in Blocks : owner[b] # NoFile <=> b \in bitmap \ Reserved
        /\ \A b \in Blocks : owner[b] \in Files \cup {NoFile}
    BY DEF IInv, TypeOK, OwnersAgree
  <2>4. ASSUME NEW b \in bitmap, b \notin Reserved
        PROVE  \E f \in Files : b \in Chain(f)
    BY <2>1, <2>3, <2>4
  <2>5. ASSUME NEW f \in Files, NEW b \in Chain(f)
        PROVE  b \in bitmap
    <3>1. b \in Blocks /\ owner[b] = f
      BY <2>1, <2>2
    <3> QED BY <2>3, <3>1, BlocksFacts
  <2> QED BY <2>3, <2>4, <2>5
<1> QED BY <1>1, ChainsAreSound, PTL

\* A request that is answered "no space" has put back the size the file had and
\* has given back every block that size does not call for.
THEOREM RefusedIsUndoneHolds == Spec => []RefusedIsUndone
<1>1. IInv /\ FilesSound => RefusedIsUndone
  <2> SUFFICES ASSUME IInv, FilesSound, NEW c \in Clients, pc[c] = "enospc"
               PROVE  /\ file_size[req[c].file] = req[c].fsize
                      /\ Cardinality(Chain(req[c].file)) = NecessaryBlocks(req[c].fsize)
    BY DEF RefusedIsUndone
  <2> PICK f \in Files : f = req[c].file
    BY DEF IInv, TypeOK
  <2> PICK n \in Nat, m \in Nat :
        \E s \in [1 .. n -> Blocks], t \in [1 .. m -> Blocks] :
          /\ Sound(f, n, s, m, t)
          /\ Chain(f) = {s[i] : i \in 1 .. n} /\ Cardinality(Chain(f)) = n
    BY SoundFile
  <2>1. \E s, t : Works(c, n, s, m, t)
    BY DEF Sound
  <2> QED BY <2>1 DEF Works
<1> QED BY <1>1, ChainsAreSound, PTL

\* No seek, copy or rollback runs off its chain: the server follows the end of a
\* chain only where it is asked to read an empty file.
THEOREM OnlyEmptyReadIsWildHolds == Spec => []OnlyEmptyReadIsWild
<1>1. IInv /\ FilesSound => OnlyEmptyReadIsWild
  <2> SUFFICES ASSUME IInv, FilesSound, NEW c \in Clients, pc[c] = "wild"
               PROVE  req[c].op = "read" /\ req[c].fsize = 0
    BY DEF OnlyEmptyReadIsWild
  <2> PICK f \in Files : f = req[c].file
    BY DEF IInv, TypeOK
  <2>1. \E n, s, m, t : Works(c, n, s, m, t)
    BY DEF FilesSound, FileSound, Sound
  <2> QED BY <2>1 DEF Works
<1> QED BY <1>1, ChainsAreSound, PTL

\* A write or a read that is answered has moved all its bytes: the "break" of the
\* copy loop at the end of a chain is never taken with bytes left over.
THEOREM CopyIsCompleteHolds == Spec => []CopyIsComplete
<1>1. IInv /\ FilesSound => CopyIsComplete
  <2> SUFFICES ASSUME IInv, FilesSound, NEW c \in Clients, pc[c] = "ok",
                      req[c].op \in {"write", "read"}
               PROVE  left[c] = 0
    BY DEF CopyIsComplete
  <2> PICK f \in Files : f = req[c].file
    BY DEF IInv, TypeOK
  <2>1. \E n, s, m, t : Works(c, n, s, m, t)
    BY DEF FilesSound, FileSound, Sound
  <2> QED BY <2>1 DEF Works
<1> QED BY <1>1, ChainsAreSound, PTL

-----------------------------------------------------------------------------
(* What a client sees *)

\* Who has an entry for itself is at work on it, and an unlink only releases.
HoldersWork ==
  /\ \A f \in Files :
       wlock[f] # NoClient => /\ pc[wlock[f]] # "idle" /\ req[wlock[f]].file = f
                              /\ req[wlock[f]].op # "read"
  /\ \A c \in Clients :
       pc[c] # "idle" /\ req[c].op = "unlink" => pc[c] \in {"release_lock", "release", "ok"}

\* The size of f that StoreView shows.
View(f) ==
  LET writer == wlock[f] IN
  IF writer # NoClient /\ Growing(writer) THEN req[writer].fsize
  ELSE IF state[f] = "DELETED" \/ (writer # NoClient /\ Removing(writer)) THEN Absent
  ELSE file_size[f]

\* The blocks of all files fit the volume, the half done requests included.
Fits == Store!Used(StoreView) <= DataSize - Cardinality(Reserved)

LEMMA HoldersStart ==
  ASSUME TypeOK, HoldersWork, NEW c \in Clients, Start(c)
  PROVE  HoldersWork'
<1> PICK f \in Files :
      \/ CreateNode(c, f)
      \/ \E offset, size \in Sizes : Write(c, f, offset, size) \/ Read(c, f, offset, size)
      \/ \E new_size \in Sizes : Truncate(c, f, new_size)
      \/ Unlink(c, f)
  BY DEF Start
<1>1. /\ pc[c] = "idle"
      /\ \A d \in Clients \ {c} : pc'[d] = pc[d] /\ req'[d] = req[d]
  BY DEF CreateNode, Write, Read, Truncate, Unlink, Goto, Set, TypeOK
<1>2. \/ pc'[c] = "idle"
      \/ /\ pc'[c] # "idle"
         /\ req'[c].op = "unlink" => pc'[c] = "release_lock"
  BY DEF CreateNode, Write, Read, Truncate, Unlink, Goto, Set, Request, TypeOK
<1>3. \/ wlock' = wlock
      \/ /\ wlock' = [wlock EXCEPT ![f] = c]
         /\ pc'[c] # "idle" /\ req'[c].file = f /\ req'[c].op # "read"
  BY DEF CreateNode, Write, Read, Truncate, Unlink, Goto, Set, Request, WriteLock, ReadLock,
     locks, TypeOK
<1>4. ASSUME NEW g \in Files, wlock'[g] # NoClient
      PROVE  /\ pc'[wlock'[g]] # "idle" /\ req'[wlock'[g]].file = g
             /\ req'[wlock'[g]].op # "read"
  <2> PICK w \in Clients : w = wlock'[g]
    BY <1>3, <1>4 DEF TypeOK
  <2>1. CASE wlock'[g] = wlock[g]
    <3>1. pc[w] # "idle" /\ req[w].file = g /\ req[w].op # "read"
      BY <1>4, <2>1 DEF HoldersWork
    <3>2. w # c
      BY <1>1, <3>1
    <3> QED BY <1>1, <3>1, <3>2
  <2>2. CASE wlock'[g] # wlock[g]
    BY <1>3, <2>2 DEF TypeOK
  <2> QED BY <2>1, <2>2
<1>5. ASSUME NEW d \in Clients, pc'[d] # "idle", req'[d].op = "unlink"
      PROVE  pc'[d] \in {"release_lock", "release", "ok"}
  BY <1>1, <1>2, <1>5 DEF HoldersWork
<1> QED BY <1>4, <1>5 DEF HoldersWork

LEMMA HoldersReply ==
  ASSUME TypeOK, HoldersWork, NEW c \in Clients, Reply(c)
  PROVE  HoldersWork'
<1> PICK f \in Files : f = req[c].file
  BY DEF TypeOK, Reply
<1>1. /\ pc'[c] = "idle"
      /\ \A d \in Clients \ {c} : pc'[d] = pc[d] /\ req'[d] = req[d]
      /\ wlock' = [wlock EXCEPT ![f] = IF @ = c THEN NoClient ELSE @]
  BY DEF Reply, Unlock, Goto, Set, TypeOK
<1>2. ASSUME NEW g \in Files, wlock'[g] # NoClient
      PROVE  /\ pc'[wlock'[g]] # "idle" /\ req'[wlock'[g]].file = g
             /\ req'[wlock'[g]].op # "read"
  <2>1. wlock'[g] = wlock[g] /\ wlock[g] \in Clients
    BY <1>1, <1>2 DEF TypeOK
  <2> PICK w \in Clients : w = wlock[g]
    BY <2>1
  <2>2. pc[w] # "idle" /\ req[w].file = g /\ req[w].op # "read"
    BY <1>2, <2>1 DEF HoldersWork
  <2>3. w # c
    BY <1>1, <1>2, <2>1, <2>2 DEF TypeOK
  <2> QED BY <1>1, <2>1, <2>2, <2>3
<1>3. ASSUME NEW d \in Clients, pc'[d] # "idle", req'[d].op = "unlink"
      PROVE  pc'[d] \in {"release_lock", "release", "ok"}
  BY <1>1, <1>3 DEF HoldersWork
<1> QED BY <1>2, <1>3 DEF HoldersWork

\* A step in the middle of a request.
LEMMA HoldersGoOn ==
  ASSUME TypeOK, HoldersWork, NEW c \in Clients, UNCHANGED <<wlock, req>>,
         \A d \in Clients \ {c} : pc'[d] = pc[d],
         pc[c] # "idle", pc'[c] # "idle",
         req[c].op = "unlink" => pc'[c] \in {"release_lock", "release", "ok"}
  PROVE  HoldersWork'
<1>1. ASSUME NEW g \in Files, wlock[g] # NoClient
      PROVE  /\ pc'[wlock[g]] # "idle" /\ req[wlock[g]].file = g
             /\ req[wlock[g]].op # "read"
  <2> PICK w \in Clients : w = wlock[g]
    BY <1>1 DEF TypeOK
  <2>1. pc[w] # "idle" /\ req[w].file = g /\ req[w].op # "read"
    BY <1>1 DEF HoldersWork
  <2> QED BY <2>1
<1>2. ASSUME NEW d \in Clients, pc'[d] # "idle", req[d].op = "unlink"
      PROVE  pc'[d] \in {"release_lock", "release", "ok"}
  BY <1>2 DEF HoldersWork
<1> QED BY <1>1, <1>2 DEF HoldersWork

LEMMA HoldersContinue ==
  ASSUME TypeOK, HoldersWork, NEW c \in Clients, TakeLock(c) \/ Continue(c)
  PROVE  HoldersWork'
<1>1. req[c].op = "unlink" /\ pc[c] # "idle" => pc[c] \in {"release_lock", "release", "ok"}
  BY DEF HoldersWork
<1>2. CASE TakeLock(c)
  <2>1. /\ UNCHANGED <<wlock, req>> /\ \A d \in Clients \ {c} : pc'[d] = pc[d]
        /\ \/ pc[c] \in {"first_lock", "add_lock"} /\ pc'[c] \in {"first_test", "add_test"}
           \/ pc[c] = "release_lock" /\ pc'[c] = "release"
    BY <1>2 DEF TakeLock, FirstLock, AddLock, ReleaseLock, Acquire, Goto, locks, TypeOK
  <2> QED BY <1>1, <2>1, HoldersGoOn
<1>3. CASE \/ FirstTest(c) \/ FirstSet(c) \/ FirstNone(c) \/ Walk(c) \/ WalkEndWrite(c)
           \/ WalkEndTruncate(c)
  <2>1. /\ UNCHANGED <<wlock, req>> /\ \A d \in Clients \ {c} : pc'[d] = pc[d]
        /\ pc[c] \in {"first_test", "first_set", "walk"} /\ pc'[c] # "idle"
    BY <1>3 DEF FirstTest, TestBit, FirstSet, FirstNone, Walk, WalkEndWrite, WalkEndTruncate,
       Goto, locks, TypeOK
  <2> QED BY <1>1, <2>1, HoldersGoOn
<1>4. CASE AddTest(c) \/ AddSet(c) \/ AddDone(c) \/ AddNoSpace(c)
  <2>1. /\ UNCHANGED <<wlock, req>> /\ \A d \in Clients \ {c} : pc'[d] = pc[d]
        /\ pc[c] \in {"add_test", "add_set"} /\ pc'[c] # "idle"
    BY <1>4 DEF AddTest, TestBit, AddSet, AddDone, AddNoSpace, Goto, locks, TypeOK
  <2> QED BY <1>1, <2>1, HoldersGoOn
<1>5. CASE UndoSeek(c) \/ DataSeek(c) \/ CopyEnd(c)
  <2>1. /\ UNCHANGED <<wlock, req>> /\ \A d \in Clients \ {c} : pc'[d] = pc[d]
        /\ pc[c] \in {"undo_seek", "data_seek", "copy"} /\ pc'[c] # "idle"
    BY <1>5 DEF UndoSeek, DataSeek, CopyEnd, Follow, Goto, locks, TypeOK
  <2> QED BY <1>1, <2>1, HoldersGoOn
<1>6. CASE CopyBlock(c)
  <2>1. UNCHANGED <<wlock, req>> /\ pc[c] = "copy"
    BY <1>6 DEF CopyBlock, locks
  <2>2. \/ pc' = [pc EXCEPT ![c] = "wild"]
        \/ pc' = [pc EXCEPT ![c] = "ok"]
        \/ pc' = [pc EXCEPT ![c] = "copy"]
    BY <1>6 DEF CopyBlock, Goto
  <2>3. pc'[c] # "idle" /\ \A d \in Clients \ {c} : pc'[d] = pc[d]
    BY <2>2 DEF TypeOK
  <2> QED BY <1>1, <2>1, <2>3, HoldersGoOn
<1>7. CASE Release(c) \/ ReleaseEnd(c)
  <2>1. /\ UNCHANGED <<wlock, req>> /\ \A d \in Clients \ {c} : pc'[d] = pc[d]
        /\ pc[c] = "release" /\ pc'[c] \in {"release", "enospc", "ok"}
        /\ req[c].op = "unlink" => pc'[c] \in {"release", "ok"}
    BY <1>7 DEF Release, ReleaseEnd, Goto, locks, TypeOK
  <2> QED BY <1>1, <2>1, HoldersGoOn
<1>8. CASE Reply(c)
  BY <1>8, HoldersReply
<1> QED BY <1>2, <1>3, <1>4, <1>5, <1>6, <1>7, <1>8 DEF Continue

LEMMA HoldersAlwaysWork == Spec => []HoldersWork
<1>1. Init => HoldersWork
  BY BlocksFacts DEF Init, HoldersWork
<1>2. IInv /\ HoldersWork /\ [Next]_vars => HoldersWork'
  <2> SUFFICES ASSUME TypeOK, HoldersWork, [Next]_vars PROVE HoldersWork'
    BY DEF IInv
  <2>1. CASE Next
    BY <2>1, HoldersStart, HoldersContinue DEF Next
  <2>2. CASE UNCHANGED vars
    BY <2>2 DEF vars, locks, HoldersWork
  <2> QED BY <2>1, <2>2
<1> QED BY <1>1, <1>2, Inductive, PTL DEF Spec
-----------------------------------------------------------------------------
(* All files fit the volume *)

\* The store counts blocks with a formula of its own.
LEMMA BlocksOfIs ==
  /\ Store!BlocksOf(Absent) = 0
  /\ \A x \in Nat : Store!BlocksOf(x) = NecessaryBlocks(x)
<1>1. Store!BlocksOf(Absent) = 0
  BY DEF Store!BlocksOf, Absent
<1>2. ASSUME NEW x \in Nat PROVE Store!BlocksOf(x) = NecessaryBlocks(x)
  <2>1. CASE x = 0
    BY <2>1, NecessaryZero DEF Store!BlocksOf
  <2>2. CASE x > 0
    <3> PICK y \in Nat : y = x - 1
      BY <2>2
    <3> PICK q \in Nat : q = y \div BlockSize
      BY DivisionFacts
    <3>1. q * BlockSize <= y /\ y < q * BlockSize + BlockSize
      BY QuotientIsBetween
    <3>2. q * BlockSize \in Int /\ (q + 1) * BlockSize = q * BlockSize + BlockSize
      BY TimesBlockSize
    <3> PICK a \in Int, b \in Int : a = q * BlockSize /\ b = BlockSize
      BY <3>2, DataAssumption
    <3>6. a <= y /\ y < a + b
      BY <3>1, Zenon
    <3>7. x <= a + b /\ a < x
      BY ONLY <3>6, a \in Int, b \in Int, x \in Nat, y \in Nat, y = x - 1
    <3>3. x <= (q + 1) * BlockSize /\ q * BlockSize < x
      BY <3>2, <3>7, Zenon
    <3> PICK k \in Nat : k = q + 1 /\ k - 1 = q
      OBVIOUS
    <3>4. k = NecessaryBlocks(x)
      BY <3>3, NecessaryIs
    <3>5. Store!BlocksOf(x) = ((x - 1) \div BlockSize) + 1
      BY <2>2 DEF Store!BlocksOf
    <3> QED BY <3>4, <3>5
  <2> QED BY <2>1, <2>2
<1> QED BY <1>1, <1>2

\* Even in the middle of a request, a file has at least the blocks of the size
\* that clients see.
LEMMA ViewFits ==
  ASSUME IInv, HoldersWork, NEW f \in Files, NEW n \in Nat, NEW m \in Nat,
         NEW s \in [1 .. n -> Blocks], NEW t \in [1 .. m -> Blocks], Sound(f, n, s, m, t)
  PROVE  /\ View(f) \in Nat \cup {Absent}
         /\ Store!BlocksOf(View(f)) \in Nat /\ Store!BlocksOf(View(f)) <= n
<1>1. TypeOK
  BY DEF IInv
<1>2. file_size[f] \in Nat /\ state[f] \in {"DELETED", "REGULAR"}
  BY <1>1 DEF TypeOK
<1>3. SUFFICES \/ View(f) = Absent
               \/ \E x \in Nat : View(f) = x /\ NecessaryBlocks(x) <= n
  <2>1. CASE View(f) = Absent
    <3>1. Store!BlocksOf(View(f)) = 0
      BY <2>1, BlocksOfIs
    <3> QED BY <2>1, <3>1
  <2>2. ASSUME NEW x \in Nat, View(f) = x, NecessaryBlocks(x) <= n
        PROVE  /\ View(f) \in Nat \cup {Absent}
               /\ Store!BlocksOf(View(f)) \in Nat /\ Store!BlocksOf(View(f)) <= n
    <3>1. Store!BlocksOf(View(f)) = NecessaryBlocks(x) /\ NecessaryBlocks(x) \in Nat
      BY <2>2, BlocksOfIs, NecessaryFacts
    <3> QED BY <2>2, <3>1
  <2> QED BY <2>1, <2>2
<1>4. CASE wlock[f] = NoClient
  <2>1. View(f) = IF state[f] = "DELETED" THEN Absent ELSE file_size[f]
    BY <1>4 DEF View
  <2>2. n = IF state[f] = "REGULAR" THEN NecessaryBlocks(file_size[f]) ELSE 0
    BY <1>4 DEF Sound
  <2> QED BY <1>2, <2>1, <2>2
<1>5. CASE wlock[f] # NoClient
  <2> PICK w \in Clients : w = wlock[f]
    BY <1>1, <1>5 DEF TypeOK
  <2>1. pc[w] # "idle" /\ req[w].file = f /\ req[w].op # "read"
    BY <1>5 DEF HoldersWork
  <2>2. Works(w, n, s, m, t)
    BY <2>1 DEF Sound
  <2>3. View(f) = IF Growing(w) THEN req[w].fsize
                  ELSE IF state[f] = "DELETED" \/ Removing(w) THEN Absent ELSE file_size[f]
    BY <1>5 DEF View
  <2> PICK goal \in Nat, old \in Nat : goal = req[w].goal /\ old = req[w].fsize
    BY <1>1 DEF TypeOK, Requests
  <2>4. NecessaryBlocks(old) \in Nat /\ NecessaryBlocks(file_size[f]) \in Nat
    BY <1>2, NecessaryFacts
  <2>5. pc[w] \in Steps
    BY <1>1 DEF TypeOK
  <2>6. req[w].op # "unlink" => Kept(w) = NecessaryBlocks(file_size[f])
    BY <2>1 DEF Kept
  <2>7. CASE Growing(w)
    <3>1. /\ req[w].op \in {"write", "truncate"} /\ goal > old
          /\ pc[w] \in {"first_lock", "first_test", "first_set", "walk", "add_lock",
                        "add_test", "add_set", "undo_seek", "release_lock", "release"}
      BY <2>7 DEF Growing
    <3>2. NecessaryBlocks(old) <= n
      <4>1. CASE pc[w] \in {"first_lock", "first_test", "first_set"}
        BY <2>2, <2>4, <4>1, NecessaryZero DEF Works, Opens
      <4>2. CASE pc[w] = "walk"
        <5>1. n = NecessaryBlocks(old) \/ old = 0
          BY <2>2, <4>2 DEF Works, Walks
        <5> QED BY <5>1, NecessaryZero
      <4>3. CASE pc[w] \in {"add_lock", "add_test", "add_set"}
        BY <2>2, <2>4, <4>3 DEF Works, Adds
      <4>4. CASE pc[w] \in {"undo_seek", "release_lock", "release"}
        <5>1. Shrinks(w, n)
          BY <2>2, <4>4 DEF Works, Releases
        <5>2. Kept(w) <= n /\ file_size[f] = old
          BY <2>1, <3>1, <5>1 DEF Shrinks
        <5> QED BY <2>6, <3>1, <5>2
      <4> QED BY <3>1, <4>1, <4>2, <4>3, <4>4
    <3> QED BY <2>3, <2>7, <3>2
  <2>8. CASE ~ Growing(w) /\ ~ (state[f] = "DELETED" \/ Removing(w))
    <3>1. /\ View(f) = file_size[f] /\ req[w].op # "unlink"
      BY <2>3, <2>8 DEF Removing
    <3>2. NecessaryBlocks(file_size[f]) <= n
      <4>1. CASE pc[w] \in {"first_lock", "first_test", "first_set"}
        BY <2>2, <2>8, <4>1 DEF Works, Opens, Growing
      <4>2. CASE pc[w] = "walk"
        <5>1. /\ req[w].op = "truncate" /\ goal <= old /\ file_size[f] = goal
              /\ n = NecessaryBlocks(old)
          BY <2>1, <2>2, <2>8, <4>2 DEF Works, Walks, Growing
        <5> QED BY <5>1, NecessaryMonotone
      <4>3. CASE pc[w] \in {"add_lock", "add_test", "add_set"}
        BY <2>2, <2>8, <4>3 DEF Works, Adds, Growing
      <4>4. CASE pc[w] \in {"undo_seek", "release_lock", "release"}
        <5>1. Shrinks(w, n)
          BY <2>2, <4>4 DEF Works, Releases
        <5>2. Kept(w) <= n
          BY <5>1 DEF Shrinks
        <5> QED BY <2>6, <3>1, <5>2
      <4>5. CASE pc[w] \in {"data_seek", "copy"}
        BY <2>1, <2>2, <2>4, <4>5 DEF Works, Moves
      <4>6. CASE pc[w] = "ok"
        BY <2>2, <2>4, <2>6, <3>1, <4>6 DEF Works
      <4>7. CASE pc[w] = "enospc"
        BY <2>1, <2>2, <2>4, <4>7 DEF Works
      <4>8. pc[w] # "wild"
        BY <2>1, <2>2 DEF Works
      <4> QED BY <2>1, <2>5, <4>1, <4>2, <4>3, <4>4, <4>5, <4>6, <4>7, <4>8 DEF Steps, Critical
    <3> QED BY <1>2, <3>1, <3>2
  <2>9. CASE ~ Growing(w) /\ (state[f] = "DELETED" \/ Removing(w))
    BY <2>3, <2>9
  <2> QED BY <2>7, <2>8, <2>9
<1> QED BY <1>4, <1>5

\* The store counts with a copy of Cardinality of its own.
LEMMA StoreCounts == \A S : Store!Cardinality(S) = Cardinality(S)
BY DEF Store!Cardinality, Cardinality

\* Each block of each file has a place of its own among those not reserved.
LEMMA FilesFit ==
  ASSUME IInv, FilesSound, HoldersWork
  PROVE  Fits
<1> DEFINE K(f) == Store!BlocksOf(View(f))
           Rows(f) == {s \in [1 .. K(f) -> Blocks] :
                         /\ \A i, j \in 1 .. K(f) : s[i] = s[j] => i = j
                         /\ \A i \in 1 .. K(f) : owner[s[i]] = f}
           RowOf(f) == CHOOSE s \in Rows(f) : TRUE
           P == UNION {{f} \X (1 .. K(f)) : f \in Files}
           seat == [p \in P |-> RowOf(p[1])[p[2]]]
           free == Blocks \ Reserved
<1>1. ASSUME NEW f \in Files PROVE Rows(f) # {}
  <2> PICK n \in Nat, m \in Nat :
        \E s \in [1 .. n -> Blocks], t \in [1 .. m -> Blocks] : Sound(f, n, s, m, t)
    BY DEF FilesSound, FileSound
  <2> PICK s \in [1 .. n -> Blocks], t \in [1 .. m -> Blocks] : Sound(f, n, s, m, t)
    OBVIOUS
  <2>1. K(f) \in Nat /\ K(f) <= n
    BY ViewFits
  <2> PICK k \in Nat : k = K(f)
    BY <2>1
  <2>2. \A i \in 1 .. k : i \in 1 .. n
    BY <2>1
  <2>3. /\ \A i, j \in 1 .. n : s[i] = s[j] => i = j
        /\ \A i \in 1 .. n : owner[s[i]] = f
    BY DEF Sound, Row
  <2> PICK r : r = [i \in 1 .. k |-> s[i]]
    OBVIOUS
  <2>4. /\ r \in [1 .. k -> Blocks] /\ \A i \in 1 .. k : r[i] = s[i]
    BY <2>2
  <2>5. /\ \A i, j \in 1 .. k : r[i] = r[j] => i = j
        /\ \A i \in 1 .. k : owner[r[i]] = f
    BY <2>2, <2>3, <2>4
  <2> HIDE DEF K
  <2>6. r \in Rows(f)
    BY <2>4, <2>5
  <2> QED BY <2>6
<1> HIDE DEF K
<1>2. \A f \in Files : RowOf(f) \in Rows(f)
  BY <1>1
<1>3. \A f \in Files : /\ RowOf(f) \in [1 .. K(f) -> Blocks]
                       /\ \A i, j \in 1 .. K(f) : RowOf(f)[i] = RowOf(f)[j] => i = j
                       /\ \A i \in 1 .. K(f) : owner[RowOf(f)[i]] = f
  BY <1>2
<1> HIDE DEF Rows, RowOf
<1>4. ASSUME NEW p \in P
      PROVE  p[1] \in Files /\ p[2] \in 1 .. K(p[1]) /\ p = <<p[1], p[2]>>
  OBVIOUS
<1>5. \A p \in P : seat[p] = RowOf(p[1])[p[2]]
  OBVIOUS
<1>6. seat = [p \in P |-> seat[p]]
  OBVIOUS
<1> HIDE DEF P, seat
<1>7. ASSUME NEW p \in P PROVE seat[p] \in Blocks /\ owner[seat[p]] = p[1]
  <2> PICK f \in Files : f = p[1]
    BY <1>4
  <2> PICK i \in 1 .. K(f), s \in [1 .. K(f) -> Blocks] : i = p[2] /\ s = RowOf(f)
    BY <1>3, <1>4
  <2>1. owner[s[i]] = f
    BY <1>3
  <2>2. seat[p] = s[i]
    BY <1>5
  <2> QED BY <2>1, <2>2
<1>8. ASSUME NEW p \in P, NEW q \in P, seat[p] = seat[q]
      PROVE  p = q
  <2>1. p[1] = q[1]
    BY <1>7, <1>8
  <2> PICK f \in Files : f = p[1]
    BY <1>4
  <2>2. RowOf(f)[p[2]] = RowOf(f)[q[2]]
    BY <1>5, <1>8, <2>1
  <2>3. p[2] \in 1 .. K(f) /\ q[2] \in 1 .. K(f)
    BY <1>4, <2>1
  <2>4. p[2] = q[2]
    BY <1>3, <2>2, <2>3
  <2> QED BY <1>4, <2>1, <2>4
<1>9. \A p \in P : seat[p] \in free
  <2>1. ASSUME NEW p \in P PROVE seat[p] \in free
    <3>1. seat[p] \in Blocks /\ owner[seat[p]] # NoFile
      BY <1>4, <1>7, BlocksFacts
    <3> QED BY <3>1 DEF IInv, OwnersAgree
  <2> QED BY <2>1
<1>10. IsFiniteSet(Blocks) /\ Cardinality(Blocks) = DataSize
  <2>1. IsFiniteSet(0 .. DataSize - 1) /\ Cardinality(0 .. DataSize - 1) = DataSize
    BY DataAssumption, FS_Interval
  <2> QED BY <2>1 DEF Blocks
<1>11. IsFiniteSet(free) /\ Cardinality(free) = DataSize - Cardinality(Reserved)
  <2>1. Blocks \cap Reserved = Reserved
    BY DataAssumption
  <2> QED BY <1>10, <2>1, FS_Difference
<1> HIDE DEF free
<1>12. seat \in Injection(P, free)
  <2>1. seat \in [P -> free]
    BY <1>6, <1>9
  <2> QED BY <1>8, <2>1 DEF Injection, IsInjective
<1>13. Cardinality(P) <= DataSize - Cardinality(Reserved)
  BY <1>11, <1>12, FS_Injection
<1>14. Store!Used(StoreView) = Cardinality(P)
  <2>1. \A f \in Files : StoreView[f] = View(f)
    BY DEF StoreView, View
  <2>2. UNION {{f} \X (1 .. Store!BlocksOf(StoreView[f])) : f \in Files} = P
    BY <2>1 DEF K, P
  <2>3. Store!Used(StoreView) = Store!Cardinality(P)
    BY <2>2 DEF Store!Used
  <2> QED BY <2>3, StoreCounts
<1> QED BY <1>13, <1>14 DEF Fits

-----------------------------------------------------------------------------
(* Every step is a step of the store, or none *)

\* A thread in the middle of a request that does not change how far along it is
\* for its client.
LEMMA QuietStep ==
  ASSUME TypeOK, NEW c \in Clients, UNCHANGED <<wlock, state, file_size, req>>,
         \A d \in Clients \ {c} : pc'[d] = pc[d], Growing(c)' <=> Growing(c)
  PROVE  StoreView' = StoreView
<1>1. ASSUME NEW f \in Files PROVE View(f)' = View(f)
  <2>1. CASE wlock[f] = NoClient
    BY <2>1 DEF View
  <2>2. CASE wlock[f] # NoClient
    <3> PICK w \in Clients : w = wlock[f]
      BY <2>2 DEF TypeOK
    <3>1. Growing(w)' <=> Growing(w)
      <4>1. CASE w # c
        BY <4>1 DEF Growing
      <4>2. CASE w = c
        BY <4>2
      <4> QED BY <4>1, <4>2
    <3>2. Removing(w)' <=> Removing(w)
      BY DEF Removing
    <3> QED BY <2>2, <3>1, <3>2 DEF View
  <2> QED BY <2>1, <2>2
<1>2. StoreView' = [f \in Files |-> View(f)'] /\ StoreView = [f \in Files |-> View(f)]
  BY DEF StoreView, View
<1> QED BY <1>1, <1>2

\* The step of one thread c, on one file f.
OnFile(c, f) ==
  /\ \A d \in Clients \ {c} : pc'[d] = pc[d] /\ req'[d] = req[d]
  /\ \A g \in Files \ {f} : /\ wlock'[g] = wlock[g] /\ state'[g] = state[g]
                            /\ file_size'[g] = file_size[g]
  /\ pc[c] # "idle" => req[c].file = f

LEMMA ViewElsewhere ==
  ASSUME TypeOK, HoldersWork, NEW c \in Clients, NEW f \in Files, OnFile(c, f)
  PROVE  /\ \A g \in Files \ {f} : StoreView'[g] = StoreView[g]
         /\ StoreView[f] = View(f) /\ StoreView'[f] = View(f)'
<1>1. ASSUME NEW g \in Files \ {f} PROVE View(g)' = View(g)
  <2>0. wlock'[g] = wlock[g] /\ state'[g] = state[g] /\ file_size'[g] = file_size[g]
    BY DEF OnFile
  <2>1. CASE wlock[g] = NoClient
    BY <2>0, <2>1 DEF View
  <2>2. CASE wlock[g] # NoClient
    <3> PICK w \in Clients : w = wlock[g]
      BY <2>2 DEF TypeOK
    <3>1. pc[w] # "idle" /\ req[w].file = g
      BY <2>2 DEF HoldersWork
    <3>2. w # c
      BY <3>1 DEF OnFile
    <3>3. pc'[w] = pc[w] /\ req'[w] = req[w]
      BY <3>2 DEF OnFile
    <3>4. (Growing(w)' <=> Growing(w)) /\ (Removing(w)' <=> Removing(w))
      BY <3>3 DEF Growing, Removing
    <3> QED BY <2>0, <2>2, <3>3, <3>4 DEF View
  <2> QED BY <2>1, <2>2
<1>2. /\ \A g \in Files : StoreView'[g] = View(g)'
      /\ \A g \in Files : StoreView[g] = View(g)
  BY DEF StoreView, View
<1> QED BY <1>1, <1>2

LEMMA Stutters ==
  ASSUME TypeOK, HoldersWork, NEW c \in Clients, NEW f \in Files, OnFile(c, f),
         View(f)' = View(f)
  PROVE  StoreView' = StoreView
<1>1. \A g \in Files : StoreView'[g] = StoreView[g]
  BY ViewElsewhere
<1>2. StoreView' = [g \in Files |-> StoreView'[g]] /\ StoreView = [g \in Files |-> StoreView[g]]
  BY DEF StoreView
<1> QED BY <1>1, <1>2

LEMMA Resizes ==
  ASSUME TypeOK, HoldersWork, Fits', NEW c \in Clients, NEW f \in Files, OnFile(c, f),
         View(f) # Absent, View(f)' \in Nat
  PROVE  Store!Next
<1>1. Store!Resize(f)
  BY ViewElsewhere DEF Store!Resize, Store!Absent, Absent, Fits
<1> QED BY <1>1 DEF Store!Next

\* What a thread in the middle of a request that changes its file knows of it.
LEMMA Holder ==
  ASSUME IInv, FilesSound, NEW c \in Clients, pc[c] # "idle", req[c].op # "read"
  PROVE  /\ req[c].file \in Files /\ wlock[req[c].file] = c /\ c # NoClient
         /\ state[req[c].file] = IF req[c].op = "unlink" /\ pc[c] = "ok"
                                 THEN "DELETED" ELSE "REGULAR"
         /\ \E n, s, m, t : Works(c, n, s, m, t)
<1>1. req[c].file \in Files
  BY DEF IInv, TypeOK
<1>2. wlock[req[c].file] = c /\ c # NoClient
  BY NoClientAssumption DEF IInv, EntryHeld
<1> PICK n, s, m, t : Works(c, n, s, m, t)
  BY <1>1 DEF FilesSound, FileSound, Sound
<1> QED BY <1>1, <1>2 DEF Works

\* The view of the file such a thread is at work on.
LEMMA HolderView ==
  ASSUME TypeOK, NEW c \in Clients, NEW f \in Files, wlock[f] = c, req[c].op # "unlink",
         state[f] = "REGULAR"
  PROVE  View(f) = IF Growing(c) THEN req[c].fsize ELSE file_size[f]
BY NoClientAssumption DEF View, Removing

LEMMA TakeLockViews ==
  ASSUME TypeOK, NEW c \in Clients, TakeLock(c)
  PROVE  StoreView' = StoreView
<1>1. /\ UNCHANGED <<wlock, state, file_size, req>>
      /\ \A d \in Clients \ {c} : pc'[d] = pc[d]
  BY DEF TakeLock, FirstLock, AddLock, ReleaseLock, Acquire, Goto, locks, entries, TypeOK
<1>2. \/ pc[c] = "first_lock" /\ pc'[c] = "first_test"
      \/ pc[c] = "add_lock" /\ pc'[c] = "add_test"
      \/ pc[c] = "release_lock" /\ pc'[c] = "release"
  BY DEF TakeLock, FirstLock, AddLock, ReleaseLock, Acquire, Goto, TypeOK
<1>3. Growing(c)' <=> Growing(c)
  BY <1>1, <1>2 DEF Growing
<1> QED BY <1>1, <1>3, QuietStep

\* Walking, searching and appending.
LEMMA ChainStepViews ==
  ASSUME TypeOK, NEW c \in Clients,
         \/ FirstTest(c) \/ FirstSet(c) \/ Walk(c) \/ WalkEndWrite(c)
         \/ AddTest(c) \/ AddSet(c) \/ Release(c)
  PROVE  StoreView' = StoreView
<1>1. CASE FirstTest(c) \/ AddTest(c)
  <2>1. /\ UNCHANGED <<wlock, state, file_size, req>>
        /\ \A d \in Clients \ {c} : pc'[d] = pc[d]
        /\ \/ pc[c] = "first_test" /\ pc'[c] \in {"first_test", "first_set"}
           \/ pc[c] = "add_test" /\ pc'[c] \in {"add_test", "add_set"}
    BY <1>1 DEF FirstTest, AddTest, TestBit, Goto, locks, entries, TypeOK
  <2>2. Growing(c)' <=> Growing(c)
    BY <2>1 DEF Growing
  <2> QED BY <2>1, <2>2, QuietStep
<1>2. CASE FirstSet(c) \/ WalkEndWrite(c) \/ AddSet(c)
  <2>1. /\ UNCHANGED <<wlock, state, file_size, req>>
        /\ \A d \in Clients \ {c} : pc'[d] = pc[d]
        /\ \/ pc[c] = "first_set" /\ pc'[c] = "walk"
           \/ pc[c] = "walk" /\ pc'[c] = "add_lock"
           \/ pc[c] = "add_set" /\ pc'[c] = "add_test"
    BY <1>2 DEF FirstSet, WalkEndWrite, AddSet, Goto, locks, entries, TypeOK
  <2>2. Growing(c)' <=> Growing(c)
    BY <2>1 DEF Growing
  <2> QED BY <2>1, <2>2, QuietStep
<1>3. CASE Walk(c) \/ Release(c)
  <2>1. UNCHANGED <<wlock, state, file_size, req, pc>>
    BY <1>3 DEF Walk, Release, locks, entries
  <2>2. Growing(c)' <=> Growing(c)
    BY <2>1 DEF Growing
  <2> QED BY <2>1, <2>2, QuietStep
<1> QED BY <1>1, <1>2, <1>3

\* Seeking and copying; the rollback never runs off the chain.
LEMMA SeekViews ==
  ASSUME TypeOK, HoldersWork, OnlyEmptyReadIsWild', NEW c \in Clients,
         UndoSeek(c) \/ DataSeek(c) \/ CopyBlock(c) \/ CopyEnd(c), EntryHeld
  PROVE  StoreView' = StoreView
<1>1. CASE UndoSeek(c)
  <2>1. /\ UNCHANGED <<wlock, state, file_size, req>>
        /\ \A d \in Clients \ {c} : pc'[d] = pc[d]
        /\ pc[c] = "undo_seek" /\ pc'[c] \in {"undo_seek", "release_lock", "wild"}
    BY <1>1 DEF UndoSeek, Follow, Goto, locks, entries, TypeOK
  <2>2. pc'[c] # "wild"
    BY <2>1 DEF OnlyEmptyReadIsWild, EntryHeld
  <2>3. Growing(c)' <=> Growing(c)
    BY <2>1, <2>2 DEF Growing
  <2> QED BY <2>1, <2>3, QuietStep
<1>2. CASE DataSeek(c) \/ CopyBlock(c) \/ CopyEnd(c)
  <2>1. /\ UNCHANGED <<wlock, state, file_size, req>>
        /\ pc[c] \in {"data_seek", "copy"}
    BY <1>2 DEF DataSeek, CopyBlock, CopyEnd, locks, entries
  <2>2. \/ pc' = [pc EXCEPT ![c] = "data_seek"] \/ pc' = [pc EXCEPT ![c] = "copy"]
        \/ pc' = [pc EXCEPT ![c] = "ok"] \/ pc' = [pc EXCEPT ![c] = "wild"]
    BY <1>2 DEF DataSeek, Follow, CopyBlock, CopyEnd, Goto
  <2>3. /\ pc'[c] \in {"data_seek", "copy", "ok", "wild"}
        /\ \A d \in Clients \ {c} : pc'[d] = pc[d]
    BY <2>2 DEF TypeOK
  <2>4. Growing(c)' <=> Growing(c)
    BY <2>1, <2>3 DEF Growing
  <2> QED BY <2>1, <2>3, <2>4, QuietStep
<1> QED BY <1>1, <1>2

\* No room for the first block: for its client the file never grew.
LEMMA FirstNoneViews ==
  ASSUME IInv, IInv', FilesSound, HoldersWork, NEW c \in Clients, FirstNone(c)
  PROVE  StoreView' = StoreView
<1>1. TypeOK /\ TypeOK'
  BY DEF IInv
<1>2. pc[c] = "first_test" /\ req[c].op # "read"
  BY DEF FirstNone, IInv, EntryHeld
<1> PICK f \in Files : f = req[c].file
  BY <1>2, Holder
<1>3. /\ wlock[f] = c /\ state[f] = "REGULAR"
      /\ req[c].op = "write" /\ req[c].fsize = 0 /\ req[c].goal > 0
  BY <1>2, Holder DEF Works, Opens
<1>4. /\ OnFile(c, f) /\ pc'[c] = "enospc" /\ UNCHANGED <<wlock, state, req>>
      /\ file_size'[f] = req[c].fsize
  BY <1>1, <1>2 DEF FirstNone, Goto, locks, OnFile, TypeOK
<1>5. Growing(c) /\ ~ Growing(c)'
  BY <1>2, <1>3, <1>4 DEF Growing
<1>6. View(f) = req[c].fsize
  BY <1>1, <1>3, <1>5, HolderView
<1>7. View(f)' = file_size'[f]
  BY <1>1, <1>3, <1>4, <1>5, NoClientAssumption DEF View, Removing
<1> QED BY <1>1, <1>4, <1>6, <1>7, Stutters

\* No room for more: the request is on its way back, and nothing is seen of it.
LEMMA AddNoSpaceViews ==
  ASSUME IInv, FilesSound, HoldersWork, NEW c \in Clients, AddNoSpace(c)
  PROVE  StoreView' = StoreView
<1>1. TypeOK
  BY DEF IInv
<1>2. pc[c] = "add_test" /\ req[c].op # "read"
  BY DEF AddNoSpace, IInv, EntryHeld
<1> PICK f \in Files : f = req[c].file
  BY <1>2, Holder
<1>3. /\ wlock[f] = c /\ state[f] = "REGULAR"
      /\ req[c].op \in {"write", "truncate"} /\ req[c].goal > req[c].fsize
  BY <1>2, Holder DEF Works, Adds
<1>4. OnFile(c, f) /\ pc'[c] = "undo_seek" /\ UNCHANGED <<wlock, state, req>>
  BY <1>1, <1>2 DEF AddNoSpace, Goto, locks, OnFile, TypeOK
<1>5. Growing(c) /\ Growing(c)'
  BY <1>2, <1>3, <1>4 DEF Growing
<1>6. View(f)' = View(f)
  BY <1>1, <1>3, <1>4, <1>5, NoClientAssumption DEF View
<1> QED BY <1>1, <1>4, <1>6, Stutters

\* A request that has found its room takes effect.
LEMMA AddDoneViews ==
  ASSUME IInv, FilesSound, HoldersWork, Fits', NEW c \in Clients, AddDone(c)
  PROVE  Store!Next
<1>1. TypeOK
  BY DEF IInv
<1>2. pc[c] = "add_test" /\ req[c].op # "read"
  BY DEF AddDone, IInv, EntryHeld
<1> PICK f \in Files : f = req[c].file
  BY <1>2, Holder
<1>3. /\ wlock[f] = c /\ state[f] = "REGULAR"
      /\ req[c].op \in {"write", "truncate"} /\ req[c].goal > req[c].fsize
  BY <1>2, Holder DEF Works, Adds
<1>4. /\ OnFile(c, f) /\ pc'[c] \in {"data_seek", "ok"}
      /\ UNCHANGED <<wlock, state, file_size, req>>
  BY <1>1, <1>2 DEF AddDone, Goto, locks, entries, OnFile, TypeOK
<1>5. Growing(c) /\ ~ Growing(c)'
  BY <1>2, <1>3, <1>4 DEF Growing
<1>6. View(f) = req[c].fsize
  BY <1>1, <1>3, <1>5, HolderView
<1>7. View(f)' = file_size[f]
  BY <1>1, <1>3, <1>4, <1>5, NoClientAssumption DEF View, Removing
<1>8. View(f) # Absent /\ View(f)' \in Nat
  BY <1>1, <1>6, <1>7 DEF TypeOK, Requests, Absent
<1> QED BY <1>1, <1>4, <1>8, Resizes

\* A truncate at the end of the walk: if the blocks suffice, it is done.
LEMMA WalkEndTruncateViews ==
  ASSUME IInv, FilesSound, HoldersWork, Fits', NEW c \in Clients, WalkEndTruncate(c)
  PROVE  Store!Next \/ StoreView' = StoreView
<1>1. TypeOK
  BY DEF IInv
<1>2. pc[c] = "walk" /\ req[c].op = "truncate"
  BY DEF WalkEndTruncate
<1> PICK f \in Files : f = req[c].file
  BY <1>2, Holder
<1>3. wlock[f] = c /\ state[f] = "REGULAR"
  BY <1>2, Holder
<1>4. /\ OnFile(c, f) /\ pc'[c] \in {"add_lock", "undo_seek", "ok"}
      /\ UNCHANGED <<wlock, state, file_size, req>>
  BY <1>1, <1>2 DEF WalkEndTruncate, Goto, locks, entries, OnFile, TypeOK
<1>5. CASE Growing(c)' <=> Growing(c)
  BY <1>1, <1>4, <1>5, QuietStep DEF OnFile
<1>6. CASE Growing(c) /\ ~ Growing(c)'
  <2>1. View(f) = req[c].fsize
    BY <1>1, <1>2, <1>3, <1>6, HolderView
  <2>2. View(f)' = file_size[f]
    BY <1>1, <1>2, <1>3, <1>4, <1>6, NoClientAssumption DEF View, Removing
  <2>3. View(f) # Absent /\ View(f)' \in Nat
    BY <1>1, <2>1, <2>2 DEF TypeOK, Requests, Absent
  <2> QED BY <1>1, <1>4, <2>3, Resizes
<1>7. Growing(c)' => Growing(c)
  BY <1>2, <1>4 DEF Growing
<1> QED BY <1>5, <1>6, <1>7

\* The end of giving back: whoever could not grow shows the size it never
\* changed, and an unlinked file is gone as it was for the client before.
LEMMA ReleaseEndViews ==
  ASSUME IInv, FilesSound, HoldersWork, NEW c \in Clients, ReleaseEnd(c)
  PROVE  StoreView' = StoreView
<1>1. TypeOK
  BY DEF IInv
<1>2. pc[c] = "release" /\ req[c].op # "read"
  BY DEF ReleaseEnd, IInv, EntryHeld
<1> PICK f \in Files : f = req[c].file
  BY <1>2, Holder
<1>3. wlock[f] = c /\ c # NoClient /\ state[f] = "REGULAR"
  BY <1>2, Holder
<1> PICK n, s, m, t : Works(c, n, s, m, t)
  BY <1>2, Holder
<1>4. Shrinks(c, n)
  BY <1>2 DEF Works, Releases
<1>5. /\ OnFile(c, f) /\ pc'[c] \in {"enospc", "ok"} /\ UNCHANGED <<wlock, file_size, req>>
      /\ state'[f] = IF req[c].op = "unlink" THEN "DELETED" ELSE "REGULAR"
  BY <1>1, <1>2, <1>3 DEF ReleaseEnd, Goto, locks, OnFile, TypeOK
<1>6. ~ Growing(c)'
  BY <1>5 DEF Growing
<1>7. CASE req[c].op = "unlink"
  <2>1. View(f) = Absent
    BY <1>3, <1>7 DEF View, Growing, Removing
  <2>2. View(f)' = Absent
    BY <1>3, <1>5, <1>6, <1>7 DEF View, Removing
  <2> QED BY <1>1, <1>5, <2>1, <2>2, Stutters
<1>8. CASE req[c].op # "unlink"
  <2>1. View(f) = IF Growing(c) THEN req[c].fsize ELSE file_size[f]
    BY <1>1, <1>3, <1>8, HolderView
  <2>2. Growing(c) => file_size[f] = req[c].fsize
    BY <1>4 DEF Growing, Shrinks
  <2>3. View(f)' = file_size[f]
    BY <1>3, <1>5, <1>6, <1>8 DEF View, Removing
  <2>4. View(f)' = View(f)
    BY <2>1, <2>2, <2>3
  <2> QED BY <1>1, <1>5, <2>4, Stutters
<1> QED BY <1>7, <1>8

\* An answer shows nothing new.
LEMMA ReplyViews ==
  ASSUME IInv, FilesSound, HoldersWork, NEW c \in Clients, Reply(c)
  PROVE  StoreView' = StoreView
<1>1. TypeOK
  BY DEF IInv
<1>2. pc[c] \in {"ok", "enospc"} /\ pc[c] # "idle"
  BY DEF Reply
<1> PICK f \in Files : f = req[c].file
  BY <1>1, <1>2 DEF TypeOK
<1>3. /\ OnFile(c, f) /\ UNCHANGED <<state, file_size>>
      /\ wlock'[f] = IF wlock[f] = c THEN NoClient ELSE wlock[f]
  BY <1>1, <1>2 DEF Reply, Unlock, Goto, Set, entries, OnFile, TypeOK
<1>4. CASE req[c].op = "read"
  <2>1. wlock[f] = NoClient /\ wlock'[f] = NoClient
    BY <1>1, <1>2, <1>3, <1>4, NoClientAssumption DEF IInv, EntryHeld, TypeOK
  <2>2. View(f)' = View(f)
    BY <1>3, <2>1 DEF View
  <2> QED BY <1>1, <1>3, <2>2, Stutters
<1>5. CASE req[c].op # "read"
  <2>1. /\ wlock[f] = c /\ c # NoClient /\ wlock'[f] = NoClient
        /\ state[f] = IF req[c].op = "unlink" /\ pc[c] = "ok" THEN "DELETED" ELSE "REGULAR"
    BY <1>2, <1>3, <1>5, Holder
  <2>2. req[c].op = "unlink" => pc[c] = "ok"
    BY <1>2 DEF HoldersWork
  <2>3. View(f) = IF state[f] = "DELETED" THEN Absent ELSE file_size[f]
    BY <1>2, <2>1, <2>2 DEF View, Growing, Removing
  <2>4. View(f)' = IF state[f] = "DELETED" THEN Absent ELSE file_size[f]
    BY <1>3, <2>1 DEF View
  <2>5. View(f)' = View(f)
    BY <2>3, <2>4
  <2> QED BY <1>1, <1>3, <2>5, Stutters
<1> QED BY <1>4, <1>5

\* A request comes in for a file nobody writes to.
LEMMA StartViews ==
  ASSUME IInv, HoldersWork, Fits', NEW c \in Clients, Start(c)
  PROVE  Store!Next \/ StoreView' = StoreView
<1>1. TypeOK
  BY DEF IInv
<1> PICK f \in Files :
      \/ CreateNode(c, f)
      \/ \E offset, size \in Sizes : Write(c, f, offset, size) \/ Read(c, f, offset, size)
      \/ \E new_size \in Sizes : Truncate(c, f, new_size)
      \/ Unlink(c, f)
  BY DEF Start
<1>2. /\ pc[c] = "idle" /\ wlock[f] = NoClient /\ c # NoClient
      /\ file_size[f] \in Nat /\ file_size[f] # Absent
  BY <1>1, NoClientAssumption
     DEF CreateNode, Write, Read, Truncate, Unlink, WriteLock, ReadLock, TypeOK, Absent
<1>3. View(f) = IF state[f] = "DELETED" THEN Absent ELSE file_size[f]
  BY <1>2 DEF View
<1>4. CASE CreateNode(c, f)
  <2>1. /\ OnFile(c, f) /\ wlock'[f] = NoClient
        /\ state[f] = "DELETED" /\ state'[f] = "REGULAR" /\ file_size'[f] = 0
    BY <1>1, <1>4 DEF CreateNode, locks, OnFile, TypeOK
  <2>2. View(f) = Absent /\ View(f)' = 0
    BY <1>3, <2>1 DEF View
  <2>3. /\ StoreView[f] = Absent /\ StoreView'[f] = 0
        /\ \A g \in Files \ {f} : StoreView'[g] = StoreView[g]
    BY <1>1, <2>1, <2>2, ViewElsewhere
  <2>4. StoreView' = [g \in Files |-> StoreView'[g]] /\ DOMAIN StoreView = Files
    BY DEF StoreView
  <2>5. StoreView' = [StoreView EXCEPT ![f] = 0]
    BY <2>3, <2>4
  <2> QED BY <2>3, <2>5 DEF Store!Next, Store!Create, Store!Absent, Absent
<1>5. ASSUME NEW offset \in Sizes, NEW size \in Sizes, Write(c, f, offset, size)
      PROVE  StoreView' = StoreView
  <2>1. /\ OnFile(c, f) /\ wlock'[f] = c /\ state[f] = "REGULAR" /\ state' = state
        /\ req'[c] = Request("write", f, offset + size)
        /\ IF offset + size > file_size[f] THEN pc'[c] \in {"first_lock", "walk"}
           ELSE pc'[c] = "data_seek" /\ file_size' = file_size
    BY <1>1, <1>5 DEF Write, WriteLock, Goto, Set, OnFile, TypeOK
  <2>2. req'[c].op = "write" /\ req'[c].goal = offset + size /\ req'[c].fsize = file_size[f]
    BY <2>1 DEF Request
  <2>3. View(f) = file_size[f]
    BY <1>3, <2>1
  <2>4. CASE offset + size > file_size[f]
    <3>1. Growing(c)'
      BY <2>1, <2>2, <2>4 DEF Growing
    <3>2. View(f)' = req'[c].fsize
      BY <1>2, <2>1, <3>1 DEF View
    <3> QED BY <1>1, <2>1, <2>2, <2>3, <3>2, Stutters
  <2>5. CASE ~ (offset + size > file_size[f])
    <3>1. ~ Growing(c)' /\ ~ Removing(c)'
      BY <2>1, <2>2, <2>5 DEF Growing, Removing
    <3>2. View(f)' = file_size[f]
      BY <1>2, <2>1, <2>5, <3>1 DEF View
    <3> QED BY <1>1, <2>1, <2>3, <3>2, Stutters
  <2> QED BY <2>4, <2>5
<1>6. ASSUME NEW offset \in Sizes, NEW size \in Sizes, Read(c, f, offset, size)
      PROVE  StoreView' = StoreView
  <2>1. UNCHANGED <<wlock, state, file_size>>
    BY <1>6 DEF Read, ReadLock, entries
  <2>2. \A d \in Clients \ {c} : req'[d] = req[d]
    BY <1>1, <1>6 DEF Read, Set, TypeOK
  <2>3. \/ pc' = [pc EXCEPT ![c] = "wild"] \/ pc' = [pc EXCEPT ![c] = "ok"]
        \/ pc' = [pc EXCEPT ![c] = "data_seek"]
    BY <1>6 DEF Read, Goto
  <2>4. OnFile(c, f)
    BY <1>1, <1>2, <2>1, <2>2, <2>3 DEF OnFile, TypeOK
  <2>5. View(f)' = View(f)
    BY <1>2, <2>1 DEF View
  <2> QED BY <1>1, <2>4, <2>5, Stutters
<1>7. ASSUME NEW new_size \in Sizes, Truncate(c, f, new_size)
      PROVE  Store!Next \/ StoreView' = StoreView
  <2>1. /\ OnFile(c, f) /\ wlock'[f] = c /\ state[f] = "REGULAR" /\ state' = state
        /\ req'[c] = Request("truncate", f, new_size) /\ file_size'[f] = new_size
        /\ pc'[c] = IF new_size = file_size[f] THEN "ok" ELSE "walk"
    BY <1>1, <1>7 DEF Truncate, WriteLock, Goto, Set, OnFile, TypeOK
  <2>2. req'[c].op = "truncate" /\ req'[c].goal = new_size /\ req'[c].fsize = file_size[f]
    BY <2>1 DEF Request
  <2>3. View(f) = file_size[f] /\ new_size \in Nat
    BY <1>3, <2>1, DataAssumption DEF Sizes
  <2>4. CASE new_size > file_size[f]
    <3>1. Growing(c)'
      BY <1>2, <2>1, <2>2, <2>3, <2>4 DEF Growing
    <3>2. View(f)' = req'[c].fsize
      BY <1>2, <2>1, <3>1 DEF View
    <3> QED BY <1>1, <2>1, <2>2, <2>3, <3>2, Stutters
  <2>5. CASE ~ (new_size > file_size[f])
    <3>1. ~ Growing(c)' /\ ~ Removing(c)'
      BY <2>2, <2>5 DEF Growing, Removing
    <3>2. View(f)' = new_size
      BY <1>2, <2>1, <3>1 DEF View
    <3>3. View(f) # Absent /\ View(f)' \in Nat
      BY <1>2, <2>3, <3>2
    <3> QED BY <1>1, <2>1, <3>3, Resizes
  <2> QED BY <2>4, <2>5
<1>8. CASE Unlink(c, f)
  <2>1. /\ OnFile(c, f) /\ wlock'[f] = c /\ state[f] = "REGULAR"
        /\ req'[c] = Request("unlink", f, 0)
    BY <1>1, <1>8 DEF Unlink, WriteLock, Goto, Set, entries, OnFile, TypeOK
  <2>2. ~ Growing(c)' /\ Removing(c)'
    BY <2>1 DEF Growing, Removing, Request
  <2>3. View(f) # Absent /\ View(f)' = Absent
    BY <1>2, <1>3, <2>1, <2>2 DEF View
  <2>4. /\ StoreView[f] # Absent /\ StoreView'[f] = Absent
        /\ \A g \in Files \ {f} : StoreView'[g] = StoreView[g]
    BY <1>1, <2>1, <2>3, ViewElsewhere
  <2>5. StoreView' = [g \in Files |-> StoreView'[g]] /\ DOMAIN StoreView = Files
    BY DEF StoreView
  <2>6. StoreView' = [StoreView EXCEPT ![f] = Absent]
    BY <2>4, <2>5
  <2> QED BY <2>4, <2>6 DEF Store!Next, Store!Remove, Store!Absent, Absent
<1> QED BY <1>4, <1>5, <1>6, <1>7, <1>8

\* The requests of all clients together are requests to one atomic store: each
\* happens at one step, completely or not at all, and only if there is room for
\* all files at that step, however searches and releases are interleaved.
THEOREM RefinesStore == Spec => ImplementsStore
<1>1. Init => Store!Init
  <2> SUFFICES ASSUME Init PROVE StoreView = [f \in Files |-> Store!Absent]
    BY DEF Store!Init
  <2>1. \A f \in Files : wlock[f] = NoClient /\ state[f] = "DELETED"
    BY DEF Init
  <2> QED BY <2>1 DEF StoreView, Absent, Store!Absent
<1>2. /\ IInv /\ FilesSound /\ HoldersWork /\ [Next]_vars
      /\ IInv' /\ Fits' /\ OnlyEmptyReadIsWild'
      => [Store!Next]_StoreView
  <2> SUFFICES ASSUME IInv, FilesSound, HoldersWork, [Next]_vars,
                      IInv', Fits', OnlyEmptyReadIsWild'
               PROVE  Store!Next \/ StoreView' = StoreView
    OBVIOUS
  <2>0. TypeOK /\ EntryHeld
    BY DEF IInv
  <2>1. ASSUME NEW c \in Clients, Continue(c)
        PROVE  Store!Next \/ StoreView' = StoreView
    <3>1. CASE FirstTest(c) \/ FirstSet(c) \/ Walk(c) \/ WalkEndWrite(c)
               \/ AddTest(c) \/ AddSet(c) \/ Release(c)
      BY <2>0, <3>1, ChainStepViews
    <3>2. CASE UndoSeek(c) \/ DataSeek(c) \/ CopyBlock(c) \/ CopyEnd(c)
      BY <2>0, <3>2, SeekViews
    <3>3. CASE FirstNone(c) \/ WalkEndTruncate(c)
      BY <3>3, FirstNoneViews, WalkEndTruncateViews
    <3>4. CASE AddDone(c) \/ AddNoSpace(c)
      BY <3>4, AddDoneViews, AddNoSpaceViews
    <3>5. CASE ReleaseEnd(c) \/ Reply(c)
      BY <3>5, ReleaseEndViews, ReplyViews
    <3> QED BY <2>1, <3>1, <3>2, <3>3, <3>4, <3>5 DEF Continue
  <2>2. ASSUME NEW c \in Clients, Start(c) \/ TakeLock(c)
        PROVE  Store!Next \/ StoreView' = StoreView
    BY <2>0, <2>2, StartViews, TakeLockViews
  <2>3. CASE UNCHANGED vars
    BY <2>3 DEF vars, locks, entries, StoreView, Growing, Removing
  <2> QED BY <2>1, <2>2, <2>3 DEF Next
<1>3. IInv /\ FilesSound /\ HoldersWork => Fits
  BY FilesFit
<1> QED
  BY <1>1, <1>2, <1>3, ChainsAreSound, HoldersAlwaysWork, OnlyEmptyReadIsWildHolds, PTL
     DEF Spec, Store!Spec, ImplementsStore
=============================================================================
