------------------------------- MODULE Memoria -------------------------------
(***************************************************************************)
(* The memory process: frames handed out by an inverted table, and in      *)
(* front of them a write-back cache with a limit of entries per process.   *)
(* One thread per client.  Each cache entry and each frame has a rwlock;   *)
(* mutex_lock protects the search of the table and the counts of the       *)
(* cache, and nothing protects the table's changes, the list of available  *)
(* frames and the list of the processes.                                   *)
(***************************************************************************)
EXTENDS Integers, Sequences, SequencesExt

CONSTANTS
  Clients,       \* the connected clients, one thread each
  Pids,          \* the ids of their processes
  Frames,        \* MARCOS
  Admin,         \* how many of them, the first ones, hold the table itself
  CacheEntries,  \* ENTRADAS_CACHE
  CacheXProcs,   \* the values of CACHE_X_PROC considered
  MaxPages,      \* bound: the pages one request asks for
  MaxRequests,   \* bound: the requests of each kind in a run
  None

ASSUME SizeAssumption ==
  /\ Pids \cap {-1, 0} = {}  \* of the table itself, of an available frame
  /\ Frames \in Nat /\ Admin \in 1 .. Frames
  /\ CacheEntries \in Nat \ {0} /\ CacheXProcs \subseteq Nat \ {0}
  /\ MaxPages \in Nat \ {0}
  /\ MaxRequests \in [CacheXProcs -> [{"assign", "end", "access"} -> Nat]]

ASSUME NoneAssumption == None \notin Clients \cup Nat

FrameIds == 0 .. Frames - 1
EntryIds == 0 .. CacheEntries - 1

VARIABLES
  cacheXProc, \* cache_x_process, of the configuration file
  table,      \* invert_table: the pid and page of every frame
  available,  \* available_frame_list
  pages,      \* pages_per_process_list: pages_count in the records of each process
  memory,     \* the content of every frame: the pages whose data is in it
  cache,      \* cache_memory and cache_ctrl: pid, page, content, writed
  recent,     \* the entries by str_last_used_time, the last used one last
  entriesOf,  \* cache_x_process_list: the entries counted for each process
  writer, readers,  \* cache_memory_locks
  frameReaders,     \* memory_locks: a write lock is never kept over a step
  mutex,      \* mutex_lock: who holds it
  thread,     \* each thread: its request and how far it is
  asked,      \* how many requests of each kind were made
  written,    \* the pages whose writes were answered
  trouble     \* what went wrong so far, see Troubles

shared == <<cacheXProc, table, available, pages, memory, cache, recent, entriesOf, writer,
            readers, frameReaders, mutex>>
vars == <<shared, thread, asked, written, trouble>>

(* "taken": a frame was taken from an empty list; "twice": a frame was given *)
(* back by two threads; "crossed": two threads numbered pages of a process at *)
(* once, or both added its record; "doubled": a request that missed a page put it in    *)
(* the cache, in another entry or over the same one, after another had;      *)
(* "ended": a process ended; "limit": a process went over its entries;       *)
(* "wild": the code used a record, an entry or a frame that does not exist,  *)
(* and what follows is undefined.                                            *)
Troubles == {"taken", "twice", "crossed", "doubled", "ended", "limit", "wild"}

Idle == [pc |-> "idle", op |-> None, pid |-> 0, page |-> 0, left |-> 0,
         frame |-> None, source |-> None, entry |-> 0, lru |-> -1,
         over |-> FALSE, record |-> 0]

(* load *)
Init ==
  /\ cacheXProc \in CacheXProcs
  /\ table = [f \in FrameIds |-> IF f < Admin THEN [pid |-> -1, page |-> f]
                                              ELSE [pid |-> 0, page |-> 0]]
  /\ available = [i \in 1 .. Frames - Admin |-> Admin + i - 1]
  /\ pages = [p \in Pids |-> <<>>]
  /\ memory = [f \in FrameIds |-> {}]
  /\ cache = [e \in EntryIds |-> [pid |-> -1, page |-> -1, content |-> {},
                                  writed |-> FALSE]]
  /\ recent = [i \in 1 .. CacheEntries |-> i - 1]
  /\ entriesOf = [p \in Pids |-> 0]
  /\ writer = [e \in EntryIds |-> None] /\ readers = [e \in EntryIds |-> {}]
  /\ frameReaders = [f \in FrameIds |-> {}]
  /\ mutex = None
  /\ thread = [c \in Clients |-> Idle]
  /\ asked = [k \in {"assign", "end", "access"} |-> 0] /\ written = {} /\ trouble = {}

-----------------------------------------------------------------------------
At(c, pc) == thread[c].pc = pc /\ "wild" \notin trouble
Set(c, new) == thread' = [thread EXCEPT ![c] = new]
GoTo(c, pc) == Set(c, [thread[c] EXCEPT !.pc = pc])
Finish(c) == Set(c, Idle)
Note(t) == trouble' = trouble \cup {t}
NoteIf(cond, t) == trouble' = trouble \cup (IF cond THEN {t} ELSE {})

Wild ==
  /\ Note("wild")
  /\ UNCHANGED <<shared, thread, asked, written>>

(* memory_semaphore, cache_memory_semaphore.  A thread that asks for a lock  *)
(* it already has for writing gets EDEADLK, which nobody looks at, and goes  *)
(* on; its next unlock gives the lock back.                                  *)
CanWrite(c, e) == readers[e] = {} /\ writer[e] \in {None, c}
CanRead(c, e) == writer[e] \in {None, c}
WriteLocked(c, e) == [writer EXCEPT ![e] = c]
ReadLocked(c, e) == IF writer[e] = c THEN readers
                                     ELSE [readers EXCEPT ![e] = @ \cup {c}]
Unlock(c, e) ==
  IF writer[e] = c THEN writer' = [writer EXCEPT ![e] = None] /\ UNCHANGED readers
                   ELSE readers' = [readers EXCEPT ![e] = @ \ {c}] /\ UNCHANGED writer

Used(e) == recent' = Append(SelectSeq(recent, LAMBDA d : d # e), e)
Older(d, e) ==
  \E i, j \in DOMAIN recent : i < j /\ recent[i] = d /\ recent[j] = e

-----------------------------------------------------------------------------
(* A client asks for pages, ends a process, or works on a page the table has *)
(* for it: not on one of a frame that is only being given.                   *)
Request(c, kind, new) ==
  /\ At(c, "idle") /\ asked[kind] < MaxRequests[cacheXProc][kind]
  /\ asked' = [asked EXCEPT ![kind] = @ + 1]
  /\ Set(c, new)
  /\ UNCHANGED <<shared, written, trouble>>

AskAssign(c) ==
  \E p \in Pids, n \in 1 .. MaxPages :
    Request(c, "assign", [Idle EXCEPT !.pc = "check", !.op = "assign", !.pid = p,
                                      !.left = n])

AskEnd(c) ==
  \E p \in Pids :
    /\ pages[p] # <<>>
    /\ Request(c, "end", [Idle EXCEPT !.pc = "forget", !.op = "end", !.pid = p])

AskAccess(c) ==
  \E op \in {"read", "write"}, f \in FrameIds :
    /\ table[f].pid \in Pids
    /\ ~\E d \in Clients : thread[d].pc = "setpage" /\ thread[d].frame = f
    /\ Request(c, "access", [Idle EXCEPT !.pc = "scan", !.op = op,
                              !.pid = table[f].pid, !.page = table[f].page])

(* assign_pages_to_process: the frames are counted, the record of the process *)
(* is looked for, and added if there is none, by another thread as well.      *)
CheckAvailable(c) ==
  /\ At(c, "check")
  /\ IF Len(available) < thread[c].left THEN Finish(c) ELSE GoTo(c, "search")
  /\ UNCHANGED <<shared, asked, written, trouble>>

SearchProcess(c) ==
  /\ At(c, "search")
  /\ IF pages[thread[c].pid] = <<>>
     THEN GoTo(c, "create")
     ELSE Set(c, [thread[c] EXCEPT !.pc = "take", !.record = 1])
  /\ UNCHANGED <<shared, asked, written, trouble>>

CreateProcess(c) ==
  /\ At(c, "create")
  /\ LET records == pages[thread[c].pid] IN
       /\ pages' = [pages EXCEPT ![thread[c].pid] = Append(records, 0)]
       /\ Set(c, [thread[c] EXCEPT !.pc = "take", !.record = Len(records) + 1])
       /\ NoteIf(records # <<>>, "crossed")
  /\ UNCHANGED <<cacheXProc, table, available, memory, cache, recent, entriesOf,
                 writer, readers, frameReaders, mutex, asked, written>>

(* pages_count++ loads and stores, and the number of the page is read then. *)
HasRecord(c) == thread[c].record > 0
PagesCount(c) == pages[thread[c].pid][thread[c].record]

Numbering(c) == thread[c].pc \in {"store", "number", "frame"}

LoadCount(c) ==
  /\ At(c, "take") /\ HasRecord(c)
  /\ Set(c, [thread[c] EXCEPT !.pc = "store", !.page = PagesCount(c)])
  /\ NoteIf(\E d \in Clients : Numbering(d) /\ thread[d].pid = thread[c].pid, "crossed")
  /\ UNCHANGED <<shared, asked, written>>

StoreCount(c) ==
  /\ At(c, "store") /\ HasRecord(c)
  /\ pages' = [pages EXCEPT ![thread[c].pid][thread[c].record] = thread[c].page + 1]
  /\ GoTo(c, "number")
  /\ UNCHANGED <<cacheXProc, table, available, memory, cache, recent, entriesOf,
                 writer, readers, frameReaders, mutex, asked, written, trouble>>

ReadCount(c) ==
  /\ At(c, "number") /\ HasRecord(c)
  /\ Set(c, [thread[c] EXCEPT !.pc = "frame", !.page = PagesCount(c) - 1])
  /\ UNCHANGED <<shared, asked, written, trouble>>

(* The record was freed by the end of the process. *)
RecordForgotten(c) ==
  /\ \E pc \in {"take", "store", "number"} : At(c, pc)
  /\ ~HasRecord(c)
  /\ Wild

(* Mutant: get_available_frame reads the head of the list and leaves it there. *)
TakeFramePeeks(c) ==
  /\ At(c, "frame")
  /\ LET empty == available = <<>> IN
       /\ Set(c, [thread[c] EXCEPT !.pc = "setpid",
                    !.frame = IF empty THEN 0 ELSE Head(available)])
       /\ NoteIf(empty, "taken")
  /\ UNCHANGED <<shared, asked, written>>

(* get_available_frame: list_remove of an empty list is NULL, frame 0. *)
TakeFrame(c) ==
  /\ At(c, "frame")
  /\ LET empty == available = <<>> IN
       /\ available' = IF empty THEN available ELSE Tail(available)
       /\ Set(c, [thread[c] EXCEPT !.pc = "setpid",
                    !.frame = IF empty THEN 0 ELSE Head(available)])
       /\ NoteIf(empty, "taken")
  /\ UNCHANGED <<cacheXProc, table, pages, memory, cache, recent, entriesOf, writer, readers,
                 frameReaders, mutex, asked, written>>

(* inicialize_page *)
SetPid(c) ==
  /\ At(c, "setpid")
  /\ table' = [table EXCEPT ![thread[c].frame].pid = thread[c].pid]
  /\ GoTo(c, "setpage")
  /\ UNCHANGED <<cacheXProc, available, pages, memory, cache, recent, entriesOf, writer,
                 readers, frameReaders, mutex, asked, written, trouble>>

SetPage(c) ==
  /\ At(c, "setpage")
  /\ table' = [table EXCEPT ![thread[c].frame].page = thread[c].page]
  /\ IF thread[c].left = 1 THEN Finish(c)
     ELSE Set(c, [thread[c] EXCEPT !.pc = "take", !.left = @ - 1, !.page = 0,
                                   !.frame = None])
  /\ UNCHANGED <<cacheXProc, available, pages, memory, cache, recent, entriesOf, writer,
                 readers, frameReaders, mutex, asked, written, trouble>>

-----------------------------------------------------------------------------
(* cleaning_process_entries: the record, then frame after frame. *)
ForgetProcess(c) ==
  /\ At(c, "forget")
  /\ pages' = [pages EXCEPT ![thread[c].pid] = SubSeq(@, 2, Len(@))]
  /\ thread' = [d \in Clients |->
       IF d = c THEN [thread[c] EXCEPT !.pc = "clean", !.frame = 0]
       ELSE IF thread[d].pid = thread[c].pid /\ HasRecord(d)
       THEN [thread[d] EXCEPT !.record = @ - 1]
       ELSE thread[d]]
  /\ Note("ended")
  /\ UNCHANGED <<cacheXProc, table, available, memory, cache, recent, entriesOf, writer,
                 readers, frameReaders, mutex, asked, written>>

NextFrame(c) ==
  IF thread[c].frame = Frames - 1 THEN Finish(c)
  ELSE Set(c, [thread[c] EXCEPT !.pc = "clean", !.frame = @ + 1])

CleanTest(c) ==
  /\ At(c, "clean")
  /\ IF table[thread[c].frame].pid = thread[c].pid THEN GoTo(c, "free")
                                                   ELSE NextFrame(c)
  /\ UNCHANGED <<shared, asked, written, trouble>>

CleanFrame(c) ==
  /\ At(c, "free")
  /\ NoteIf(table[thread[c].frame].pid # thread[c].pid, "twice")
  /\ table' = [table EXCEPT ![thread[c].frame] = [pid |-> 0, page |-> 0]]
  /\ available' = Append(available, thread[c].frame)
  /\ NextFrame(c)
  /\ UNCHANGED <<cacheXProc, pages, memory, cache, recent, entriesOf, writer, readers,
                 frameReaders, mutex, asked, written>>

-----------------------------------------------------------------------------
(* get_cache_entry: each entry in turn is locked, looked at, and unlocked if *)
(* it is not the one.                                                        *)
Holds(c, e) == cache[e].pid = thread[c].pid /\ cache[e].page = thread[c].page

NextEntry(c) ==
  IF thread[c].entry < CacheEntries - 1
  THEN Set(c, [thread[c] EXCEPT !.entry = @ + 1])
  ELSE Set(c, [thread[c] EXCEPT !.entry = 0,
                                !.pc = IF @ = "scan" /\ thread[c].op = "read"
                                       THEN "find" ELSE "count"])

Scan(c) ==
  /\ At(c, "scan")
  /\ LET e == thread[c].entry
         reads == thread[c].op = "read"
     IN /\ IF reads THEN CanRead(c, e) ELSE CanWrite(c, e)
        /\ IF Holds(c, e)
           THEN /\ IF reads THEN readers' = ReadLocked(c, e) /\ UNCHANGED writer
                            ELSE writer' = WriteLocked(c, e) /\ UNCHANGED readers
                /\ Set(c, [thread[c] EXCEPT !.pc = IF reads THEN "hit" ELSE "update"])
           ELSE Unlock(c, e) /\ NextEntry(c)
  /\ UNCHANGED <<cacheXProc, table, available, pages, memory, cache, recent, entriesOf,
                 frameReaders, mutex, asked, written, trouble>>

(* read_data_into_cache_entry_and_send *)
ReadHit(c) ==
  /\ At(c, "hit")
  /\ Used(thread[c].entry)
  /\ Unlock(c, thread[c].entry)
  /\ Finish(c)
  /\ UNCHANGED <<cacheXProc, table, available, pages, memory, cache, entriesOf,
                 frameReaders, mutex, asked, written, trouble>>

(* get_frame: the search, then the lock of the frame found, all of it under *)
(* mutex_lock.  A page no frame holds gives the number after the last one.  *)
FramesOf(pid, page) == {f \in FrameIds : table[f] = [pid |-> pid, page |-> page]}

FindFrame(c, pid, page, found) ==
  /\ mutex = None
  /\ IF FramesOf(pid, page) = {} THEN Wild
     ELSE /\ mutex' = c
          /\ Set(c, [thread[c] EXCEPT !.pc = found, !.frame = Min(FramesOf(pid, page))])
          /\ UNCHANGED <<cacheXProc, table, available, pages, memory, cache, recent, entriesOf,
                         writer, readers, frameReaders, asked, written, trouble>>

(* readind_memory *)
ReadFind(c) ==
  /\ At(c, "find")
  /\ FindFrame(c, thread[c].pid, thread[c].page, "lockframe")

ReadFrame(c) ==
  /\ At(c, "lockframe")
  /\ frameReaders' = [frameReaders EXCEPT ![thread[c].frame] = @ \cup {c}]
  /\ mutex' = None
  /\ Set(c, [thread[c] EXCEPT !.pc = "count", !.source = thread[c].frame, !.frame = None])
  /\ UNCHANGED <<cacheXProc, table, available, pages, memory, cache, recent, entriesOf,
                 writer, readers, asked, written, trouble>>

-----------------------------------------------------------------------------
(* assign_cache_entry: the count under mutex_lock ... *)
Count(c) ==
  /\ At(c, "count") /\ mutex = None
  /\ LET p == thread[c].pid
         over == entriesOf[p] >= cacheXProc
     IN /\ entriesOf' = [entriesOf EXCEPT ![p] = IF over THEN @ ELSE @ + 1]
        /\ NoteIf(over, "limit")
        /\ Set(c, [thread[c] EXCEPT !.pc = "pick", !.over = over])
  /\ UNCHANGED <<cacheXProc, table, available, pages, memory, cache, recent, writer, readers,
                 frameReaders, mutex, asked, written>>

(* ... and the choice of an entry: the first free one or the least recently *)
(* used, and for a process over its limit the least recently used of its    *)
(* own.  An entry of another process then stays locked.                     *)
Candidate(c, e) == ~thread[c].over \/ cache[e].pid = thread[c].pid

(* Mutant: the entry that was the least recently used so far stays locked. *)
LeftLocked(w, lru) == IF lru < 0 THEN w ELSE w

Left(w, lru) == IF lru < 0 THEN w ELSE [w EXCEPT ![lru] = None]

Chosen(c, e, w) ==
  /\ writer' = w
  /\ Set(c, [thread[c] EXCEPT !.pc = "update", !.entry = e, !.lru = -1])

PickNext(c, lru, w) ==
  IF thread[c].entry < CacheEntries - 1
  THEN writer' = w /\ Set(c, [thread[c] EXCEPT !.entry = @ + 1, !.lru = lru])
  ELSE Chosen(c, lru, w)

Pick(c) ==
  /\ At(c, "pick")
  /\ LET e == thread[c].entry
         lru == thread[c].lru
         locked == WriteLocked(c, e)
     IN /\ CanWrite(c, e)
        /\ IF ~thread[c].over /\ cache[e].pid = -1
           THEN Chosen(c, e, Left(locked, lru))
           ELSE IF ~Candidate(c, e) THEN PickNext(c, lru, locked)
           ELSE IF lru < 0 \/ Older(e, lru) THEN PickNext(c, e, Left(locked, lru))
           ELSE PickNext(c, lru, Left(locked, e))
  /\ UNCHANGED <<cacheXProc, table, available, pages, memory, cache, recent, entriesOf,
                 readers, frameReaders, mutex, asked, written, trouble>>

-----------------------------------------------------------------------------
(* update_cache: an entry that was written and holds another page goes to   *)
(* its frame first (writing_memory).  No entry of its own: entry -1.        *)
MustFlush(c, e) == ~Holds(c, e) /\ cache[e].writed

UpdateNowhere(c) == At(c, "update") /\ thread[c].entry = -1 /\ Wild

FlushFind(c) ==
  /\ At(c, "update")
  /\ LET e == thread[c].entry IN
       /\ e >= 0 /\ MustFlush(c, e)
       /\ FindFrame(c, cache[e].pid, cache[e].page, "flush")

(* Mutant: get_frame returns with mutex_lock. *)
FlushKeepsMutex(c) ==
  /\ At(c, "flush")
  /\ frameReaders[thread[c].frame] = {}
  /\ memory' = [memory EXCEPT ![thread[c].frame] = cache[thread[c].entry].content]
  /\ Set(c, [thread[c] EXCEPT !.pc = "fill", !.frame = None])
  /\ UNCHANGED <<cacheXProc, table, available, pages, cache, recent, entriesOf, writer,
                 readers, frameReaders, mutex, asked, written, trouble>>

Flush(c) ==
  /\ At(c, "flush")
  /\ frameReaders[thread[c].frame] = {}
  /\ memory' = [memory EXCEPT ![thread[c].frame] = cache[thread[c].entry].content]
  /\ mutex' = None
  /\ Set(c, [thread[c] EXCEPT !.pc = "fill", !.frame = None])
  /\ UNCHANGED <<cacheXProc, table, available, pages, cache, recent, entriesOf, writer,
                 readers, frameReaders, asked, written, trouble>>

(* The entry takes the whole page that was read, or the part of it that is *)
(* written, next to what it held, of whichever page that is; then it is     *)
(* unlocked.                                                                *)
NewContent(c, old) ==
  IF thread[c].op = "read" THEN memory[thread[c].source]
                           ELSE old \cup {<<thread[c].pid, thread[c].page>>}
(* Mutant: a written entry is not marked. *)
WritedNever(c) == thread[c].op \notin {"read", "write"}

Writed(c) == thread[c].op = "write"

Fill(c) ==
  /\ LET e == thread[c].entry IN
       /\ \/ At(c, "fill")
          \/ At(c, "update") /\ e >= 0 /\ ~MustFlush(c, e)
       /\ cache' = [cache EXCEPT ![e] =
            [pid |-> thread[c].pid, page |-> thread[c].page,
             content |-> NewContent(c, @.content), writed |-> Writed(c)]]
       /\ NoteIf(\E d \in EntryIds : Holds(c, d) /\ (d # e \/ ~Writed(c)), "doubled")
       /\ Used(e)
       /\ Unlock(c, e)
  /\ IF thread[c].op = "read" THEN GoTo(c, "send") ELSE Finish(c)
  /\ written' = written \cup (IF Writed(c) THEN {<<thread[c].pid, thread[c].page>>} ELSE {})
  /\ UNCHANGED <<cacheXProc, table, available, pages, memory, entriesOf, frameReaders,
                 mutex, asked>>

ReadSend(c) ==
  /\ At(c, "send")
  /\ frameReaders' = [frameReaders EXCEPT ![thread[c].source] = @ \ {c}]
  /\ Finish(c)
  /\ UNCHANGED <<cacheXProc, table, available, pages, memory, cache, recent, entriesOf,
                 writer, readers, mutex, asked, written, trouble>>

-----------------------------------------------------------------------------
Step(c) ==
  \/ CheckAvailable(c) \/ SearchProcess(c) \/ CreateProcess(c)
  \/ LoadCount(c) \/ StoreCount(c) \/ ReadCount(c) \/ RecordForgotten(c)
  \/ TakeFrame(c) \/ SetPid(c) \/ SetPage(c)
  \/ ForgetProcess(c) \/ CleanTest(c) \/ CleanFrame(c)
  \/ Scan(c) \/ ReadHit(c) \/ ReadFind(c) \/ ReadFrame(c)
  \/ Count(c) \/ Pick(c)
  \/ UpdateNowhere(c) \/ FlushFind(c) \/ Flush(c) \/ Fill(c) \/ ReadSend(c)

Next == \E c \in Clients : AskAssign(c) \/ AskEnd(c) \/ AskAccess(c) \/ Step(c)

Spec == Init /\ [][Next]_vars

-----------------------------------------------------------------------------
PageIds == Pids \X Nat

(* The types; only a thread that searches the table has mutex_lock, and a   *)
(* lock held for writing has no readers.                                    *)
TypeOK ==
  /\ \A f \in FrameIds : /\ table[f].pid \in Pids \cup {-1, 0}
                         /\ table[f].page \in Nat
                         /\ memory[f] \subseteq PageIds
                         /\ frameReaders[f] \subseteq Clients
  /\ available \in Seq(FrameIds)
  /\ \A p \in Pids : pages[p] \in Seq(Nat) /\ entriesOf[p] \in 0 .. cacheXProc
  /\ \A e \in EntryIds : /\ cache[e].pid \in Pids \cup {-1}
                         /\ cache[e].content \subseteq PageIds
                         /\ writer[e] = None \/ readers[e] = {}
  /\ mutex # None <=> \E c \in Clients : thread[c].pc \in {"lockframe", "flush"}
  /\ written \subseteq PageIds
  /\ trouble \subseteq Troubles

(* Unless a frame was taken from the empty list (memoria.c:361, 418) or      *)
(* given back twice (726), every frame is at one place: it holds the table,  *)
(* it is available, it has a page of a process, or a thread is about to give *)
(* it one.                                                                   *)
Places(f) ==
  {<<"table", p>> : p \in {q \in Pids \cup {-1} : table[f].pid = q}}
  \cup {<<"available", i>> : i \in {j \in DOMAIN available : available[j] = f}}
  \cup {<<"thread", c>> : c \in {d \in Clients :
                                   thread[d].pc = "setpid" /\ thread[d].frame = f}}

FramesConserved ==
  trouble \cap {"taken", "twice"} = {} =>
    \A f \in FrameIds : /\ Cardinality(Places(f)) = 1
                        /\ f < Admin <=> table[f].pid = -1

(* A page that is cached and was not written since is the same in its       *)
(* frame, and what was written to a page is where the next read of it looks: *)
(* in its entry, or in its frame if it has none.  So no eviction loses a    *)
(* write.  Its frame is the one get_frame finds (608): the first, and while a *)
(* frame is given to a process (413) it passes for another of its page 0.    *)
(* Two misses of one page at once (446, 625) and the end of a process, which *)
(* leaves its entries in the cache (710), are what breaks it.               *)
Cached(page) == {e \in EntryIds : <<cache[e].pid, cache[e].page>> = page}
InFrame(page) == memory[Min(FramesOf(page[1], page[2]))]

CacheIsCoherent ==
  trouble \cap {"taken", "crossed", "doubled", "ended"} = {} =>
    /\ \A e \in EntryIds :
         cache[e].pid # -1 /\ ~cache[e].writed =>
           InFrame(<<cache[e].pid, cache[e].page>>) = cache[e].content
    /\ \A page \in written :
         IF Cached(page) # {}
         THEN \A e \in Cached(page) : page \in cache[e].content
         ELSE page \in InFrame(page)

(* Who a thread waits for. *)
WaitsFor(c, d) ==
  LET t == thread[c] IN
    \/ t.pc \in {"scan", "pick"} /\ d # c
       /\ \/ writer[t.entry] = d
          \/ d \in readers[t.entry] /\ ~(t.pc = "scan" /\ t.op = "read")
    \/ t.pc \in {"find", "count"} /\ mutex = d
    \/ t.pc = "update" /\ t.entry >= 0 /\ MustFlush(c, t.entry) /\ mutex = d
    \/ t.pc = "flush" /\ d \in frameReaders[t.frame]

(* The entries assign_cache_entry left locked and forgot.                    *)
Forgotten(e) ==
  \E c \in Clients :
    /\ writer[e] = c /\ e # thread[c].lru
    /\ ~(e = thread[c].entry /\ thread[c].pc \in {"update", "flush", "fill"})

(* A thread waits for one that has nothing to do, or two wait for each       *)
(* other, only if one of them flushes to a frame the other is reading,       *)
(* mutex_lock in hand (605), or waits for an entry left locked, and entries  *)
(* are left locked only for a process over its limit (508).                  *)
StuckForACause ==
  /\ \A c, d \in Clients :
       WaitsFor(c, d) /\ (thread[d].pc = "idle" \/ WaitsFor(d, c)) =>
         \E b \in {c, d} :
           \/ thread[b].pc = "flush"
           \/ thread[b].pc \in {"scan", "pick"} /\ Forgotten(thread[b].entry)
  /\ (\E e \in EntryIds : Forgotten(e)) => "limit" \in trouble

-----------------------------------------------------------------------------
(* The inductive invariant behind TypeOK, FramesConserved and                *)
(* StuckForACause: the types of everything, what a thread has at each step,  *)
(* who has the locks, and where each frame is.                               *)
Pcs == {"idle", "check", "search", "create", "take", "store", "number", "frame", "setpid", "setpage", "forget", "clean", "free", "scan", "hit",
        "find", "lockframe", "count", "pick", "update", "flush", "fill", "send"}
Threads ==
  [pc : Pcs, op : {"assign", "end", "read", "write", None}, pid : Pids \cup {0},
   page : Nat, left : Nat, frame : FrameIds \cup {None}, source : FrameIds \cup {None},
   entry : EntryIds \cup {-1}, lru : EntryIds \cup {-1}, over : BOOLEAN, record : Nat]

FrameTypes ==
  /\ table \in [FrameIds -> [pid : Pids \cup {-1, 0}, page : Nat]]
  /\ available \in Seq(FrameIds)
  /\ pages \in [Pids -> Seq(Nat)]
  /\ memory \in [FrameIds -> SUBSET PageIds]
  /\ frameReaders \in [FrameIds -> SUBSET Clients]

CacheTypes ==
  /\ cacheXProc \in CacheXProcs
  /\ cache \in [EntryIds -> [pid : Pids \cup {-1}, page : Nat \cup {-1},
                             content : SUBSET PageIds, writed : BOOLEAN]]
  /\ entriesOf \in [Pids -> 0 .. cacheXProc]
  /\ writer \in [EntryIds -> Clients \cup {None}]
  /\ readers \in [EntryIds -> SUBSET Clients]
  /\ \A e \in EntryIds : writer[e] = None \/ readers[e] = {}

Types ==
  /\ FrameTypes /\ CacheTypes
  /\ mutex \in Clients \cup {None}
  /\ thread \in [Clients -> Threads]
  /\ written \subseteq PageIds
  /\ trouble \subseteq Troubles

WithRecord == {"take", "store", "number", "frame", "setpid", "setpage"}
Assigning == {"check", "search", "create"} \cup WithRecord

Ready(c) ==
  LET t == thread[c] IN
  /\ t.pc = "idle" => t = Idle
  /\ t.pc # "idle" => t.pid \in Pids
  /\ t.pc \in Assigning => t.left > 0
  /\ t.pc \in {"setpid", "setpage", "clean", "free", "lockframe", "flush"} =>
       t.frame \in FrameIds
  /\ t.pc \in {"scan", "hit", "find", "lockframe", "count", "pick", "flush", "fill"} =>
       t.entry \in EntryIds
  /\ t.pc \in {"count", "pick", "update", "flush", "fill", "send"} /\ t.op = "read" =>
       t.source \in FrameIds
  /\ t.record > 0 => t.pc \in WithRecord /\ t.record <= Len(pages[t.pid])
  /\ t.record > 0 /\ t.pc = "number" => pages[t.pid][t.record] > 0
  /\ t.lru # -1 => t.pc = "pick" /\ t.lru < t.entry
  /\ t.over => "limit" \in trouble

(* Without a process over its limit a thread has for writing the entry it    *)
(* updates, or the least recently used one so far.                           *)
Locks(c) ==
  /\ mutex = c <=> thread[c].pc \in {"lockframe", "flush"}
  /\ \A e \in EntryIds :
       /\ c \in readers[e] => thread[c].pc = "hit" /\ thread[c].entry = e
       /\ writer[e] = c /\ "limit" \notin trouble =>
            \/ e = thread[c].lru
            \/ e = thread[c].entry /\ thread[c].pc \in {"update", "flush", "fill"}

Held(f)     == table[f].pid \in Pids \cup {-1}
Listed(f)   == \E i \in DOMAIN available : available[i] = f
Given(c, f) == thread[c].pc = "setpid" /\ thread[c].frame = f

OnePlace(f) ==
  /\ Held(f) \/ Listed(f) \/ \E c \in Clients : Given(c, f)
  /\ ~(Held(f) /\ Listed(f))
  /\ \A c \in Clients : Given(c, f) => ~Held(f) /\ ~Listed(f)
  /\ \A i, j \in DOMAIN available : available[i] = f /\ available[j] = f => i = j
  /\ \A c, d \in Clients : Given(c, f) /\ Given(d, f) => c = d
  /\ f < Admin <=> table[f].pid = -1

FramesPlaced ==
  trouble \cap {"taken", "twice"} = {} => \A f \in FrameIds : OnePlace(f)

IInv ==
  /\ Types
  /\ \A c \in Clients : Ready(c) /\ Locks(c)
  /\ FramesPlaced

-----------------------------------------------------------------------------
(* The invariant behind CacheIsCoherent, next to IInv: as long as nothing of *)
(* what CacheIsCoherent excludes has happened, frames and numbers of pages    *)
(* are given in order, so that the first frame that says it is a page is it.  *)
Calm == trouble \cap {"taken", "crossed", "doubled", "ended"} = {}

Unended == \A c \in Clients : thread[c].pc \notin {"clean", "free"}

(* A frame that is still available, and one that is being given; the page a  *)
(* frame is, or will be; and whose it is for good.                           *)
Free(f) == f >= Frames - Len(available)
Gives(c, f) == thread[c].pc \in {"setpid", "setpage"} /\ thread[c].frame = f
BeingGiven(f) == \E c \in Clients : Gives(c, f)
PageAt(f) ==
  IF BeingGiven(f)
  THEN LET c == CHOOSE d \in Clients : Gives(d, f) IN <<thread[c].pid, thread[c].page>>
  ELSE <<table[f].pid, table[f].page>>
Owns(f, page) == PageAt(f) = page /\ ~BeingGiven(f)
HasFrame(page) == \E f \in FrameIds : Owns(f, page)

ListInOrder ==
  \A i \in DOMAIN available : available[i] = Frames - Len(available) + i - 1

GivenInTurn ==
  /\ \A f \in FrameIds : Free(f) => table[f] = [pid |-> 0, page |-> 0]
  /\ \A c \in Clients, f \in FrameIds :
       Gives(c, f) => /\ ~Free(f) /\ table[f].page = 0
                      /\ table[f].pid = IF thread[c].pc = "setpid" THEN 0 ELSE thread[c].pid
                      /\ \A d \in Clients : Gives(d, f) => d = c

(* One thread at a time numbers a page of a process, with the number after   *)
(* those its frames have; a later frame has a higher number.                 *)
NumberOf(c) == IF thread[c].pc = "number" THEN pages[thread[c].pid][1] - 1
                                          ELSE thread[c].page

NumberedInTurn ==
  /\ \A p \in Pids : Len(pages[p]) <= 1
  /\ \A c \in Clients :
       /\ thread[c].pc \in WithRecord => thread[c].record = 1
       /\ Numbering(c) =>
            /\ pages[thread[c].pid][1] =
                 IF thread[c].pc = "store" THEN NumberOf(c) ELSE NumberOf(c) + 1
            /\ \A d \in Clients : Numbering(d) /\ thread[d].pid = thread[c].pid => d = c
            /\ \A f \in FrameIds :
                 PageAt(f)[1] = thread[c].pid => PageAt(f)[2] < NumberOf(c)
  /\ \A f \in FrameIds :
       PageAt(f)[1] \in Pids => /\ Len(pages[PageAt(f)[1]]) = 1
                                /\ PageAt(f)[2] < pages[PageAt(f)[1]][1]

FramesInOrder ==
  \A f, g \in FrameIds :
    f < g /\ PageAt(f)[1] \in Pids /\ PageAt(f)[1] = PageAt(g)[1] => PageAt(f)[2] < PageAt(g)[2]

FramesAgree ==
  Unended /\ ListInOrder /\ GivenInTurn /\ NumberedInTurn /\ FramesInOrder

(* What a thread works on has a frame, the one it found; it has the entry it *)
(* is about to use, and what it evicts is in its frame when it fills it.     *)
PageOf(c) == <<thread[c].pid, thread[c].page>>
EntryPage(e) == <<cache[e].pid, cache[e].page>>

Accessing == {"scan", "hit", "find", "lockframe", "count", "pick", "update", "flush", "fill",
              "send"}
Filling == {"update", "flush", "fill"}

WorksAtHome(c) ==
  LET t == thread[c] IN
  t.pc \in Accessing =>
    /\ t.op \in {"read", "write"} /\ HasFrame(PageOf(c))
    /\ \A f \in FrameIds :
         /\ t.pc = "lockframe" /\ t.frame = f => Owns(f, PageOf(c))
         /\ t.pc \in {"count", "pick"} \cup Filling /\ t.op = "read" /\ t.source = f =>
              Owns(f, PageOf(c))

HasEntry(c, e) ==
  LET t == thread[c] IN
  /\ t.pc = "pick" /\ t.lru = e => writer[e] = c
  /\ t.pc \in Filling /\ t.entry = e => writer[e] = c
  /\ t.pc = "flush" /\ t.entry = e =>
       cache[e].writed /\ \A f \in FrameIds : t.frame = f => Owns(f, EntryPage(e))
  /\ t.pc = "fill" /\ t.entry = e =>
       \A f \in FrameIds : Owns(f, EntryPage(e)) => memory[f] = cache[e].content

EntryIsTrue(e) ==
  IF cache[e].pid = -1 THEN ~cache[e].writed
  ELSE /\ HasFrame(EntryPage(e))
       /\ \A d \in EntryIds : EntryPage(d) = EntryPage(e) => d = e
       /\ \A f \in FrameIds :
            Owns(f, EntryPage(e)) /\ ~cache[e].writed => memory[f] = cache[e].content

WriteIsKept(page) ==
  /\ HasFrame(page)
  /\ \A e \in EntryIds : EntryPage(e) = page => page \in cache[e].content
  /\ (\A e \in EntryIds : EntryPage(e) # page) =>
       \A f \in FrameIds : Owns(f, page) => page \in memory[f]

CacheAgrees ==
  /\ \A c \in Clients : WorksAtHome(c) /\ \A e \in EntryIds : HasEntry(c, e)
  /\ \A e \in EntryIds : EntryIsTrue(e)
  /\ \A page \in written : WriteIsKept(page)

CInv == Calm => FramesAgree /\ CacheAgrees
=============================================================================
