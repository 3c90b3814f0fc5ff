----------------------------- MODULE MemoriaProofs -----------------------------
(***************************************************************************)
(* Proofs about Memoria, for any number of clients, processes, frames and  *)
(* cache entries, and any limit of entries per process.                    *)
(***************************************************************************)
EXTENDS Memoria, ListFacts

LEMMA SizeFacts ==
  /\ Frames \in Nat /\ Admin \in Nat /\ Admin > 0 /\ Admin <= Frames
  /\ CacheEntries \in Nat \ {0}
  /\ -1 \notin Pids /\ 0 \notin Pids
  /\ None \notin Clients /\ None \notin Nat
  /\ \A f \in FrameIds : f \in Int /\ f >= 0 /\ f < Frames
  /\ \A e \in EntryIds : e \in Int /\ e >= 0 /\ e < CacheEntries
  /\ 0 \in FrameIds /\ 0 \in EntryIds
  /\ FrameIds \in SUBSET Nat
  /\ CacheXProcs \subseteq Nat \ {0}
BY SizeAssumption, NoneAssumption DEF FrameIds, EntryIds

LEMMA IdleIsThread == Idle \in Threads
BY SizeFacts DEF Idle, Threads, Pcs

-----------------------------------------------------------------------------
(* What a step of one thread leaves to show *)

\* No record of a process is lost, and no count that was positive becomes zero.
PagesGrow ==
  \A p \in Pids :
    /\ Len(pages'[p]) >= Len(pages[p])
    /\ \A i \in 1 .. Len(pages[p]) : pages[p][i] > 0 => pages'[p][i] > 0

\* A thread that takes no part in a step is as ready as it was, and has the same
\* locks or fewer.
LEMMA OthersStay ==
  ASSUME NEW d \in Clients, Types, Ready(d), Locks(d), thread'[d] = thread[d],
         trouble \subseteq trouble',
         pages' = pages \/ PagesGrow,
         mutex' = d <=> mutex = d,
         \A e \in EntryIds : /\ d \in readers'[e] => d \in readers[e]
                             /\ writer'[e] = d => writer[e] = d
  PROVE  Ready(d)' /\ Locks(d)'
<1> DEFINE t == thread[d]
<1>1. Ready(d)'
  <2>1. t \in Threads /\ pages \in [Pids -> Seq(Nat)]
    BY DEF Types, FrameTypes
  <2>2. t.record > 0 =>
          /\ t.pid \in Pids /\ t.record \in 1 .. Len(pages[t.pid]) /\ t.record <= Len(pages'[t.pid])
          /\ t.pc = "number" => pages'[t.pid][t.record] > 0
    <3> SUFFICES ASSUME t.record > 0
                 PROVE  /\ t.pid \in Pids /\ t.record \in 1 .. Len(pages[t.pid])
                        /\ t.record <= Len(pages'[t.pid])
                        /\ t.pc = "number" => pages'[t.pid][t.record] > 0
      OBVIOUS
    <3>1. t.pid \in Pids /\ t.record <= Len(pages[t.pid]) /\ t.record \in Nat
      BY <2>1 DEF Ready, Threads, WithRecord
    <3>2. Len(pages[t.pid]) \in Nat
      BY <2>1, <3>1, LenProperties
    <3>3. t.record \in 1 .. Len(pages[t.pid])
      BY <3>1, <3>2
    <3>4. t.pc = "number" => pages[t.pid][t.record] > 0
      BY DEF Ready, Assigning, WithRecord
    <3>5. CASE pages' = pages
      BY <3>1, <3>3, <3>4, <3>5
    <3>6. CASE PagesGrow
      <4> HIDE DEF t
      <4>1. /\ Len(pages'[t.pid]) >= Len(pages[t.pid])
            /\ pages[t.pid][t.record] > 0 => pages'[t.pid][t.record] > 0
        BY <3>1, <3>3, <3>6 DEF PagesGrow
      <4>2. Len(pages'[t.pid]) >= Len(pages[t.pid]) => t.record <= Len(pages'[t.pid])
        BY <3>1, <3>2, <3>6
      <4> QED BY <3>1, <3>3, <3>4, <4>1, <4>2
    <3> QED BY <3>5, <3>6
  <2> QED BY <2>2, SizeFacts DEF Ready, Assigning, WithRecord
<1>2. Locks(d)'
  BY DEF Locks
<1> QED BY <1>1, <1>2

\* Where the frames are changes with the table, the list and the threads about to
\* give one.
LEMMA PlacedStay ==
  ASSUME FramesPlaced, trouble \subseteq trouble', available' = available,
         \A f \in FrameIds : /\ Held(f)' <=> Held(f)
                             /\ table'[f].pid = -1 <=> table[f].pid = -1,
         \A f \in FrameIds, d \in Clients : Given(d, f)' <=> Given(d, f)
  PROVE  FramesPlaced'
<1>1. ASSUME NEW f \in FrameIds, OnePlace(f) PROVE OnePlace(f)'
  <2>1. /\ Held(f)' <=> Held(f)
        /\ Listed(f)' <=> Listed(f)
        /\ \A d \in Clients : Given(d, f)' <=> Given(d, f)
    BY DEF Listed
  <2> HIDE DEF Held, Given, Listed
  <2> QED BY <1>1, <2>1 DEF OnePlace
<1> QED BY <1>1 DEF FramesPlaced

\* A step of c to the thread new.
LEMMA OneStep ==
  ASSUME IInv, NEW c \in Clients, NEW new \in Threads,
         thread' = [thread EXCEPT ![c] = new],
         FrameTypes', CacheTypes', mutex' \in Clients \cup {None},
         written' \subseteq PageIds, trouble \subseteq trouble', trouble' \subseteq Troubles,
         pages' = pages \/ PagesGrow,
         \A d \in Clients \ {c} :
           /\ mutex' = d <=> mutex = d
           /\ \A e \in EntryIds : /\ d \in readers'[e] => d \in readers[e]
                                  /\ writer'[e] = d => writer[e] = d,
         thread'[c] = new => Ready(c)' /\ Locks(c)',
         FramesPlaced'
  PROVE  IInv'
<1>1. thread'[c] = new /\ \A d \in Clients \ {c} : thread'[d] = thread[d]
  BY DEF IInv, Types
<1>2. Types'
  BY DEF IInv, Types
<1>3. \A d \in Clients \ {c} : Ready(d)' /\ Locks(d)'
  BY <1>1, OthersStay DEF IInv
<1> QED BY <1>1, <1>2, <1>3 DEF IInv

\* The most common steps: the frames, or the cache, or both, are left alone.
LEMMA KeepFrames ==
  ASSUME FrameTypes, UNCHANGED <<table, available, pages, memory, frameReaders>>
  PROVE  FrameTypes'
BY DEF FrameTypes

LEMMA KeepCache ==
  ASSUME CacheTypes, UNCHANGED <<cacheXProc, cache, entriesOf, writer, readers>>
  PROVE  CacheTypes'
BY DEF CacheTypes

\* A step of c that neither leaves nor reaches "setpid" gives no frame.
LEMMA GivenStay ==
  ASSUME Types, NEW c \in Clients, NEW new, thread' = [thread EXCEPT ![c] = new],
         thread[c].pc # "setpid", new.pc # "setpid"
  PROVE  \A f \in FrameIds, d \in Clients : Given(d, f)' <=> Given(d, f)
<1>1. thread'[c] = new /\ \A d \in Clients \ {c} : thread'[d] = thread[d]
  BY DEF Types
<1> QED BY <1>1 DEF Given

LEMMA InitIsSafe == Init => IInv
<1> SUFFICES ASSUME Init PROVE IInv
  OBVIOUS
<1> USE SizeFacts
<1> DEFINE n == Frames - Admin
<1>1. available \in Seq(FrameIds) /\ DOMAIN available = 1 .. n
      /\ \A i \in 1 .. n : available[i] = Admin + i - 1
  <2>1. available = [i \in 1 .. n |-> Admin + i - 1] /\ n \in Nat
    BY DEF Init
  <2>2. \A i \in 1 .. n : Admin + i - 1 \in FrameIds
    BY DEF FrameIds
  <2> HIDE DEF n
  <2>3. available \in Seq(FrameIds)
    BY <2>1, <2>2
  <2> QED BY <2>1, <2>3
<1>2. FrameTypes
  <2>1. table \in [FrameIds -> [pid : Pids \cup {-1, 0}, page : Nat]]
    <3>1. \A f \in FrameIds : f \in Nat
      BY DEF FrameIds
    <3>2. \A f \in FrameIds : table[f] \in [pid : Pids \cup {-1, 0}, page : Nat]
      BY <3>1 DEF Init
    <3> QED BY <3>2 DEF Init
  <2> QED BY <1>1, <2>1 DEF FrameTypes, Init
<1>3. CacheTypes
  <2>1. 0 \in 0 .. cacheXProc
    BY DEF Init
  <2>2. [pid |-> -1, page |-> -1, content |-> {}, writed |-> FALSE]
          \in [pid : Pids \cup {-1}, page : Nat \cup {-1}, content : SUBSET PageIds, writed : BOOLEAN]
    OBVIOUS
  <2> QED BY <2>1, <2>2 DEF CacheTypes, Init
<1>4. Types
  BY <1>2, <1>3, IdleIsThread DEF Types, Init
<1>5. ASSUME NEW c \in Clients PROVE Ready(c) /\ Locks(c)
  <2>1. thread[c] = Idle /\ mutex # c
    BY DEF Init
  <2> QED BY <2>1 DEF Init, Idle, Ready, Locks, Assigning, WithRecord
<1>6. ASSUME NEW f \in FrameIds PROVE OnePlace(f)
  <2>1. f \in Int
    BY DEF FrameIds
  <2>2. Held(f) <=> f < Admin
    BY <2>1 DEF Init, Held
  <2>3. Listed(f) <=> f >= Admin
    <3>1. f >= Admin => f - Admin + 1 \in 1 .. n /\ Admin + (f - Admin + 1) - 1 = f
      BY <2>1
    <3>2. Listed(f) <=> \E i \in 1 .. n : Admin + i - 1 = f
      BY <1>1 DEF Listed
    <3>3. \A i \in 1 .. n : Admin + i - 1 >= Admin
      OBVIOUS
    <3> QED BY <2>1, <3>1, <3>2, <3>3
  <2>4. \A i, j \in DOMAIN available : available[i] = f /\ available[j] = f => i = j
    BY <1>1
  <2>5. \A c \in Clients : ~Given(c, f)
    BY DEF Given, Init, Idle
  <2>6. f < Admin <=> table[f].pid = -1
    BY DEF Init
  <2> HIDE DEF Held, Listed, Given
  <2> QED BY <2>1, <2>2, <2>3, <2>4, <2>5, <2>6 DEF OnePlace
<1> QED BY <1>4, <1>5, <1>6 DEF IInv, FramesPlaced

-----------------------------------------------------------------------------
(* The requests *)

LEMMA RequestStep ==
  ASSUME IInv, NEW c \in Clients, NEW kind, NEW new \in Threads, Request(c, kind, new),
         new.pc \in {"check", "forget", "scan"}, new.pid \in Pids, new.left > 0 \/ new.pc # "check",
         new.entry = 0, new.record = 0, ~new.over, new.lru = -1
  PROVE  IInv'
<1>1. /\ thread[c].pc = "idle" /\ thread' = [thread EXCEPT ![c] = new]
      /\ UNCHANGED <<cacheXProc, table, available, pages, memory, cache, recent, entriesOf, writer,
                     readers, frameReaders, mutex, written, trouble>>
  BY DEF Request, At, Set, shared
<1>2. Types /\ FrameTypes /\ CacheTypes /\ FramesPlaced /\ Ready(c) /\ Locks(c)
  BY DEF IInv, Types
<1>3. FrameTypes' /\ CacheTypes'
  BY <1>1, <1>2, KeepFrames, KeepCache
<1>4. thread'[c] = new => Ready(c)' /\ Locks(c)'
  <2> SUFFICES ASSUME thread'[c] = new PROVE Ready(c)' /\ Locks(c)'
    OBVIOUS
  <2>1. Ready(c)'
    BY SizeFacts DEF Ready, Assigning, WithRecord
  <2>2. thread[c].lru = -1
    BY <1>1, <1>2 DEF Ready, Idle, Assigning, WithRecord
  <2>3. Locks(c)'
    BY <1>1, <1>2, <2>2, SizeFacts DEF Locks
  <2> QED BY <2>1, <2>3
<1>5. FramesPlaced'
  <2>1. \A f \in FrameIds, d \in Clients : Given(d, f)' <=> Given(d, f)
    BY <1>1, <1>2, GivenStay
  <2> QED BY <1>1, <1>2, <2>1, PlacedStay DEF Held
<1> QED BY <1>1, <1>2, <1>3, <1>4, <1>5, OneStep DEF Types

LEMMA AskStep ==
  ASSUME IInv, NEW c \in Clients, AskAssign(c) \/ AskEnd(c) \/ AskAccess(c)
  PROVE  IInv'
<1> USE SizeFacts
<1>1. ASSUME NEW p \in Pids, NEW n \in 1 .. MaxPages,
             Request(c, "assign", [Idle EXCEPT !.pc = "check", !.op = "assign", !.pid = p, !.left = n])
      PROVE  IInv'
  <2> DEFINE new == [Idle EXCEPT !.pc = "check", !.op = "assign", !.pid = p, !.left = n]
  <2>1. n \in Nat /\ n > 0
    BY SizeAssumption
  <2>2. /\ new \in Threads /\ new.pc = "check" /\ new.pid = p /\ new.left = n
        /\ new.entry = 0 /\ new.record = 0 /\ ~new.over /\ new.lru = -1
    BY <2>1, IdleIsThread DEF Threads, Idle, Pcs
  <2> HIDE DEF new
  <2> QED BY <1>1, <2>1, <2>2, RequestStep DEF new
<1>2. ASSUME NEW p \in Pids,
             Request(c, "end", [Idle EXCEPT !.pc = "forget", !.op = "end", !.pid = p])
      PROVE  IInv'
  <2> DEFINE new == [Idle EXCEPT !.pc = "forget", !.op = "end", !.pid = p]
  <2>2. /\ new \in Threads /\ new.pc = "forget" /\ new.pid = p
        /\ new.entry = 0 /\ new.record = 0 /\ ~new.over /\ new.lru = -1
    BY IdleIsThread DEF Threads, Idle, Pcs
  <2> HIDE DEF new
  <2> QED BY <1>2, <2>2, RequestStep DEF new
<1>3. ASSUME NEW op \in {"read", "write"}, NEW f \in FrameIds, table[f].pid \in Pids,
             Request(c, "access", [Idle EXCEPT !.pc = "scan", !.op = op,
                                     !.pid = table[f].pid, !.page = table[f].page])
      PROVE  IInv'
  <2> DEFINE new == [Idle EXCEPT !.pc = "scan", !.op = op,
                                 !.pid = table[f].pid, !.page = table[f].page]
  <2>1. table[f].page \in Nat
    BY DEF IInv, Types, FrameTypes
  <2>2. /\ new \in Threads /\ new.pc = "scan" /\ new.pid = table[f].pid
        /\ new.entry = 0 /\ new.record = 0 /\ ~new.over /\ new.lru = -1
    BY <1>3, <2>1, IdleIsThread DEF Threads, Idle, Pcs
  <2> HIDE DEF new
  <2> QED BY <1>3, <2>2, RequestStep DEF new
<1> QED BY <1>1, <1>2, <1>3 DEF AskAssign, AskEnd, AskAccess

\* A wild step changes nothing that the invariant speaks of.
LEMMA WildStep ==
  ASSUME IInv, Wild
  PROVE  IInv'
<1>1. /\ trouble' = trouble \cup {"wild"}
      /\ UNCHANGED <<cacheXProc, table, available, pages, memory, cache, recent, entriesOf, writer,
                     readers, frameReaders, mutex, thread, written>>
  BY DEF Wild, Note, shared
<1>2. Types'
  <2>1. FrameTypes' /\ CacheTypes'
    BY <1>1, KeepFrames, KeepCache DEF IInv, Types
  <2> QED BY <1>1, <2>1 DEF IInv, Types, Troubles
<1>3. ASSUME NEW d \in Clients PROVE Ready(d)' /\ Locks(d)'
  BY <1>1, OthersStay DEF IInv
<1>4. FramesPlaced'
  BY <1>1, PlacedStay DEF IInv, Held, Given
<1> QED BY <1>2, <1>3, <1>4 DEF IInv

-----------------------------------------------------------------------------
(* The frames *)

\* A step of a request for pages before it takes a frame: it changes at most the
\* records of the processes.
LEMMA AssignStep ==
  ASSUME IInv, NEW c \in Clients, NEW new \in Threads,
         thread' = [thread EXCEPT ![c] = new],
         thread[c].pc \in Assigning \ {"setpid", "setpage"},
         \/ new = Idle
         \/ /\ new.pc \in Assigning \ {"setpid", "setpage"}
            /\ new.pid = thread[c].pid /\ new.left = thread[c].left
            /\ new.lru = -1 /\ new.over = thread[c].over,
         pages' \in [Pids -> Seq(Nat)], PagesGrow,
         new.record > 0 => /\ new.pc \in WithRecord /\ new.record <= Len(pages'[new.pid])
                           /\ new.pc = "number" => pages'[new.pid][new.record] > 0,
         trouble' = trouble \/ trouble' = trouble \cup {"crossed"},
         UNCHANGED <<cacheXProc, table, available, memory, cache, entriesOf,
                     writer, readers, frameReaders, mutex, written>>
  PROVE  IInv'
<1> USE SizeFacts
<1>1. Types /\ FrameTypes /\ CacheTypes /\ FramesPlaced /\ Ready(c) /\ Locks(c) /\ thread[c] \in Threads
  BY DEF IInv, Types
<1>2. thread[c].pid \in Pids /\ thread[c].lru = -1 /\ thread[c].left > 0
  BY <1>1 DEF Ready, Assigning, WithRecord
<1>3. new.pc \in {"idle"} \cup (Assigning \ {"setpid", "setpage"}) /\ new.lru = -1
  BY DEF Idle
<1>4. FrameTypes' /\ CacheTypes'
  BY <1>1, KeepCache DEF FrameTypes
<1>5. thread'[c] = new => Ready(c)' /\ Locks(c)'
  <2> SUFFICES ASSUME thread'[c] = new PROVE Ready(c)' /\ Locks(c)'
    OBVIOUS
  <2>1. Ready(c)'
    <3>1. CASE new = Idle
      BY <3>1 DEF Ready, Idle, Assigning, WithRecord
    <3>2. CASE new # Idle
      BY <1>1, <1>2, <3>2 DEF Ready, Assigning, WithRecord
    <3> QED BY <3>1, <3>2
  <2>2. Locks(c)'
    BY <1>1, <1>2, <1>3 DEF Locks, Assigning, WithRecord
  <2> QED BY <2>1, <2>2
<1>6. FramesPlaced'
  <2>1. thread[c].pc # "setpid" /\ new.pc # "setpid"
    BY <1>3
  <2>2. \A f \in FrameIds, d \in Clients : Given(d, f)' <=> Given(d, f)
    BY <1>1, <2>1, GivenStay
  <2> QED BY <1>1, <2>2, PlacedStay DEF Held
<1> QED BY <1>1, <1>4, <1>5, <1>6, OneStep DEF Types, Troubles

LEMMA PagesStay ==
  ASSUME pages' = pages, pages \in [Pids -> Seq(Nat)]
  PROVE  PagesGrow
BY LenProperties DEF PagesGrow

LEMMA CheckStep ==
  ASSUME IInv, NEW c \in Clients, CheckAvailable(c) \/ SearchProcess(c)
  PROVE  IInv'
<1> DEFINE t == thread[c]
           searching == [t EXCEPT !.pc = "search"]
           creating == [t EXCEPT !.pc = "create"]
           taking == [t EXCEPT !.pc = "take", !.record = 1]
<1>1. /\ t \in Threads /\ Ready(c) /\ pages \in [Pids -> Seq(Nat)] /\ PagesGrow
      /\ t.pc \in {"check", "search"}
      /\ UNCHANGED <<cacheXProc, table, available, pages, memory, cache, entriesOf,
                     writer, readers, frameReaders, mutex, written, trouble>>
  BY PagesStay DEF CheckAvailable, SearchProcess, At, shared, IInv, Types, FrameTypes
<1>2. t.pid \in Pids /\ t.lru = -1 /\ t.record = 0
  BY <1>1 DEF Ready, Threads, WithRecord
<1>3. /\ searching \in Threads /\ searching.pc = "search" /\ searching.pid = t.pid
      /\ searching.left = t.left /\ searching.lru = -1 /\ searching.over = t.over
      /\ searching.record = t.record
  <2> HIDE DEF t
  <2> QED BY <1>1, <1>2 DEF Threads, Pcs
<1>4. /\ creating \in Threads /\ creating.pc = "create" /\ creating.pid = t.pid
      /\ creating.left = t.left /\ creating.lru = -1 /\ creating.over = t.over
      /\ creating.record = t.record
  <2> HIDE DEF t
  <2> QED BY <1>1, <1>2 DEF Threads, Pcs
<1>5. /\ taking \in Threads /\ taking.pc = "take" /\ taking.pid = t.pid
      /\ taking.left = t.left /\ taking.lru = -1 /\ taking.over = t.over
      /\ taking.record = 1
  <2> HIDE DEF t
  <2>1. "take" \in Pcs /\ t \in Threads
    BY <1>1 DEF Pcs
  <2>2. taking \in Threads
    BY ONLY <2>1 DEF Threads
  <2>3. /\ taking.pc = "take" /\ taking.pid = t.pid /\ taking.left = t.left
        /\ taking.lru = t.lru /\ taking.over = t.over /\ taking.record = 1
    BY ONLY <2>1 DEF Threads
  <2> QED BY ONLY <1>2, <2>2, <2>3
<1>6. pages[t.pid] # <<>> => taking.record <= Len(pages'[taking.pid])
  <2>1. pages[t.pid] \in Seq(Nat) /\ Len(pages[t.pid]) \in Nat
    BY <1>1, <1>2, LenProperties
  <2>2. pages[t.pid] # <<>> => Len(pages[t.pid]) # 0
    BY <2>1, EmptySeq
  <2> HIDE DEF taking
  <2> QED BY <1>1, <1>5, <2>1, <2>2
<1>7. \/ thread' = [thread EXCEPT ![c] = Idle]
      \/ thread' = [thread EXCEPT ![c] = searching]
      \/ thread' = [thread EXCEPT ![c] = creating]
      \/ pages[t.pid] # <<>> /\ thread' = [thread EXCEPT ![c] = taking]
  <2>1. CASE CheckAvailable(c)
    BY <2>1 DEF CheckAvailable, GoTo, Finish, Set
  <2>2. CASE SearchProcess(c)
    BY <2>2 DEF SearchProcess, GoTo, Set
  <2> QED BY <2>1, <2>2
<1>8. /\ t.pc \in Assigning \ {"setpid", "setpage"}
      /\ {"search", "create", "take"} \subseteq Assigning \ {"setpid", "setpage"}
      /\ "take" \in WithRecord
  BY <1>1 DEF Assigning, WithRecord
<1> HIDE DEF searching, creating, taking
<1>9. CASE thread' = [thread EXCEPT ![c] = Idle]
  <2>1. Idle \in Threads /\ ~(Idle.record > 0)
    BY IdleIsThread DEF Idle
  <2> QED BY <1>1, <1>8, <1>9, <2>1, AssignStep
<1>10. CASE thread' = [thread EXCEPT ![c] = searching]
  <2>1. ~(searching.record > 0)
    BY <1>2, <1>3
  <2> QED BY <1>1, <1>3, <1>8, <1>10, <2>1, AssignStep
<1>11. CASE thread' = [thread EXCEPT ![c] = creating]
  <2>1. ~(creating.record > 0)
    BY <1>2, <1>4
  <2> QED BY <1>1, <1>4, <1>8, <1>11, <2>1, AssignStep
<1>12. CASE pages[t.pid] # <<>> /\ thread' = [thread EXCEPT ![c] = taking]
  <2>1. taking.pc \in WithRecord /\ taking.pc # "number"
    BY <1>5, <1>8
  <2> QED BY <1>1, <1>5, <1>6, <1>8, <1>12, <2>1, AssignStep
<1> QED BY <1>7, <1>9, <1>10, <1>11, <1>12

\* A record is added after those there are.
LEMMA CreateStep ==
  ASSUME IInv, NEW c \in Clients, CreateProcess(c)
  PROVE  IInv'
<1> DEFINE t == thread[c]
           records == pages[t.pid]
           new == [t EXCEPT !.pc = "take", !.record = Len(records) + 1]
<1>1. /\ t.pc = "create" /\ thread' = [thread EXCEPT ![c] = new]
      /\ pages' = [pages EXCEPT ![t.pid] = Append(records, 0)]
      /\ trouble' = trouble \/ trouble' = trouble \cup {"crossed"}
      /\ UNCHANGED <<cacheXProc, table, available, memory, cache, entriesOf,
                     writer, readers, frameReaders, mutex, written>>
  BY DEF CreateProcess, At, Set, NoteIf
<1>2. t \in Threads /\ Ready(c) /\ pages \in [Pids -> Seq(Nat)]
  BY DEF IInv, Types, FrameTypes
<1>3. t.pid \in Pids /\ t.lru = -1 /\ records \in Seq(Nat)
  BY <1>1, <1>2 DEF Ready, Assigning, WithRecord
<1>4. /\ Append(records, 0) \in Seq(Nat) /\ Len(records) \in Nat
      /\ Len(Append(records, 0)) = Len(records) + 1
      /\ \A i \in 1 .. Len(records) : Append(records, 0)[i] = records[i]
  BY <1>3, AppendProperties, LenProperties
<1>5. /\ new \in Threads /\ new.pc = "take" /\ new.pid = t.pid /\ new.left = t.left /\ new.lru = -1
      /\ new.over = t.over /\ new.record = Len(records) + 1
  <2> HIDE DEF t, records
  <2>1. Len(records) + 1 \in Nat
    BY <1>4
  <2> QED BY <1>2, <1>3, <2>1 DEF Threads, Pcs
<1> HIDE DEF new
<1>6. pages' \in [Pids -> Seq(Nat)] /\ pages'[t.pid] = Append(records, 0)
      /\ \A p \in Pids : p # t.pid => pages'[p] = pages[p]
  BY <1>1, <1>2, <1>3, <1>4
<1>7. PagesGrow
  <2> SUFFICES ASSUME NEW p \in Pids
               PROVE  /\ Len(pages'[p]) >= Len(pages[p])
                      /\ \A i \in 1 .. Len(pages[p]) : pages[p][i] > 0 => pages'[p][i] > 0
    BY DEF PagesGrow
  <2> HIDE DEF records
  <2>1. CASE p = t.pid
    <3>1. pages'[p] = Append(records, 0) /\ pages[p] = records
      BY <1>6, <2>1 DEF records
    <3> QED BY <1>4, <3>1
  <2>2. CASE p # t.pid
    BY <1>2, <1>6, <2>2, LenProperties
  <2> QED BY <2>1, <2>2
<1>8. t.pc \in Assigning \ {"setpid", "setpage"} /\ new.pc \in Assigning \ {"setpid", "setpage"}
      /\ new.pc \in WithRecord /\ new.record <= Len(pages'[new.pid])
  BY <1>1, <1>4, <1>5, <1>6 DEF Assigning, WithRecord
<1> QED BY <1>1, <1>5, <1>6, <1>7, <1>8, AssignStep

\* The three steps that number a page: the count is loaded, stored, and read again.
LEMMA NumberStep ==
  ASSUME IInv, NEW c \in Clients, LoadCount(c) \/ StoreCount(c) \/ ReadCount(c)
  PROVE  IInv'
<1> DEFINE t == thread[c]
           count == pages[t.pid][t.record]
           loading == [t EXCEPT !.pc = "store", !.page = count]
           storing == [t EXCEPT !.pc = "number"]
           reading == [t EXCEPT !.pc = "frame", !.page = count - 1]
<1>1. /\ t.pc \in {"take", "store", "number"} /\ t.record > 0
      /\ trouble' = trouble \/ trouble' = trouble \cup {"crossed"}
      /\ UNCHANGED <<cacheXProc, table, available, memory, cache, entriesOf,
                     writer, readers, frameReaders, mutex, written>>
  BY DEF LoadCount, StoreCount, ReadCount, At, HasRecord, NoteIf, shared
<1>2. t \in Threads /\ Ready(c) /\ pages \in [Pids -> Seq(Nat)]
  BY DEF IInv, Types, FrameTypes
<1>3. /\ t.pid \in Pids /\ t.lru = -1 /\ pages[t.pid] \in Seq(Nat) /\ Len(pages[t.pid]) \in Nat
      /\ t.record \in 1 .. Len(pages[t.pid]) /\ count \in Nat /\ t.page \in Nat
      /\ t.pc = "number" => count > 0
  <2>1. t.pid \in Pids /\ t.lru = -1 /\ t.record <= Len(pages[t.pid]) /\ t.record \in Nat /\ t.page \in Nat
    BY <1>1, <1>2 DEF Ready, Threads, Assigning, WithRecord
  <2>2. t.pc = "number" => count > 0
    BY <1>1, <1>2 DEF Ready, Assigning, WithRecord
  <2>3. pages[t.pid] \in Seq(Nat) /\ Len(pages[t.pid]) \in Nat
    BY <1>2, <2>1, LenProperties
  <2>4. t.record \in 1 .. Len(pages[t.pid])
    BY <1>1, <2>1, <2>3
  <2> QED BY <2>1, <2>2, <2>3, <2>4, ElementOfSeq
<1>4. t.pc \in Assigning \ {"setpid", "setpage"}
      /\ {"store", "number", "frame"} \subseteq (Assigning \ {"setpid", "setpage"}) \cap WithRecord
  BY <1>1 DEF Assigning, WithRecord
<1>5. /\ loading \in Threads /\ loading.pc = "store" /\ loading.pid = t.pid /\ loading.left = t.left
      /\ loading.lru = -1 /\ loading.over = t.over /\ loading.record = t.record
  BY <1>2, <1>3 DEF Threads, Pcs
<1>6. /\ storing \in Threads /\ storing.pc = "number" /\ storing.pid = t.pid /\ storing.left = t.left
      /\ storing.lru = -1 /\ storing.over = t.over /\ storing.record = t.record
  BY <1>2, <1>3 DEF Threads, Pcs
<1>7. t.pc = "number" =>
      /\ reading \in Threads /\ reading.pc = "frame" /\ reading.pid = t.pid /\ reading.left = t.left
      /\ reading.lru = -1 /\ reading.over = t.over /\ reading.record = t.record
  <2>1. t.pc = "number" => count - 1 \in Nat
    BY <1>3
  <2> HIDE DEF count, t
  <2> QED BY <1>2, <1>3, <2>1 DEF Threads, Pcs
<1> HIDE DEF loading, storing, reading
<1>8. CASE LoadCount(c)
  <2>1. thread' = [thread EXCEPT ![c] = loading] /\ pages' = pages
    BY <1>8 DEF LoadCount, Set, PagesCount, shared, loading
  <2>2. loading.record <= Len(pages'[loading.pid]) /\ loading.pc # "number" /\ PagesGrow
    BY <1>2, <1>3, <1>5, <2>1, PagesStay
  <2> QED BY <1>1, <1>2, <1>4, <1>5, <2>1, <2>2, AssignStep
<1>9. CASE ReadCount(c)
  <2>1. thread' = [thread EXCEPT ![c] = reading] /\ pages' = pages /\ t.pc = "number"
    BY <1>9 DEF ReadCount, Set, PagesCount, shared, reading, At
  <2>2. reading.record <= Len(pages'[reading.pid]) /\ reading.pc # "number" /\ PagesGrow
    BY <1>2, <1>3, <1>7, <2>1, PagesStay
  <2> QED BY <1>1, <1>2, <1>4, <1>7, <2>1, <2>2, AssignStep
<1>10. CASE StoreCount(c)
  <2> DEFINE records == [pages[t.pid] EXCEPT ![t.record] = t.page + 1]
  <2>1. thread' = [thread EXCEPT ![c] = storing] /\ pages' = [pages EXCEPT ![t.pid] = records]
    BY <1>2, <1>3, <1>10 DEF StoreCount, Set, GoTo, storing
  <2>2. /\ records \in Seq(Nat) /\ Len(records) = Len(pages[t.pid])
        /\ records[t.record] = t.page + 1
        /\ \A i \in 1 .. Len(pages[t.pid]) : i # t.record => records[i] = pages[t.pid][i]
    BY <1>3, ExceptSeq
  <2> HIDE DEF records
  <2>3. /\ pages' \in [Pids -> Seq(Nat)] /\ pages'[t.pid] = records
        /\ \A p \in Pids : p # t.pid => pages'[p] = pages[p]
    BY <1>2, <1>3, <2>1, <2>2
  <2>4. PagesGrow
    <3> SUFFICES ASSUME NEW p \in Pids
                 PROVE  /\ Len(pages'[p]) >= Len(pages[p])
                        /\ \A i \in 1 .. Len(pages[p]) : pages[p][i] > 0 => pages'[p][i] > 0
      BY DEF PagesGrow
    <3>1. CASE p = t.pid
      <4>1. pages'[p] = records /\ pages[p] = pages[t.pid] /\ t.page + 1 > 0
        BY <1>3, <2>3, <3>1
      <4>2. ASSUME NEW i \in 1 .. Len(pages[p]), pages[p][i] > 0 PROVE pages'[p][i] > 0
        BY <2>2, <3>1, <4>1, <4>2
      <4> QED BY <1>3, <2>2, <4>1, <4>2
    <3>2. CASE p # t.pid
      BY <1>2, <2>3, <3>2, LenProperties
    <3> QED BY <3>1, <3>2
  <2>5. pages'[t.pid][t.record] > 0 /\ t.record <= Len(pages'[t.pid])
    BY <1>3, <2>2, <2>3
  <2> QED BY <1>1, <1>4, <1>6, <2>1, <2>3, <2>4, <2>5, AssignStep
<1> QED BY <1>8, <1>9, <1>10

\* A frame taken from the list goes to the thread.
LEMMA TakeStep ==
  ASSUME IInv, NEW c \in Clients, TakeFrame(c)
  PROVE  IInv'
<1> USE SizeFacts
<1> DEFINE t == thread[c]
           empty == available = <<>>
           new == [t EXCEPT !.pc = "setpid", !.frame = IF empty THEN 0 ELSE Head(available)]
<1>1. /\ t.pc = "frame"
      /\ available' = IF empty THEN available ELSE Tail(available)
      /\ thread' = [thread EXCEPT ![c] = new]
      /\ trouble' = trouble \cup (IF empty THEN {"taken"} ELSE {})
      /\ UNCHANGED <<cacheXProc, table, pages, memory, cache, recent, entriesOf, writer, readers,
                     frameReaders, mutex, asked, written>>
  BY DEF TakeFrame, At, Set, NoteIf
<1>2. Types /\ FrameTypes /\ CacheTypes /\ FramesPlaced /\ Ready(c) /\ Locks(c) /\ t \in Threads
  BY DEF IInv, Types
<1>3. t.pid \in Pids /\ t.lru = -1 /\ t.left > 0
  BY <1>1, <1>2 DEF Ready, FrameTypes, Assigning, WithRecord
<1>4. /\ ~empty => Head(available) \in FrameIds /\ Tail(available) \in Seq(FrameIds)
      /\ available' \in Seq(FrameIds)
  BY <1>1, <1>2, HeadTailProperties DEF FrameTypes
<1>5. /\ new \in Threads /\ new.pc = "setpid" /\ new.frame \in FrameIds /\ new.pid = t.pid
      /\ new.left = t.left /\ new.lru = -1 /\ new.over = t.over /\ new.record = t.record
      /\ ~empty => new.frame = Head(available)
  BY <1>2, <1>3, <1>4 DEF Threads, Pcs
<1> HIDE DEF new
<1>6. PagesGrow
  BY <1>1, <1>2, PagesStay DEF FrameTypes
<1>7. FrameTypes' /\ CacheTypes'
  BY <1>1, <1>2, <1>4, <1>6, KeepCache DEF FrameTypes
<1>8. thread'[c] = new => Ready(c)' /\ Locks(c)'
  <2> SUFFICES ASSUME thread'[c] = new PROVE Ready(c)' /\ Locks(c)'
    OBVIOUS
  <2>1. Ready(c)'
    BY <1>1, <1>2, <1>3, <1>5 DEF Ready, Assigning, WithRecord
  <2>2. Locks(c)'
    BY <1>1, <1>2, <1>3, <1>5 DEF Locks
  <2> QED BY <2>1, <2>2
<1>9. FramesPlaced'
  <2> SUFFICES ASSUME trouble' \cap {"taken", "twice"} = {}, NEW f \in FrameIds
               PROVE  OnePlace(f)'
    BY DEF FramesPlaced
  <2>1. ~empty /\ OnePlace(f) /\ OnePlace(Head(available))
    BY <1>1, <1>2, <1>4 DEF FramesPlaced
  <2>2. /\ Len(available) \in Nat /\ Len(available) > 0 /\ DOMAIN available = 1 .. Len(available)
        /\ Head(available) = available[1]
        /\ DOMAIN available' = 1 .. Len(available) - 1
        /\ \A i \in 1 .. Len(available) - 1 : available'[i] = available[i + 1]
    BY <1>1, <1>2, <2>1, HeadTailProperties, LenProperties DEF FrameTypes
  <2>3. thread'[c] = new /\ \A d \in Clients \ {c} : thread'[d] = thread[d]
    BY <1>1, <1>2 DEF Types
  <2>4. (Held(f)' <=> Held(f)) /\ (table'[f].pid = -1 <=> table[f].pid = -1)
    BY <1>1 DEF Held
  <2>5. \A d \in Clients : Given(d, f)' <=> Given(d, f) \/ (d = c /\ f = Head(available))
    BY <1>1, <1>5, <2>1, <2>3 DEF Given
  <2>6. \A i, j \in DOMAIN available' : available'[i] = f /\ available'[j] = f => i = j
    <3>1. SUFFICES ASSUME NEW i \in DOMAIN available', NEW j \in DOMAIN available',
                          available'[i] = f, available'[j] = f
                   PROVE  i = j
      OBVIOUS
    <3>2. i + 1 \in DOMAIN available /\ j + 1 \in DOMAIN available
      BY <2>2
    <3>3. i + 1 = j + 1
      BY <2>1, <2>2, <3>1, <3>2 DEF OnePlace
    <3> QED BY <2>2, <3>3
  <2>7. Listed(f)' <=> Listed(f) /\ f # Head(available)
    <3>1. Listed(f)' => Listed(f) /\ f # Head(available)
      <4> SUFFICES ASSUME NEW i \in DOMAIN available', available'[i] = f
                   PROVE  Listed(f) /\ f # Head(available)
        BY DEF Listed
      <4>1. i + 1 \in DOMAIN available /\ available[i + 1] = f /\ 1 \in DOMAIN available
        BY <2>2
      <4>2. f # available[1]
        BY <2>1, <2>2, <4>1 DEF OnePlace
      <4> QED BY <2>2, <4>1, <4>2 DEF Listed
    <3>2. Listed(f) /\ f # Head(available) => Listed(f)'
      <4> SUFFICES ASSUME NEW i \in DOMAIN available, available[i] = f, f # Head(available)
                   PROVE  Listed(f)'
        BY DEF Listed
      <4>1. i # 1 /\ i - 1 \in DOMAIN available' /\ available'[i - 1] = f
        BY <2>2
      <4> QED BY <4>1 DEF Listed
    <3> QED BY <3>1, <3>2
  <2>8. Listed(Head(available))
    BY <2>2 DEF Listed
  <2> HIDE DEF Held, Given, Listed
  <2>9. CASE f = Head(available)
    BY <2>1, <2>4, <2>5, <2>6, <2>7, <2>8, <2>9 DEF OnePlace
  <2>10. CASE f # Head(available)
    BY <2>1, <2>4, <2>5, <2>6, <2>7, <2>10 DEF OnePlace
  <2> QED BY <2>9, <2>10
<1> QED BY <1>1, <1>2, <1>5, <1>6, <1>7, <1>8, <1>9, OneStep DEF Types, Troubles

\* The frame of the thread becomes one of its process.
LEMMA SetPidStep ==
  ASSUME IInv, NEW c \in Clients, SetPid(c)
  PROVE  IInv'
<1> USE SizeFacts
<1> DEFINE t == thread[c]
           g == t.frame
           new == [t EXCEPT !.pc = "setpage"]
<1>1. /\ t.pc = "setpid"
      /\ table' = [table EXCEPT ![g].pid = t.pid]
      /\ thread' = [thread EXCEPT ![c] = new]
      /\ UNCHANGED <<cacheXProc, available, pages, memory, cache, recent, entriesOf, writer,
                     readers, frameReaders, mutex, asked, written, trouble>>
  BY DEF SetPid, At, Set, GoTo
<1>2. Types /\ FrameTypes /\ CacheTypes /\ FramesPlaced /\ Ready(c) /\ Locks(c) /\ t \in Threads
  BY DEF IInv, Types
<1>3. t.pid \in Pids /\ t.lru = -1 /\ g \in FrameIds
  BY <1>1, <1>2 DEF Ready, Assigning, WithRecord
<1>4. /\ new \in Threads /\ new.pc = "setpage" /\ new.pid = t.pid /\ new.frame = g
      /\ new.left = t.left /\ new.lru = -1 /\ new.over = t.over /\ new.record = t.record
  BY <1>2, <1>3 DEF Threads, Pcs
<1> HIDE DEF new
<1>5. /\ table' \in [FrameIds -> [pid : Pids \cup {-1, 0}, page : Nat]]
      /\ table'[g].pid = t.pid /\ \A f \in FrameIds \ {g} : table'[f] = table[f]
  <2>1. table[g] \in [pid : Pids \cup {-1, 0}, page : Nat] /\ table \in [FrameIds -> [pid : Pids \cup {-1, 0}, page : Nat]]
    BY <1>2, <1>3 DEF FrameTypes
  <2>2. table' = [table EXCEPT ![g] = [table[g] EXCEPT !.pid = t.pid]]
    BY <1>1, <1>3, <2>1
  <2>3. /\ [table[g] EXCEPT !.pid = t.pid] \in [pid : Pids \cup {-1, 0}, page : Nat]
        /\ [table[g] EXCEPT !.pid = t.pid].pid = t.pid
    BY <1>3, <2>1
  <2> HIDE DEF t, g
  <2> QED BY <1>3, <2>1, <2>2, <2>3
<1>6. FrameTypes' /\ CacheTypes'
  BY <1>1, <1>2, <1>5, KeepCache DEF FrameTypes
<1>7. thread'[c] = new => Ready(c)' /\ Locks(c)'
  <2> SUFFICES ASSUME thread'[c] = new PROVE Ready(c)' /\ Locks(c)'
    OBVIOUS
  <2>1. Ready(c)'
    BY <1>1, <1>2, <1>3, <1>4 DEF Ready, Assigning, WithRecord
  <2>2. Locks(c)'
    BY <1>1, <1>2, <1>3, <1>4 DEF Locks
  <2> QED BY <2>1, <2>2
<1>8. FramesPlaced'
  <2> SUFFICES ASSUME trouble' \cap {"taken", "twice"} = {}, NEW f \in FrameIds
               PROVE  OnePlace(f)'
    BY DEF FramesPlaced
  <2>1. OnePlace(f)
    BY <1>1, <1>2 DEF FramesPlaced
  <2>2. thread'[c] = new /\ \A d \in Clients \ {c} : thread'[d] = thread[d]
    BY <1>1, <1>2 DEF Types
  <2>3. (Held(f)' <=> Held(f) \/ f = g) /\ (Listed(f)' <=> Listed(f))
    BY <1>1, <1>3, <1>5 DEF Held, Listed
  <2>4. \A d \in Clients : Given(d, f)' <=> Given(d, f) /\ d # c
    BY <1>4, <2>2 DEF Given
  <2>5. Given(c, f) <=> f = g
    BY <1>1 DEF Given
  <2>6. f < Admin <=> table'[f].pid = -1
    <3>1. CASE f = g
      <4>1. table[f].pid # -1
        BY <2>1, <2>5, <3>1 DEF OnePlace, Held
      <4> QED BY <1>3, <1>5, <2>1, <3>1, <4>1 DEF OnePlace
    <3>2. CASE f # g
      BY <1>5, <2>1, <3>2 DEF OnePlace
    <3> QED BY <3>1, <3>2
  <2>7. available' = available
    BY <1>1
  <2> HIDE DEF Held, Given, Listed, g
  <2> QED BY <2>1, <2>3, <2>4, <2>5, <2>6, <2>7 DEF OnePlace
<1> QED BY <1>1, <1>2, <1>4, <1>6, <1>7, <1>8, OneStep DEF Types

LEMMA SetPageStep ==
  ASSUME IInv, NEW c \in Clients, SetPage(c)
  PROVE  IInv'
<1> USE SizeFacts
<1> DEFINE t == thread[c]
           g == t.frame
           next == [t EXCEPT !.pc = "take", !.left = @ - 1, !.page = 0, !.frame = None]
           new == IF t.left = 1 THEN Idle ELSE next
<1>1. /\ t.pc = "setpage"
      /\ table' = [table EXCEPT ![g].page = t.page]
      /\ thread' = [thread EXCEPT ![c] = new]
      /\ UNCHANGED <<cacheXProc, available, pages, memory, cache, recent, entriesOf, writer,
                     readers, frameReaders, mutex, asked, written, trouble>>
  BY DEF SetPage, At, Set, Finish
<1>2. Types /\ FrameTypes /\ CacheTypes /\ FramesPlaced /\ Ready(c) /\ Locks(c) /\ t \in Threads
  BY DEF IInv, Types
<1>3. t.pid \in Pids /\ t.lru = -1 /\ g \in FrameIds /\ t.left \in Nat /\ t.left > 0 /\ t.page \in Nat
  BY <1>1, <1>2 DEF Ready, Threads, Assigning, WithRecord
<1>4. t.left # 1 =>
        /\ next \in Threads /\ next.pc = "take" /\ next.pid = t.pid
        /\ next.left = t.left - 1 /\ next.lru = -1 /\ next.over = t.over /\ next.record = t.record
  <2>1. t.left # 1 => t.left - 1 \in Nat /\ t.left - 1 > 0
    BY <1>3
  <2>2. next = [t EXCEPT !.pc = "take", !.left = t.left - 1, !.page = 0, !.frame = None]
    BY <1>2 DEF Threads
  <2> HIDE DEF next, g
  <2> QED BY <1>2, <1>3, <2>1, <2>2 DEF Threads, Pcs
<1> HIDE DEF next
<1>5. new \in Threads /\ new.pc \in {"idle", "take"} /\ new.lru = -1
  BY <1>4, IdleIsThread DEF Idle
<1>6. /\ table' \in [FrameIds -> [pid : Pids \cup {-1, 0}, page : Nat]]
      /\ \A f \in FrameIds : table'[f].pid = table[f].pid
  <2>1. table[g] \in [pid : Pids \cup {-1, 0}, page : Nat] /\ table \in [FrameIds -> [pid : Pids \cup {-1, 0}, page : Nat]]
    BY <1>2, <1>3 DEF FrameTypes
  <2>2. table' = [table EXCEPT ![g] = [table[g] EXCEPT !.page = t.page]]
    BY <1>1, <1>3, <2>1
  <2>3. /\ [table[g] EXCEPT !.page = t.page] \in [pid : Pids \cup {-1, 0}, page : Nat]
        /\ [table[g] EXCEPT !.page = t.page].pid = table[g].pid
    BY <1>3, <2>1
  <2> HIDE DEF t, g
  <2> QED BY <1>3, <2>1, <2>2, <2>3
<1>7. FrameTypes' /\ CacheTypes'
  BY <1>1, <1>2, <1>6, KeepCache DEF FrameTypes
<1>8. thread'[c] = new => Ready(c)' /\ Locks(c)'
  <2> SUFFICES ASSUME thread'[c] = new PROVE Ready(c)' /\ Locks(c)'
    OBVIOUS
  <2>1. Ready(c)'
    <3>1. CASE t.left = 1
      <4>1. thread'[c] = Idle
        BY <3>1
      <4> HIDE DEF new, t, g
      <4> QED BY <4>1 DEF Ready, Idle, Assigning, WithRecord
    <3>2. CASE t.left # 1
      <4>1. thread'[c] = next /\ next.left > 0
        BY <1>3, <1>4, <3>2
      <4> HIDE DEF new
      <4> QED BY <1>1, <1>2, <1>3, <1>4, <3>2, <4>1 DEF Ready, Assigning, WithRecord
    <3> QED BY <3>1, <3>2
  <2> HIDE DEF new
  <2>3. Locks(c)'
    BY <1>1, <1>2, <1>3, <1>5 DEF Locks
  <2> QED BY <2>1, <2>3
<1> HIDE DEF new
<1>9. FramesPlaced'
  <2>1. \A f \in FrameIds, d \in Clients : Given(d, f)' <=> Given(d, f)
    BY <1>1, <1>2, <1>5, GivenStay
  <2>2. \A f \in FrameIds : Held(f)' <=> Held(f)
    BY <1>6 DEF Held
  <2> QED BY <1>1, <1>2, <1>6, <2>1, <2>2, PlacedStay
<1> QED BY <1>1, <1>2, <1>5, <1>7, <1>8, <1>9, OneStep DEF Types

\* The record of the process is lost to every thread that had it.
LEMMA ForgetStep ==
  ASSUME IInv, NEW c \in Clients, ForgetProcess(c)
  PROVE  IInv'
<1> USE SizeFacts
<1> DEFINE t == thread[c]
           new == [t EXCEPT !.pc = "clean", !.frame = 0]
<1>1. /\ t.pc = "forget"
      /\ pages' = [pages EXCEPT ![t.pid] = SubSeq(pages[t.pid], 2, Len(pages[t.pid]))]
      /\ thread' = [d \in Clients |->
           IF d = c THEN new
           ELSE IF thread[d].pid = t.pid /\ thread[d].record > 0
           THEN [thread[d] EXCEPT !.record = thread[d].record - 1]
           ELSE thread[d]]
      /\ trouble' = trouble \cup {"ended"}
      /\ UNCHANGED <<cacheXProc, table, available, memory, cache, recent, entriesOf, writer,
                     readers, frameReaders, mutex, asked, written>>
  BY DEF ForgetProcess, At, Note, HasRecord
<1>2. Types /\ FrameTypes /\ CacheTypes /\ FramesPlaced /\ t \in Threads
      /\ \A d \in Clients : Ready(d) /\ Locks(d) /\ thread[d] \in Threads
  BY DEF IInv, Types
<1>3. t.pid \in Pids /\ t.lru = -1 /\ t.record = 0
  <2>1. t.record \in Nat
    BY ONLY <1>2 DEF Threads
  <2>2. /\ t.pc # "idle" => t.pid \in Pids
        /\ t.record > 0 => t.pc \in WithRecord
        /\ t.lru # -1 => t.pc = "pick"
    BY ONLY <1>2, c \in Clients DEF Ready
  <2>3. t.pc \notin WithRecord /\ t.pc # "idle" /\ t.pc # "pick"
    BY ONLY <1>1 DEF WithRecord
  <2> QED BY ONLY <2>1, <2>2, <2>3
<1>4. /\ new \in Threads /\ new.pc = "clean" /\ new.pid = t.pid /\ new.frame = 0
      /\ new.lru = -1 /\ new.over = t.over /\ new.record = 0
  <2>1. t \in Threads /\ 0 \in FrameIds
    BY <1>2
  <2>2. "clean" \in Pcs
    BY ONLY TRUE DEF Pcs
  <2> DEFINE cleaning == [t EXCEPT !.pc = "clean"]
  <2>3. cleaning \in Threads
    BY ONLY <2>1, <2>2 DEF Threads
  <2>4. /\ cleaning.pc = "clean" /\ cleaning.pid = t.pid /\ cleaning.lru = t.lru
        /\ cleaning.over = t.over /\ cleaning.record = t.record
    BY ONLY <2>1 DEF Threads
  <2>5. new = [cleaning EXCEPT !.frame = 0]
    BY ONLY <2>1 DEF Threads
  <2> HIDE DEF cleaning, new
  <2>6. new \in Threads
    BY ONLY <2>1, <2>3, <2>5 DEF Threads
  <2>7. /\ new.pc = cleaning.pc /\ new.pid = cleaning.pid /\ new.frame = 0
        /\ new.lru = cleaning.lru /\ new.over = cleaning.over /\ new.record = cleaning.record
    BY ONLY <2>3, <2>5 DEF Threads
  <2> QED BY ONLY <1>3, <2>4, <2>6, <2>7
<1>5. thread'[c] = new
  BY <1>1
<1> HIDE DEF new
<1>6. /\ pages' \in [Pids -> Seq(Nat)]
      /\ \A p \in Pids : p # t.pid => pages'[p] = pages[p]
      /\ \A i \in 1 .. Len(pages[t.pid]) : i > 1 =>
           i - 1 <= Len(pages'[t.pid]) /\ pages'[t.pid][i - 1] = pages[t.pid][i]
  <2> DEFINE n == Len(pages[t.pid])
             rest == SubSeq(pages[t.pid], 2, n)
  <2>1. pages \in [Pids -> Seq(Nat)] /\ pages[t.pid] \in Seq(Nat) /\ n \in Nat
    BY <1>2, <1>3, LenProperties DEF FrameTypes
  <2>2. \A i \in 2 .. n : pages[t.pid][i] \in Nat
    BY <2>1, ElementOfSeq
  <2>3. /\ rest \in Seq(Nat) /\ Len(rest) = (IF 2 <= n THEN n - 2 + 1 ELSE 0)
        /\ \A i \in 1 .. n - 2 + 1 : rest[i] = pages[t.pid][2 + i - 1]
    BY <2>1, <2>2, SubSeqProperties
  <2>4. pages' = [pages EXCEPT ![t.pid] = rest]
    BY <1>1
  <2> HIDE DEF rest, n
  <2>5. /\ pages' \in [Pids -> Seq(Nat)] /\ pages'[t.pid] = rest
        /\ \A p \in Pids : p # t.pid => pages'[p] = pages[p]
    BY <1>3, <2>1, <2>3, <2>4
  <2>6. ASSUME NEW i \in 1 .. n, i > 1
        PROVE  i - 1 <= Len(rest) /\ rest[i - 1] = pages[t.pid][i]
    <3>1. i - 1 \in 1 .. n - 2 + 1 /\ 2 + (i - 1) - 1 = i /\ 2 <= n /\ i - 1 <= n - 2 + 1
      BY <2>1, <2>6
    <3>2. rest[i - 1] = pages[t.pid][2 + (i - 1) - 1]
      BY <2>3, <3>1
    <3> QED BY <2>3, <3>1, <3>2
  <2> QED BY <2>5, <2>6 DEF n
<1>7. FrameTypes' /\ CacheTypes'
  BY <1>1, <1>2, <1>6, KeepCache DEF FrameTypes
<1>8. ASSUME NEW d \in Clients, d # c
      PROVE  /\ thread'[d] \in Threads /\ Ready(d)' /\ Locks(d)'
             /\ thread'[d].pc = thread[d].pc /\ thread'[d].frame = thread[d].frame
  <2> DEFINE u == thread[d]
             v == thread'[d]
  <2>1. v = IF u.pid = t.pid /\ u.record > 0 THEN [u EXCEPT !.record = u.record - 1] ELSE u
    BY <1>1, <1>8
  <2>2. u \in Threads /\ Ready(d) /\ Locks(d) /\ u.record \in Nat
    BY <1>2 DEF Threads
  <2>3. /\ v \in Threads /\ v.pc = u.pc /\ v.op = u.op /\ v.pid = u.pid /\ v.page = u.page
        /\ v.left = u.left /\ v.frame = u.frame /\ v.source = u.source /\ v.entry = u.entry
        /\ v.lru = u.lru /\ v.over = u.over /\ v.record \in Nat
        /\ v.record = IF u.pid = t.pid /\ u.record > 0 THEN u.record - 1 ELSE u.record
    <3>1. CASE u.pid = t.pid /\ u.record > 0
      <4>1. u.record - 1 \in Nat
        BY <2>2, <3>1
      <4> HIDE DEF t, u
      <4> QED BY <2>1, <2>2, <3>1, <4>1 DEF Threads
    <3>2. CASE ~(u.pid = t.pid /\ u.record > 0)
      BY <2>1, <2>2, <3>2
    <3> QED BY <3>1, <3>2
  <2>4. u.pc = "idle" => v = Idle
    BY <1>3, <2>1, <2>2 DEF Ready, Idle
  <2>5. u.record > 0 => /\ u.pid \in Pids /\ u.pc \in WithRecord /\ u.record <= Len(pages[u.pid])
                        /\ u.pc = "number" => pages[u.pid][u.record] > 0
    BY <2>2 DEF Ready, WithRecord
  <2>6. trouble \subseteq trouble'
    BY <1>1
  <2>7. v.record > 0 => /\ v.pc \in WithRecord /\ v.record <= Len(pages'[v.pid])
                        /\ v.pc = "number" => pages'[v.pid][v.record] > 0
    <3>1. CASE u.pid = t.pid /\ v.record > 0
      <4>1. u.record > 1 /\ v.record = u.record - 1 /\ u.record \in 1 .. Len(pages[t.pid])
        <5>1. u.record > 1 /\ v.record = u.record - 1 /\ u.record <= Len(pages[t.pid])
          BY <2>2, <2>3, <2>5, <3>1
        <5>2. Len(pages[t.pid]) \in Nat
          BY <1>2, <1>3, LenProperties DEF FrameTypes
        <5> QED BY <2>2, <5>1, <5>2
      <4>2. v.record <= Len(pages'[t.pid]) /\ pages'[t.pid][v.record] = pages[t.pid][u.record]
        BY <1>6, <4>1
      <4> QED BY <2>3, <2>5, <3>1, <4>1, <4>2
    <3>2. CASE u.pid # t.pid /\ v.record > 0
      <4>1. v.record = u.record /\ u.pid \in Pids
        BY <2>3, <2>5, <3>2
      <4> QED BY <1>6, <2>3, <2>5, <3>2, <4>1
    <3> QED BY <3>1, <3>2
  <2>8. Ready(d)'
    BY <2>2, <2>3, <2>4, <2>6, <2>7 DEF Ready, Assigning, WithRecord
  <2>9. Locks(d)'
    BY <1>1, <2>2, <2>3, <2>6 DEF Locks
  <2> QED BY <2>3, <2>8, <2>9
<1>9. Ready(c)' /\ Locks(c)'
  <2>1. trouble \subseteq trouble'
    BY <1>1
  <2>2. Ready(c)'
    BY <1>1, <1>2, <1>3, <1>4, <1>5, <2>1 DEF Ready, Assigning, WithRecord
  <2>3. Locks(c)'
    BY <1>1, <1>2, <1>3, <1>4, <1>5, <2>1 DEF Locks
  <2> QED BY <2>2, <2>3
<1>10. thread' \in [Clients -> Threads]
  <2>1. \A d \in Clients : thread'[d] \in Threads
    BY <1>4, <1>5, <1>8
  <2> QED BY <1>1, <2>1
<1>11. FramesPlaced'
  <2>1. \A f \in FrameIds, d \in Clients : Given(d, f)' <=> Given(d, f)
    BY <1>1, <1>4, <1>5, <1>8 DEF Given
  <2>2. trouble \subseteq trouble'
    BY <1>1
  <2> QED BY <1>1, <1>2, <2>1, <2>2, PlacedStay DEF Held
<1>12. Types'
  BY <1>1, <1>2, <1>7, <1>10 DEF Types, Troubles
<1> QED BY <1>8, <1>9, <1>11, <1>12 DEF IInv

\* The thread of an ended process goes on to the next frame, or is done.
LEMMA NextFrameThread ==
  ASSUME Types, NEW c \in Clients, Ready(c), thread[c].pc \in {"clean", "free"}, NextFrame(c)
  PROVE  \E new \in Threads :
           /\ thread' = [thread EXCEPT ![c] = new]
           /\ new.pc \in {"idle", "clean"} /\ new.lru = -1 /\ new.record = 0
           /\ new.pc = "idle" => new = Idle
           /\ new.pc = "clean" => new.pid \in Pids /\ new.frame \in FrameIds /\ new.over = thread[c].over
<1> USE SizeFacts
<1> DEFINE t == thread[c]
           next == [t EXCEPT !.pc = "clean", !.frame = t.frame + 1]
<1>1. t \in Threads /\ t.pid \in Pids /\ t.frame \in FrameIds /\ t.record = 0 /\ t.lru = -1
  BY DEF Types, Ready, Assigning, WithRecord, Threads
<1>2. CASE t.frame = Frames - 1
  <2>1. thread' = [thread EXCEPT ![c] = Idle]
    BY <1>2 DEF NextFrame, Finish, Set
  <2> QED BY <2>1, IdleIsThread DEF Idle
<1>3. CASE t.frame # Frames - 1
  <2>1. t.frame + 1 \in FrameIds
    BY <1>1, <1>3 DEF FrameIds
  <2>2. thread' = [thread EXCEPT ![c] = next]
    BY <1>1, <1>3 DEF NextFrame, Set, Threads
  <2>3. /\ next \in Threads /\ next.pc = "clean" /\ next.frame = t.frame + 1 /\ next.pid = t.pid
        /\ next.lru = t.lru /\ next.over = t.over /\ next.record = t.record
    <3> HIDE DEF t
    <3>1. "clean" \in Pcs /\ t \in Threads
      BY <1>1 DEF Pcs
    <3>2. next \in Threads
      BY ONLY <2>1, <3>1 DEF Threads
    <3>3. /\ next.pc = "clean" /\ next.frame = t.frame + 1 /\ next.pid = t.pid
          /\ next.lru = t.lru /\ next.over = t.over /\ next.record = t.record
      BY ONLY <3>1 DEF Threads
    <3> QED BY ONLY <3>2, <3>3
  <2> HIDE DEF next
  <2> QED BY <1>1, <2>1, <2>2, <2>3
<1> QED BY <1>2, <1>3

LEMMA CleanTestStep ==
  ASSUME IInv, NEW c \in Clients, CleanTest(c)
  PROVE  IInv'
<1> USE SizeFacts
<1> DEFINE t == thread[c]
<1>1. t.pc = "clean" /\ UNCHANGED <<cacheXProc, table, available, pages, memory, cache, recent,
        entriesOf, writer, readers, frameReaders, mutex, asked, written, trouble>>
  BY DEF CleanTest, At, shared
<1>2. Types /\ FrameTypes /\ CacheTypes /\ FramesPlaced /\ Ready(c) /\ Locks(c) /\ t \in Threads
  BY DEF IInv, Types
<1>3. t.pid \in Pids /\ t.frame \in FrameIds /\ t.record = 0 /\ t.lru = -1
  BY <1>1, <1>2 DEF Ready, Assigning, WithRecord, Threads
<1>4. PICK new \in Threads :
        /\ thread' = [thread EXCEPT ![c] = new]
        /\ new.pc \in {"idle", "clean", "free"} /\ new.lru = -1 /\ new.record = 0
        /\ new.pc = "idle" => new = Idle
        /\ new.pc # "idle" => new.pid \in Pids /\ new.frame \in FrameIds /\ new.over = t.over
  <2>1. CASE table[t.frame].pid = t.pid
    <3> DEFINE new == [t EXCEPT !.pc = "free"]
    <3>1. thread' = [thread EXCEPT ![c] = new]
      BY <2>1 DEF CleanTest, GoTo, Set
    <3>2. /\ new \in Threads /\ new.pc = "free" /\ new.lru = t.lru /\ new.record = t.record
          /\ new.pid = t.pid /\ new.frame = t.frame /\ new.over = t.over
      BY <1>2, <1>3 DEF Threads, Pcs
    <3> HIDE DEF new
    <3> QED BY <1>3, <3>1, <3>2
  <2>2. CASE table[t.frame].pid # t.pid
    <3>1. NextFrame(c)
      BY <2>2 DEF CleanTest
    <3> QED BY <1>1, <1>2, <3>1, NextFrameThread
  <2> QED BY <2>1, <2>2
<1>5. FrameTypes' /\ CacheTypes'
  BY <1>1, <1>2, KeepFrames, KeepCache
<1>6. thread'[c] = new => Ready(c)' /\ Locks(c)'
  <2> SUFFICES ASSUME thread'[c] = new PROVE Ready(c)' /\ Locks(c)'
    OBVIOUS
  <2>1. Ready(c)'
    <3>1. CASE new = Idle
      BY <3>1 DEF Ready, Idle, Assigning, WithRecord
    <3>2. CASE new # Idle
      BY <1>1, <1>2, <1>4, <3>2 DEF Ready, Assigning, WithRecord
    <3> QED BY <3>1, <3>2
  <2>2. Locks(c)'
    BY <1>1, <1>2, <1>3, <1>4 DEF Locks
  <2> QED BY <2>1, <2>2
<1>7. FramesPlaced'
  <2>1. \A f \in FrameIds, d \in Clients : Given(d, f)' <=> Given(d, f)
    BY <1>1, <1>2, <1>4, GivenStay
  <2> QED BY <1>1, <1>2, <2>1, PlacedStay DEF Held
<1> QED BY <1>1, <1>2, <1>5, <1>6, <1>7, OneStep, <1>4 DEF Types

\* A frame of the ended process goes back to the list.
LEMMA CleanFrameStep ==
  ASSUME IInv, NEW c \in Clients, CleanFrame(c)
  PROVE  IInv'
<1> USE SizeFacts
<1> DEFINE t == thread[c]
           g == t.frame
<1>1. /\ t.pc = "free"
      /\ trouble' = trouble \cup (IF table[g].pid # t.pid THEN {"twice"} ELSE {})
      /\ table' = [table EXCEPT ![g] = [pid |-> 0, page |-> 0]]
      /\ available' = Append(available, g)
      /\ NextFrame(c)
      /\ UNCHANGED <<cacheXProc, pages, memory, cache, recent, entriesOf, writer, readers,
                     frameReaders, mutex, asked, written>>
  BY DEF CleanFrame, At, NoteIf
<1>2. Types /\ FrameTypes /\ CacheTypes /\ FramesPlaced /\ Ready(c) /\ Locks(c) /\ t \in Threads
  BY DEF IInv, Types
<1>3. t.pid \in Pids /\ g \in FrameIds /\ t.record = 0 /\ t.lru = -1
  BY <1>1, <1>2 DEF Ready, Assigning, WithRecord, Threads
<1>4. PICK new \in Threads :
        /\ thread' = [thread EXCEPT ![c] = new]
        /\ new.pc \in {"idle", "clean"} /\ new.lru = -1 /\ new.record = 0
        /\ new.pc = "idle" => new = Idle
        /\ new.pc = "clean" => new.pid \in Pids /\ new.frame \in FrameIds /\ new.over = t.over
  BY <1>1, <1>2, NextFrameThread
<1>5. /\ table' \in [FrameIds -> [pid : Pids \cup {-1, 0}, page : Nat]]
      /\ table'[g].pid = 0 /\ \A f \in FrameIds \ {g} : table'[f] = table[f]
  BY <1>1, <1>2, <1>3 DEF FrameTypes
<1>6. /\ available' \in Seq(FrameIds) /\ Len(available) \in Nat
      /\ DOMAIN available = 1 .. Len(available) /\ DOMAIN available' = 1 .. Len(available) + 1
      /\ \A i \in 1 .. Len(available) : available'[i] = available[i]
      /\ available'[Len(available) + 1] = g
  BY <1>1, <1>2, <1>3, AppendProperties, LenProperties DEF FrameTypes
<1>7. FrameTypes' /\ CacheTypes'
  BY <1>1, <1>2, <1>5, <1>6, KeepCache DEF FrameTypes
<1>8. thread'[c] = new => Ready(c)' /\ Locks(c)'
  <2> SUFFICES ASSUME thread'[c] = new PROVE Ready(c)' /\ Locks(c)'
    OBVIOUS
  <2>1. Ready(c)'
    <3>1. CASE new = Idle
      BY <3>1 DEF Ready, Idle, Assigning, WithRecord
    <3>2. CASE new # Idle
      BY <1>1, <1>2, <1>4, <3>2 DEF Ready, Assigning, WithRecord
    <3> QED BY <3>1, <3>2
  <2>2. Locks(c)'
    BY <1>1, <1>2, <1>3, <1>4 DEF Locks
  <2> QED BY <2>1, <2>2
<1>9. FramesPlaced'
  <2> SUFFICES ASSUME trouble' \cap {"taken", "twice"} = {}, NEW f \in FrameIds
               PROVE  OnePlace(f)'
    BY DEF FramesPlaced
  <2>1. OnePlace(f) /\ OnePlace(g) /\ table[g].pid = t.pid
    BY <1>1, <1>2, <1>3 DEF FramesPlaced
  <2>2. \A d \in Clients : Given(d, f)' <=> Given(d, f)
    BY <1>1, <1>2, <1>4, GivenStay
  <2>3. Held(g) /\ ~Listed(g) /\ \A d \in Clients : ~Given(d, g)
    <3>1. Held(g)
      BY <1>3, <2>1 DEF Held
    <3> HIDE DEF Held, Given, Listed, g
    <3> QED BY <2>1, <3>1 DEF OnePlace
  <2>4. Held(f)' <=> Held(f) /\ f # g
    BY <1>5 DEF Held
  <2>5. Listed(f)' <=> Listed(f) \/ f = g
    <3>1. Listed(f)' => Listed(f) \/ f = g
      BY <1>6 DEF Listed
    <3>2. Listed(f) => Listed(f)'
      BY <1>6 DEF Listed
    <3>3. f = g => Listed(f)'
      <4>1. Len(available) + 1 \in DOMAIN available' /\ available'[Len(available) + 1] = g
        BY <1>6
      <4> QED BY <4>1 DEF Listed
    <3> QED BY <3>1, <3>2, <3>3
  <2>6. \A i, j \in DOMAIN available' : available'[i] = f /\ available'[j] = f => i = j
    <3> SUFFICES ASSUME NEW i \in DOMAIN available', NEW j \in DOMAIN available',
                        available'[i] = f, available'[j] = f
                 PROVE  i = j
      OBVIOUS
    <3>1. CASE f = g
      <4>1. i \notin 1 .. Len(available) /\ j \notin 1 .. Len(available)
        BY <1>6, <2>3, <3>1 DEF Listed
      <4> QED BY <1>6, <4>1
    <3>2. CASE f # g
      <4>1. i \in 1 .. Len(available) /\ j \in 1 .. Len(available)
        BY <1>6, <3>2
      <4> QED BY <1>6, <2>1, <4>1 DEF OnePlace
    <3> QED BY <3>1, <3>2
  <2>7. f < Admin <=> table'[f].pid = -1
    <3>1. CASE f = g
      BY <1>3, <1>5, <2>1, <3>1 DEF OnePlace
    <3>2. CASE f # g
      BY <1>5, <2>1, <3>2 DEF OnePlace
    <3> QED BY <3>1, <3>2
  <2> HIDE DEF Held, Given, Listed, g
  <2>8. CASE f = g
    BY <2>1, <2>2, <2>3, <2>4, <2>5, <2>6, <2>7, <2>8 DEF OnePlace
  <2>9. CASE f # g
    BY <2>1, <2>2, <2>4, <2>5, <2>6, <2>7, <2>9 DEF OnePlace
  <2> QED BY <2>8, <2>9
<1> QED BY <1>1, <1>2, <1>4, <1>7, <1>8, <1>9, OneStep DEF Types, Troubles

-----------------------------------------------------------------------------
(* The cache: the search of the page *)

\* Steps of c that leave the frames where they are: what remains to show of them.
LEMMA CacheStep ==
  ASSUME IInv, NEW c \in Clients, NEW new \in Threads,
         thread' = [thread EXCEPT ![c] = new],
         thread[c].pc # "setpid", new.pc # "setpid",
         UNCHANGED <<table, available, pages>>,
         memory' \in [FrameIds -> SUBSET PageIds], frameReaders' \in [FrameIds -> SUBSET Clients],
         CacheTypes', mutex' \in Clients \cup {None},
         written' \subseteq PageIds, trouble \subseteq trouble', trouble' \subseteq Troubles,
         \A d \in Clients \ {c} :
           /\ mutex' = d <=> mutex = d
           /\ \A e \in EntryIds : /\ d \in readers'[e] => d \in readers[e]
                                  /\ writer'[e] = d => writer[e] = d,
         thread'[c] = new => Ready(c)' /\ Locks(c)'
  PROVE  IInv'
<1>1. FrameTypes'
  BY DEF IInv, Types, FrameTypes
<1>2. FramesPlaced'
  <2>1. \A f \in FrameIds, d \in Clients : Given(d, f)' <=> Given(d, f)
    BY GivenStay DEF IInv
  <2>2. FramesPlaced /\ available' = available /\ table' = table
    BY DEF IInv
  <2> QED BY <2>1, <2>2, PlacedStay DEF Held
<1>3. PagesGrow
  BY PagesStay DEF IInv, Types, FrameTypes
<1> QED BY <1>1, <1>2, <1>3, OneStep

\* An entry given back is one lock less.
LEMMA UnlockFacts ==
  ASSUME CacheTypes, NEW c \in Clients, NEW e \in EntryIds, Unlock(c, e)
  PROVE  /\ writer' \in [EntryIds -> Clients \cup {None}]
         /\ readers' \in [EntryIds -> SUBSET Clients]
         /\ \A d \in EntryIds : writer'[d] = None \/ readers'[d] = {}
         /\ \A d \in EntryIds, b \in Clients : /\ b \in readers'[d] => b \in readers[d]
                                               /\ writer'[d] = b => writer[d] = b
         /\ writer'[e] # c
         /\ writer[e] # c => c \notin readers'[e]
<1> USE SizeFacts
<1>1. CASE writer[e] = c
  BY <1>1 DEF CacheTypes, Unlock
<1>2. CASE writer[e] # c
  BY <1>2 DEF CacheTypes, Unlock
<1> QED BY <1>1, <1>2

LEMMA ScanStep ==
  ASSUME IInv, NEW c \in Clients, Scan(c)
  PROVE  IInv'
<1> USE SizeFacts
<1> DEFINE t == thread[c]
           e == t.entry
           reads == t.op = "read"
<1>1. /\ t.pc = "scan"
      /\ IF reads THEN CanRead(c, e) ELSE CanWrite(c, e)
      /\ IF Holds(c, e)
         THEN /\ IF reads THEN readers' = ReadLocked(c, e) /\ UNCHANGED writer
                          ELSE writer' = WriteLocked(c, e) /\ UNCHANGED readers
              /\ thread' = [thread EXCEPT ![c] = [t EXCEPT !.pc = IF reads THEN "hit" ELSE "update"]]
         ELSE Unlock(c, e) /\ NextEntry(c)
      /\ UNCHANGED <<cacheXProc, table, available, pages, memory, cache, recent, entriesOf,
                     frameReaders, mutex, asked, written, trouble>>
  BY DEF Scan, At, Set
<1>2. Types /\ FrameTypes /\ CacheTypes /\ FramesPlaced /\ Ready(c) /\ Locks(c) /\ t \in Threads
  BY DEF IInv, Types
<1>3. t.pid \in Pids /\ e \in EntryIds /\ t.record = 0 /\ t.lru = -1
  BY <1>1, <1>2 DEF Ready, Assigning, WithRecord, Threads
<1>4. CASE Holds(c, e)
  <2> DEFINE new == [t EXCEPT !.pc = IF reads THEN "hit" ELSE "update"]
  <2>1. /\ new \in Threads /\ new.pc = (IF reads THEN "hit" ELSE "update") /\ new.pid = t.pid
        /\ new.entry = e /\ new.lru = -1 /\ new.over = t.over /\ new.record = 0 /\ new.op = t.op
    BY <1>2, <1>3 DEF Threads, Pcs
  <2>2. thread' = [thread EXCEPT ![c] = new]
    BY <1>1, <1>4
  <2> HIDE DEF new
  <2>3. /\ writer' \in [EntryIds -> Clients \cup {None}] /\ readers' \in [EntryIds -> SUBSET Clients]
        /\ \A d \in EntryIds : writer'[d] = None \/ readers'[d] = {}
        /\ \A d \in EntryIds \ {e} : writer'[d] = writer[d] /\ readers'[d] = readers[d]
        /\ \A b \in Clients \ {c} : /\ b \in readers'[e] => b \in readers[e]
                                    /\ writer'[e] = b => writer[e] = b
        /\ c \in readers'[e] => reads
        /\ writer'[e] = c => ~reads \/ writer[e] = c
    <3>1. CASE reads
      BY <1>1, <1>2, <1>3, <1>4, <3>1 DEF CacheTypes, CanRead, ReadLocked
    <3>2. CASE ~reads
      BY <1>1, <1>2, <1>3, <1>4, <3>2 DEF CacheTypes, CanWrite, WriteLocked
    <3> QED BY <3>1, <3>2
  <2>4. CacheTypes'
    BY <1>1, <1>2, <2>3 DEF CacheTypes
  <2>5. thread'[c] = new => Ready(c)' /\ Locks(c)'
    <3> SUFFICES ASSUME thread'[c] = new PROVE Ready(c)' /\ Locks(c)'
      OBVIOUS
    <3>1. Ready(c)'
      BY <1>1, <1>2, <1>3, <2>1 DEF Ready, Assigning, WithRecord
    <3>2. Locks(c)'
      <4>1. mutex' = c <=> new.pc \in {"lockframe", "flush"}
        BY <1>1, <1>2, <2>1 DEF Locks
      <4>2. ASSUME NEW d \in EntryIds
            PROVE  /\ c \in readers'[d] => new.pc = "hit" /\ new.entry = d
                   /\ writer'[d] = c /\ "limit" \notin trouble' =>
                        d = new.lru \/ (d = new.entry /\ new.pc \in {"update", "flush", "fill"})
        <5>1. c \notin readers[d] /\ ~(writer[d] = c /\ "limit" \notin trouble)
          BY <1>1, <1>2, <1>3 DEF Locks
        <5>2. CASE d = e
          BY <1>1, <2>1, <2>3, <5>1, <5>2
        <5>3. CASE d # e
          BY <1>1, <2>1, <2>3, <5>1, <5>3
        <5> QED BY <5>2, <5>3
      <4> QED BY <4>1, <4>2 DEF Locks
    <3> QED BY <3>1, <3>2
  <2>6. \A d \in Clients \ {c} :
          /\ mutex' = d <=> mutex = d
          /\ \A x \in EntryIds : /\ d \in readers'[x] => d \in readers[x]
                                 /\ writer'[x] = d => writer[x] = d
    BY <1>1, <2>3
  <2>7. /\ thread[c].pc # "setpid" /\ new.pc # "setpid"
        /\ UNCHANGED <<table, available, pages>>
        /\ memory' \in [FrameIds -> SUBSET PageIds] /\ frameReaders' \in [FrameIds -> SUBSET Clients]
        /\ mutex' \in Clients \cup {None}
        /\ written' \subseteq PageIds /\ trouble \subseteq trouble' /\ trouble' \subseteq Troubles
    BY <1>1, <1>2, <2>1 DEF Types, FrameTypes
  <2> QED BY ONLY IInv, <2>1, <2>2, <2>4, <2>5, <2>6, <2>7, CacheStep
<1>5. CASE ~Holds(c, e)
  <2>1. PICK new \in Threads :
          /\ thread' = [thread EXCEPT ![c] = new]
          /\ new.pc \in {"scan", "find", "count"} /\ new.pid = t.pid /\ new.entry \in EntryIds
          /\ new.lru = -1 /\ new.over = t.over /\ new.record = 0
          /\ new.pc = "count" => new.op # "read"
    <3>1. CASE e < CacheEntries - 1
      <4> DEFINE new == [t EXCEPT !.entry = e + 1]
      <4>1. thread' = [thread EXCEPT ![c] = new]
        BY <1>1, <1>2, <1>5, <3>1 DEF NextEntry, Set, Threads
      <4>2. e + 1 \in EntryIds
        BY <1>3, <3>1 DEF EntryIds
      <4>3. new \in Threads /\ new.pc = t.pc /\ new.pid = t.pid /\ new.entry = e + 1
            /\ new.lru = t.lru /\ new.over = t.over /\ new.record = t.record
        BY <1>2, <4>2 DEF Threads
      <4> HIDE DEF new
      <4> QED BY <1>1, <1>3, <4>1, <4>2, <4>3
    <3>2. CASE ~(e < CacheEntries - 1)
      <4> DEFINE new == [t EXCEPT !.entry = 0, !.pc = IF reads THEN "find" ELSE "count"]
      <4>1. thread' = [thread EXCEPT ![c] = new]
        BY <1>1, <1>2, <1>5, <3>2 DEF NextEntry, Set, Threads
      <4>3. new \in Threads /\ new.pc = (IF reads THEN "find" ELSE "count") /\ new.pid = t.pid
            /\ new.entry = 0 /\ new.lru = t.lru /\ new.over = t.over /\ new.record = t.record
            /\ new.op = t.op
        <5>1. CASE reads
          BY <1>2, <5>1 DEF Threads, Pcs
        <5>2. CASE ~reads
          BY <1>2, <5>2 DEF Threads, Pcs
        <5> QED BY <5>1, <5>2
      <4> HIDE DEF new
      <4> QED BY <1>1, <1>3, <4>1, <4>3
    <3> QED BY <3>1, <3>2
  <2>2. Unlock(c, e)
    BY <1>1, <1>5
  <2>3. CacheTypes'
    BY <1>1, <1>2, <1>3, <2>2, UnlockFacts DEF CacheTypes
  <2>4. thread'[c] = new => Ready(c)' /\ Locks(c)'
    <3> SUFFICES ASSUME thread'[c] = new PROVE Ready(c)' /\ Locks(c)'
      OBVIOUS
    <3>1. Ready(c)'
      BY <1>1, <1>2, <1>3, <2>1 DEF Ready, Assigning, WithRecord
    <3>2. \A d \in EntryIds : /\ c \in readers'[d] => c \in readers[d]
                              /\ writer'[d] = c => writer[d] = c
      BY <1>2, <1>3, <2>2, UnlockFacts
    <3>3. Locks(c)'
      BY <1>1, <1>2, <1>3, <2>1, <3>2 DEF Locks
    <3> QED BY <3>1, <3>3
  <2>5. \A d \in Clients \ {c} :
          /\ mutex' = d <=> mutex = d
          /\ \A x \in EntryIds : /\ d \in readers'[x] => d \in readers[x]
                                 /\ writer'[x] = d => writer[x] = d
    BY <1>1, <1>2, <1>3, <2>2, UnlockFacts
  <2>6. /\ thread[c].pc # "setpid" /\ new.pc # "setpid"
        /\ UNCHANGED <<table, available, pages>>
        /\ memory' \in [FrameIds -> SUBSET PageIds] /\ frameReaders' \in [FrameIds -> SUBSET Clients]
        /\ mutex' \in Clients \cup {None}
        /\ written' \subseteq PageIds /\ trouble \subseteq trouble' /\ trouble' \subseteq Troubles
    BY <1>1, <1>2, <2>1 DEF Types, FrameTypes
  <2> QED BY ONLY IInv, <2>1, <2>3, <2>4, <2>5, <2>6, CacheStep
<1> QED BY <1>4, <1>5

LEMMA ReadHitStep ==
  ASSUME IInv, NEW c \in Clients, ReadHit(c)
  PROVE  IInv'
<1> USE SizeFacts
<1> DEFINE e == thread[c].entry
<1>1. /\ thread[c].pc = "hit" /\ Unlock(c, e)
      /\ thread' = [thread EXCEPT ![c] = Idle]
      /\ UNCHANGED <<cacheXProc, table, available, pages, memory, cache, entriesOf,
                     frameReaders, mutex, asked, written, trouble>>
  BY DEF ReadHit, At, Finish, Set
<1>2. Types /\ FrameTypes /\ CacheTypes /\ FramesPlaced /\ Ready(c) /\ Locks(c)
  BY DEF IInv, Types
<1>3. e \in EntryIds /\ thread[c].lru = -1
  BY <1>1, <1>2 DEF Ready, Assigning, WithRecord
<1>4. /\ writer' \in [EntryIds -> Clients \cup {None}]
      /\ readers' \in [EntryIds -> SUBSET Clients]
      /\ \A d \in EntryIds : writer'[d] = None \/ readers'[d] = {}
      /\ \A d \in EntryIds, b \in Clients : /\ b \in readers'[d] => b \in readers[d]
                                            /\ writer'[d] = b => writer[d] = b
      /\ writer'[e] # c
      /\ writer[e] # c => c \notin readers'[e]
  BY <1>1, <1>2, <1>3, UnlockFacts
<1>5. CacheTypes'
  BY <1>1, <1>2, <1>4 DEF CacheTypes
<1>6. thread'[c] = Idle => Ready(c)' /\ Locks(c)'
  <2> SUFFICES ASSUME thread'[c] = Idle PROVE Ready(c)' /\ Locks(c)'
    OBVIOUS
  <2>1. Ready(c)'
    BY DEF Ready, Idle, Assigning, WithRecord
  <2>2. \A d \in EntryIds : c \notin readers'[d]
    <3> SUFFICES ASSUME NEW d \in EntryIds, c \in readers'[d] PROVE FALSE
      OBVIOUS
    <3>1. c \in readers[d]
      BY <1>4
    <3>2. d = e
      BY <1>2, <3>1 DEF Locks
    <3>3. writer[e] # c
      BY <1>2, <1>3, <3>1, <3>2 DEF CacheTypes
    <3> QED BY <1>4, <3>2, <3>3
  <2>3. \A d \in EntryIds : writer'[d] = c => "limit" \in trouble'
    BY <1>1, <1>2, <1>3, <1>4 DEF Locks
  <2>4. Locks(c)'
    BY <1>1, <1>2, <2>2, <2>3 DEF Locks, Idle
  <2> QED BY <2>1, <2>4
<1>7. /\ thread[c].pc # "setpid" /\ Idle.pc # "setpid"
      /\ UNCHANGED <<table, available, pages>>
      /\ memory' \in [FrameIds -> SUBSET PageIds] /\ frameReaders' \in [FrameIds -> SUBSET Clients]
      /\ mutex' \in Clients \cup {None}
      /\ written' \subseteq PageIds /\ trouble \subseteq trouble' /\ trouble' \subseteq Troubles
  BY <1>1, <1>2 DEF Types, FrameTypes, Idle
<1>8. \A d \in Clients \ {c} :
        /\ mutex' = d <=> mutex = d
        /\ \A x \in EntryIds : /\ d \in readers'[x] => d \in readers[x]
                               /\ writer'[x] = d => writer[x] = d
  BY <1>1, <1>4
<1> QED BY <1>1, <1>5, <1>6, <1>7, <1>8, IdleIsThread, CacheStep

-----------------------------------------------------------------------------
(* The cache: frames found, read and written *)

\* Steps of c that leave the entries where they are too.
LEMMA MutexStep ==
  ASSUME IInv, NEW c \in Clients, NEW new \in Threads,
         thread' = [thread EXCEPT ![c] = new],
         thread[c].pc # "setpid", new.pc # "setpid",
         UNCHANGED <<table, available, pages, cacheXProc, cache, entriesOf, writer, readers,
                     written, trouble>>,
         memory' \in [FrameIds -> SUBSET PageIds], frameReaders' \in [FrameIds -> SUBSET Clients],
         mutex' = mutex \/ (mutex' = None /\ mutex = c) \/ (mutex' = c /\ mutex = None),
         thread'[c] = new => Ready(c)' /\ Locks(c)'
  PROVE  IInv'
<1>1. CacheTypes'
  BY KeepCache DEF IInv, Types
<1>2. mutex' \in Clients \cup {None} /\ \A d \in Clients \ {c} : mutex' = d <=> mutex = d
  BY SizeFacts DEF IInv, Types
<1>3. written' \subseteq PageIds /\ trouble' \subseteq Troubles /\ trouble \subseteq trouble'
  BY DEF IInv, Types
<1>4. \A d \in Clients \ {c} :
        /\ mutex' = d <=> mutex = d
        /\ \A e \in EntryIds : /\ d \in readers'[e] => d \in readers[e]
                               /\ writer'[e] = d => writer[e] = d
  BY <1>2
<1> QED BY <1>1, <1>2, <1>3, <1>4, CacheStep

LEMMA FindStep ==
  ASSUME IInv, NEW c \in Clients, NEW pid, NEW page, NEW found, FindFrame(c, pid, page, found),
         \/ thread[c].pc = "find" /\ found = "lockframe"
         \/ thread[c].pc = "update" /\ found = "flush" /\ thread[c].entry >= 0
  PROVE  IInv'
<1> USE SizeFacts
<1> DEFINE t == thread[c]
           new == [t EXCEPT !.pc = found, !.frame = Min(FramesOf(pid, page))]
<1>1. CASE FramesOf(pid, page) = {}
  BY <1>1, WildStep DEF FindFrame
<1>2. CASE FramesOf(pid, page) # {}
  <2>1. /\ mutex = None /\ mutex' = c /\ thread' = [thread EXCEPT ![c] = new]
        /\ UNCHANGED <<cacheXProc, table, available, pages, memory, cache, recent, entriesOf,
                       writer, readers, frameReaders, asked, written, trouble>>
    BY <1>2 DEF FindFrame, Set
  <2>2. Types /\ FrameTypes /\ CacheTypes /\ FramesPlaced /\ Ready(c) /\ Locks(c) /\ t \in Threads
    BY DEF IInv, Types
  <2>3. Min(FramesOf(pid, page)) \in FrameIds
    <3>1. FramesOf(pid, page) \subseteq FrameIds
      BY DEF FramesOf
    <3>2. FramesOf(pid, page) \in SUBSET Nat
      BY <3>1
    <3> HIDE DEF new
    <3> QED BY <1>2, <3>1, <3>2, MinIsOne
  <2>4. t.pid \in Pids /\ t.lru = -1 /\ t.record = 0 /\ t.entry \in EntryIds
    BY <2>2 DEF Ready, Threads, Assigning, WithRecord
  <2>5. /\ new \in Threads /\ new.pc = found /\ new.frame \in FrameIds /\ new.pid = t.pid
        /\ new.entry = t.entry /\ new.lru = -1 /\ new.over = t.over /\ new.record = 0
        /\ new.op = t.op /\ new.source = t.source
    BY <2>2, <2>3, <2>4 DEF Threads, Pcs
  <2> HIDE DEF new
  <2>6. thread'[c] = new => Ready(c)' /\ Locks(c)'
    <3> SUFFICES ASSUME thread'[c] = new PROVE Ready(c)' /\ Locks(c)'
      OBVIOUS
    <3>1. Ready(c)'
      BY <2>1, <2>2, <2>4, <2>5 DEF Ready, Assigning, WithRecord
    <3>2. Locks(c)'
      BY <2>1, <2>2, <2>4, <2>5 DEF Locks
    <3> QED BY <3>1, <3>2
  <2>7. memory' \in [FrameIds -> SUBSET PageIds] /\ frameReaders' \in [FrameIds -> SUBSET Clients]
    BY <2>1, <2>2 DEF FrameTypes
  <2>8. thread[c].pc # "setpid" /\ new.pc # "setpid"
    BY <2>5
  <2> QED BY <2>1, <2>5, <2>6, <2>7, <2>8, MutexStep
<1> QED BY <1>1, <1>2

LEMMA ReadFrameStep ==
  ASSUME IInv, NEW c \in Clients, ReadFrame(c)
  PROVE  IInv'
<1> USE SizeFacts
<1> DEFINE t == thread[c]
           new == [t EXCEPT !.pc = "count", !.source = t.frame, !.frame = None]
<1>1. /\ t.pc = "lockframe"
      /\ frameReaders' = [frameReaders EXCEPT ![t.frame] = @ \cup {c}]
      /\ mutex' = None /\ thread' = [thread EXCEPT ![c] = new]
      /\ UNCHANGED <<cacheXProc, table, available, pages, memory, cache, recent, entriesOf,
                     writer, readers, asked, written, trouble>>
  BY DEF ReadFrame, At, Set
<1>2. Types /\ FrameTypes /\ CacheTypes /\ FramesPlaced /\ Ready(c) /\ Locks(c) /\ t \in Threads
  BY DEF IInv, Types
<1>3. /\ t.pid \in Pids /\ t.lru = -1 /\ t.record = 0 /\ t.entry \in EntryIds /\ t.frame \in FrameIds
      /\ mutex = c
  BY <1>1, <1>2 DEF Ready, Locks, Assigning, WithRecord, Threads
<1>4. /\ new \in Threads /\ new.pc = "count" /\ new.source \in FrameIds /\ new.pid = t.pid
      /\ new.entry = t.entry /\ new.lru = -1 /\ new.over = t.over /\ new.record = 0
  BY <1>2, <1>3 DEF Threads, Pcs
<1> HIDE DEF new
<1>5. thread'[c] = new => Ready(c)' /\ Locks(c)'
  <2> SUFFICES ASSUME thread'[c] = new PROVE Ready(c)' /\ Locks(c)'
    OBVIOUS
  <2>1. Ready(c)'
    BY <1>1, <1>2, <1>3, <1>4 DEF Ready, Assigning, WithRecord
  <2>2. Locks(c)'
    BY <1>1, <1>2, <1>3, <1>4 DEF Locks
  <2> QED BY <2>1, <2>2
<1>6. memory' \in [FrameIds -> SUBSET PageIds] /\ frameReaders' \in [FrameIds -> SUBSET Clients]
  BY <1>1, <1>2, <1>3 DEF FrameTypes
<1>7. thread[c].pc # "setpid" /\ new.pc # "setpid"
  BY <1>1, <1>4
<1>8. /\ thread' = [thread EXCEPT ![c] = new]
      /\ UNCHANGED <<table, available, pages, cacheXProc, cache, entriesOf, writer, readers,
                     written, trouble>>
      /\ mutex' = mutex \/ (mutex' = None /\ mutex = c) \/ (mutex' = c /\ mutex = None)
  BY <1>1, <1>3
<1> QED BY ONLY IInv, <1>4, <1>5, <1>6, <1>7, <1>8, MutexStep

LEMMA FlushStep ==
  ASSUME IInv, NEW c \in Clients, Flush(c)
  PROVE  IInv'
<1> USE SizeFacts
<1> DEFINE t == thread[c]
           new == [t EXCEPT !.pc = "fill", !.frame = None]
<1>1. /\ t.pc = "flush"
      /\ memory' = [memory EXCEPT ![t.frame] = cache[t.entry].content]
      /\ mutex' = None /\ thread' = [thread EXCEPT ![c] = new]
      /\ UNCHANGED <<cacheXProc, table, available, pages, cache, recent, entriesOf, writer,
                     readers, frameReaders, asked, written, trouble>>
  BY DEF Flush, At, Set
<1>2. Types /\ FrameTypes /\ CacheTypes /\ FramesPlaced /\ Ready(c) /\ Locks(c) /\ t \in Threads
  BY DEF IInv, Types
<1>3. /\ t.pid \in Pids /\ t.lru = -1 /\ t.record = 0 /\ t.entry \in EntryIds /\ t.frame \in FrameIds
      /\ mutex = c
  BY <1>1, <1>2 DEF Ready, Locks, Assigning, WithRecord, Threads
<1>4. /\ new \in Threads /\ new.pc = "fill" /\ new.pid = t.pid /\ new.op = t.op /\ new.source = t.source
      /\ new.entry = t.entry /\ new.lru = -1 /\ new.over = t.over /\ new.record = 0
  BY <1>2, <1>3 DEF Threads, Pcs
<1> HIDE DEF new
<1>5. thread'[c] = new => Ready(c)' /\ Locks(c)'
  <2> SUFFICES ASSUME thread'[c] = new PROVE Ready(c)' /\ Locks(c)'
    OBVIOUS
  <2>1. Ready(c)'
    BY <1>1, <1>2, <1>3, <1>4 DEF Ready, Assigning, WithRecord
  <2>2. Locks(c)'
    BY <1>1, <1>2, <1>3, <1>4 DEF Locks
  <2> QED BY <2>1, <2>2
<1>6. memory' \in [FrameIds -> SUBSET PageIds] /\ frameReaders' \in [FrameIds -> SUBSET Clients]
  <2>1. cache[t.entry].content \in SUBSET PageIds
    BY <1>2, <1>3 DEF CacheTypes
  <2> QED BY <1>1, <1>2, <1>3, <2>1 DEF FrameTypes
<1>7. thread[c].pc # "setpid" /\ new.pc # "setpid"
  BY <1>1, <1>4
<1>8. /\ thread' = [thread EXCEPT ![c] = new]
      /\ UNCHANGED <<table, available, pages, cacheXProc, cache, entriesOf, writer, readers,
                     written, trouble>>
      /\ mutex' = mutex \/ (mutex' = None /\ mutex = c) \/ (mutex' = c /\ mutex = None)
  BY <1>1, <1>3
<1> QED BY ONLY IInv, <1>4, <1>5, <1>6, <1>7, <1>8, MutexStep

LEMMA SendStep ==
  ASSUME IInv, NEW c \in Clients, ReadSend(c)
  PROVE  IInv'
<1> USE SizeFacts
<1>1. /\ thread[c].pc = "send"
      /\ frameReaders' = [frameReaders EXCEPT ![thread[c].source] = @ \ {c}]
      /\ thread' = [thread EXCEPT ![c] = Idle]
      /\ UNCHANGED <<cacheXProc, table, available, pages, memory, cache, recent, entriesOf,
                     writer, readers, mutex, asked, written, trouble>>
  BY DEF ReadSend, At, Finish, Set
<1>2. Types /\ FrameTypes /\ CacheTypes /\ FramesPlaced /\ Ready(c) /\ Locks(c)
  BY DEF IInv, Types
<1>3. thread[c].lru = -1
  BY <1>1, <1>2 DEF Ready, Assigning, WithRecord
<1>4. thread'[c] = Idle => Ready(c)' /\ Locks(c)'
  <2> SUFFICES ASSUME thread'[c] = Idle PROVE Ready(c)' /\ Locks(c)'
    OBVIOUS
  <2>1. Ready(c)'
    BY DEF Ready, Idle, Assigning, WithRecord
  <2>2. Locks(c)'
    BY <1>1, <1>2, <1>3 DEF Locks, Idle
  <2> QED BY <2>1, <2>2
<1>5. memory' \in [FrameIds -> SUBSET PageIds] /\ frameReaders' \in [FrameIds -> SUBSET Clients]
  BY <1>1, <1>2 DEF FrameTypes
<1>6. thread[c].pc # "setpid" /\ Idle.pc # "setpid"
  BY <1>1 DEF Idle
<1>7. /\ thread' = [thread EXCEPT ![c] = Idle]
      /\ UNCHANGED <<table, available, pages, cacheXProc, cache, entriesOf, writer, readers,
                     written, trouble>>
      /\ mutex' = mutex \/ (mutex' = None /\ mutex = c) \/ (mutex' = c /\ mutex = None)
  BY <1>1
<1> QED BY ONLY IInv, <1>4, <1>5, <1>6, <1>7, IdleIsThread, MutexStep

-----------------------------------------------------------------------------
(* The cache: the entry of a page that was missed *)

LEMMA CountStep ==
  ASSUME IInv, NEW c \in Clients, Count(c)
  PROVE  IInv'
<1> USE SizeFacts
<1> DEFINE t == thread[c]
           over == entriesOf[t.pid] >= cacheXProc
           new == [t EXCEPT !.pc = "pick", !.over = over]
<1>1. /\ t.pc = "count"
      /\ entriesOf' = [entriesOf EXCEPT ![t.pid] = IF over THEN @ ELSE @ + 1]
      /\ trouble' = trouble \cup (IF over THEN {"limit"} ELSE {})
      /\ thread' = [thread EXCEPT ![c] = new]
      /\ UNCHANGED <<cacheXProc, table, available, pages, memory, cache, recent, writer, readers,
                     frameReaders, mutex, asked, written>>
  BY DEF Count, At, Set, NoteIf
<1>2. Types /\ FrameTypes /\ CacheTypes /\ FramesPlaced /\ Ready(c) /\ Locks(c) /\ t \in Threads
  BY DEF IInv, Types
<1>3. t.pid \in Pids /\ t.lru = -1 /\ t.record = 0 /\ t.entry \in EntryIds /\ over \in BOOLEAN
  BY <1>1, <1>2 DEF Ready, Assigning, WithRecord, Threads
<1>4. over => "limit" \in trouble'
  BY <1>1
<1>5. CacheTypes'
  <2>1. entriesOf[t.pid] \in 0 .. cacheXProc /\ cacheXProc \in Nat
    BY <1>2, <1>3 DEF CacheTypes
  <2>2. ~over => entriesOf[t.pid] + 1 \in 0 .. cacheXProc
    BY <2>1
  <2>3. entriesOf' = [entriesOf EXCEPT ![t.pid] = IF over THEN entriesOf[t.pid] ELSE entriesOf[t.pid] + 1]
    BY <1>1, <1>2, <1>3 DEF CacheTypes
  <2> HIDE DEF over, t
  <2>4. entriesOf' \in [Pids -> 0 .. cacheXProc]
    BY <1>2, <1>3, <2>1, <2>2, <2>3 DEF CacheTypes
  <2> QED BY <1>1, <1>2, <2>4 DEF CacheTypes
<1> HIDE DEF over
<1>6. /\ new \in Threads /\ new.pc = "pick" /\ new.pid = t.pid /\ new.op = t.op /\ new.source = t.source
      /\ new.entry = t.entry /\ new.lru = -1 /\ new.over = over /\ new.record = 0
  <2> HIDE DEF t
  <2>1. "pick" \in Pcs /\ t \in Threads /\ over \in BOOLEAN
    BY <1>2, <1>3 DEF Pcs
  <2>2. new \in Threads
    BY ONLY <2>1 DEF Threads
  <2>3. /\ new.pc = "pick" /\ new.pid = t.pid /\ new.op = t.op /\ new.source = t.source
        /\ new.entry = t.entry /\ new.lru = t.lru /\ new.over = over /\ new.record = t.record
    BY ONLY <2>1 DEF Threads
  <2> QED BY ONLY <1>3, <2>2, <2>3
<1> HIDE DEF new
<1>7. thread'[c] = new => Ready(c)' /\ Locks(c)'
  <2> SUFFICES ASSUME thread'[c] = new PROVE Ready(c)' /\ Locks(c)'
    OBVIOUS
  <2>1. Ready(c)'
    BY <1>1, <1>2, <1>3, <1>4, <1>6 DEF Ready, Assigning, WithRecord
  <2>2. Locks(c)'
    BY <1>1, <1>2, <1>3, <1>6 DEF Locks
  <2> QED BY <2>1, <2>2
<1>8. /\ thread' = [thread EXCEPT ![c] = new]
      /\ thread[c].pc # "setpid" /\ new.pc # "setpid"
      /\ UNCHANGED <<table, available, pages>>
      /\ memory' \in [FrameIds -> SUBSET PageIds] /\ frameReaders' \in [FrameIds -> SUBSET Clients]
      /\ mutex' \in Clients \cup {None}
      /\ written' \subseteq PageIds /\ trouble \subseteq trouble' /\ trouble' \subseteq Troubles
  BY <1>1, <1>2, <1>6 DEF Types, FrameTypes, Troubles
<1>9. \A d \in Clients \ {c} :
        /\ mutex' = d <=> mutex = d
        /\ \A x \in EntryIds : /\ d \in readers'[x] => d \in readers[x]
                               /\ writer'[x] = d => writer[x] = d
  BY <1>1
<1> QED BY ONLY IInv, <1>5, <1>6, <1>7, <1>8, <1>9, CacheStep

\* The locks of a step of the choice: what the thread w leaves c, and whom.
LEMMA LeftFacts ==
  ASSUME CacheTypes, NEW c \in Clients, NEW e \in EntryIds, CanWrite(c, e),
         NEW lru \in EntryIds \cup {-1}, NEW w,
         \/ w = WriteLocked(c, e)
         \/ w = Left(WriteLocked(c, e), lru)
         \/ w = Left(WriteLocked(c, e), e)
  PROVE  /\ w \in [EntryIds -> Clients \cup {None}]
         /\ \A d \in EntryIds : w[d] = None \/ readers[d] = {}
         /\ \A d \in EntryIds, b \in Clients \ {c} : w[d] = b => writer[d] = b
         /\ \A d \in EntryIds : w[d] = c => d = e \/ writer[d] = c
         /\ w = Left(WriteLocked(c, e), lru) => \A d \in EntryIds : w[d] = c => d # lru
         /\ w = Left(WriteLocked(c, e), e) => w[e] # c
<1> USE SizeFacts
<1> DEFINE locked == WriteLocked(c, e)
<1>1. /\ locked \in [EntryIds -> Clients \cup {None}]
      /\ \A d \in EntryIds : locked[d] = None \/ readers[d] = {}
      /\ \A d \in EntryIds, b \in Clients \ {c} : locked[d] = b => writer[d] = b
      /\ \A d \in EntryIds : locked[d] = c => d = e \/ writer[d] = c
  BY DEF CacheTypes, CanWrite, WriteLocked
<1> HIDE DEF locked
<1>2. ASSUME NEW x \in EntryIds \cup {-1}
      PROVE  /\ Left(locked, x) \in [EntryIds -> Clients \cup {None}]
             /\ \A d \in EntryIds : Left(locked, x)[d] = None \/ Left(locked, x)[d] = locked[d]
             /\ \A d \in EntryIds : Left(locked, x)[d] = c => d # x
  BY <1>1 DEF Left
<1>3. w = locked \/ w = Left(locked, lru) \/ w = Left(locked, e)
  BY DEF locked
<1>4. w \in [EntryIds -> Clients \cup {None}] /\ \A d \in EntryIds : w[d] = None \/ w[d] = locked[d]
  BY <1>1, <1>2, <1>3
<1>5. /\ w = Left(locked, lru) => \A d \in EntryIds : w[d] = c => d # lru
      /\ w = Left(locked, e) => w[e] # c
  BY <1>2
<1>6. /\ \A d \in EntryIds : w[d] = None \/ readers[d] = {}
      /\ \A d \in EntryIds, b \in Clients \ {c} : w[d] = b => writer[d] = b
      /\ \A d \in EntryIds : w[d] = c => d = e \/ writer[d] = c
  BY <1>1, <1>4
<1> QED BY <1>4, <1>5, <1>6 DEF locked

\* c goes on to the next entry with l as the least recently used one, or takes it.
Onward(c, l, new) ==
  /\ new.pid = thread[c].pid /\ new.page = thread[c].page
  /\ new.op = thread[c].op /\ new.source = thread[c].source
  /\ new.over = thread[c].over /\ new.record = 0
  /\ \/ new.pc = "pick" /\ new.entry \in EntryIds /\ new.lru = l /\ l < new.entry
     \/ new.pc = "update" /\ new.entry = l /\ new.lru = -1

LEMMA ChosenThread ==
  ASSUME NEW c \in Clients, thread[c] \in Threads, thread[c].record = 0,
         NEW l \in EntryIds \cup {-1}, NEW w, Chosen(c, l, w)
  PROVE  writer' = w /\ \E new \in Threads : thread' = [thread EXCEPT ![c] = new] /\ Onward(c, l, new)
<1> DEFINE t == thread[c]
           new == [t EXCEPT !.pc = "update", !.entry = l, !.lru = -1]
<1>1. writer' = w /\ thread' = [thread EXCEPT ![c] = new]
  BY DEF Chosen, Set
<1>2. /\ new \in Threads /\ new.pc = "update" /\ new.entry = l /\ new.lru = -1
      /\ new.pid = t.pid /\ new.page = t.page /\ new.op = t.op /\ new.source = t.source
      /\ new.over = t.over /\ new.record = t.record
  <2> HIDE DEF t
  <2>1. "update" \in Pcs /\ t \in Threads /\ l \in EntryIds \cup {-1}
    BY DEF Pcs, t
  <2>2. new \in Threads
    BY ONLY <2>1 DEF Threads
  <2>3. /\ new.pc = "update" /\ new.entry = l /\ new.lru = -1
        /\ new.pid = t.pid /\ new.page = t.page /\ new.op = t.op /\ new.source = t.source
        /\ new.over = t.over /\ new.record = t.record
    BY ONLY <2>1 DEF Threads
  <2> QED BY ONLY <2>2, <2>3
<1> HIDE DEF new
<1> QED BY <1>1, <1>2 DEF Onward

LEMMA PickNextThread ==
  ASSUME NEW c \in Clients, thread[c] \in Threads, thread[c].record = 0, thread[c].pc = "pick",
         thread[c].entry \in EntryIds,
         NEW l \in EntryIds \cup {-1}, l <= thread[c].entry, NEW w, PickNext(c, l, w)
  PROVE  writer' = w /\ \E new \in Threads : thread' = [thread EXCEPT ![c] = new] /\ Onward(c, l, new)
<1> USE SizeFacts
<1> DEFINE t == thread[c]
           new == [t EXCEPT !.entry = t.entry + 1, !.lru = l]
<1>1. CASE t.entry < CacheEntries - 1
  <2>1. t.entry + 1 \in EntryIds /\ l < t.entry + 1
    BY <1>1 DEF EntryIds
  <2>2. writer' = w /\ thread' = [thread EXCEPT ![c] = new]
    BY <1>1 DEF PickNext, Set, Threads
  <2>3. /\ new \in Threads /\ new.pc = "pick" /\ new.entry = t.entry + 1 /\ new.lru = l
        /\ new.pid = t.pid /\ new.page = t.page /\ new.op = t.op /\ new.source = t.source
        /\ new.over = t.over /\ new.record = t.record
    BY <2>1 DEF Threads
  <2> HIDE DEF new
  <2> QED BY <2>1, <2>2, <2>3 DEF Onward
<1>2. CASE ~(t.entry < CacheEntries - 1)
  <2>1. Chosen(c, l, w)
    BY <1>2 DEF PickNext
  <2> QED BY <2>1, ChosenThread
<1> QED BY <1>1, <1>2

\* The entry chosen, or the best so far, is the only one c has for writing, unless
\* some process went over its limit.
LEMMA PickStep ==
  ASSUME IInv, NEW c \in Clients, Pick(c)
  PROVE  IInv'
<1> USE SizeFacts
<1> DEFINE t == thread[c]
           e == t.entry
           lru == t.lru
           locked == WriteLocked(c, e)
<1>1. /\ t.pc = "pick" /\ CanWrite(c, e)
      /\ IF ~t.over /\ cache[e].pid = -1 THEN Chosen(c, e, Left(locked, lru))
         ELSE IF ~Candidate(c, e) THEN PickNext(c, lru, locked)
         ELSE IF lru < 0 \/ Older(e, lru) THEN PickNext(c, e, Left(locked, lru))
         ELSE PickNext(c, lru, Left(locked, e))
      /\ UNCHANGED <<cacheXProc, table, available, pages, memory, cache, recent, entriesOf,
                     readers, frameReaders, mutex, asked, written, trouble>>
  BY DEF Pick, At
<1>2. Types /\ FrameTypes /\ CacheTypes /\ FramesPlaced /\ Ready(c) /\ Locks(c) /\ t \in Threads
  BY DEF IInv, Types
<1>3. /\ t.pid \in Pids /\ t.record = 0 /\ e \in EntryIds /\ lru \in EntryIds \cup {-1} /\ lru <= e
      /\ t.op = "read" => t.source \in FrameIds
      /\ t.over => "limit" \in trouble
  BY <1>1, <1>2 DEF Ready, Threads, Assigning, WithRecord
<1> HIDE DEF locked
<1>4. PICK l \in EntryIds \cup {-1}, w \in {locked, Left(locked, lru), Left(locked, e)} :
        /\ writer' = w
        /\ \E new \in Threads : thread' = [thread EXCEPT ![c] = new] /\ Onward(c, l, new)
        /\ \/ t.over
           \/ l = e /\ w = Left(locked, lru)
           \/ l = lru /\ w = Left(locked, e)
  <2>1. CASE ~t.over /\ cache[e].pid = -1
    BY <1>1, <1>2, <1>3, <2>1, ChosenThread
  <2>2. CASE ~(~t.over /\ cache[e].pid = -1) /\ ~Candidate(c, e)
    <3>1. t.over
      BY <2>2 DEF Candidate
    <3> QED BY <1>1, <1>2, <1>3, <2>2, <3>1, PickNextThread
  <2>3. CASE ~(~t.over /\ cache[e].pid = -1) /\ Candidate(c, e) /\ (lru < 0 \/ Older(e, lru))
    BY <1>1, <1>2, <1>3, <2>3, PickNextThread
  <2>4. CASE ~(~t.over /\ cache[e].pid = -1) /\ Candidate(c, e) /\ ~(lru < 0 \/ Older(e, lru))
    BY <1>1, <1>2, <1>3, <2>4, PickNextThread
  <2> QED BY <2>1, <2>2, <2>3, <2>4
<1>5. PICK new \in Threads : thread' = [thread EXCEPT ![c] = new] /\ Onward(c, l, new)
  BY <1>4
<1>6. /\ w \in [EntryIds -> Clients \cup {None}]
      /\ \A d \in EntryIds : w[d] = None \/ readers[d] = {}
      /\ \A d \in EntryIds, b \in Clients \ {c} : w[d] = b => writer[d] = b
      /\ \A d \in EntryIds : w[d] = c => d = e \/ writer[d] = c
      /\ w = Left(locked, lru) => \A d \in EntryIds : w[d] = c => d # lru
      /\ w = Left(locked, e) => w[e] # c
  <2> HIDE DEF e, lru
  <2> QED BY <1>1, <1>2, <1>3, <1>4, LeftFacts DEF locked
<1>7. ASSUME "limit" \notin trouble, NEW d \in EntryIds, w[d] = c
      PROVE  d = l
  <2>1. writer[d] = c => d = lru
    BY <1>1, <1>2, <1>7 DEF Locks
  <2>2. ~t.over
    BY <1>3, <1>7
  <2> HIDE DEF e, lru
  <2> QED BY <1>4, <1>6, <1>7, <2>1, <2>2
<1>8. CacheTypes'
  BY <1>1, <1>2, <1>4, <1>6 DEF CacheTypes
<1>9. new.pc \in {"pick", "update"}
  BY <1>5 DEF Onward
<1>10. thread'[c] = new => Ready(c)' /\ Locks(c)'
  <2> SUFFICES ASSUME thread'[c] = new PROVE Ready(c)' /\ Locks(c)'
    OBVIOUS
  <2>1. Ready(c)'
    BY <1>1, <1>2, <1>3, <1>5 DEF Ready, Onward, Assigning, WithRecord
  <2>2. mutex' = c <=> new.pc \in {"lockframe", "flush"}
    BY <1>1, <1>2, <1>9 DEF Locks
  <2>3. ASSUME NEW d \in EntryIds
        PROVE  /\ c \notin readers'[d]
               /\ writer'[d] = c /\ "limit" \notin trouble' =>
                    d = new.lru \/ (d = new.entry /\ new.pc \in {"update", "flush", "fill"})
    <3>1. c \notin readers'[d]
      BY <1>1, <1>2 DEF Locks
    <3>2. writer'[d] = c /\ "limit" \notin trouble' => d = l
      BY <1>1, <1>4, <1>7
    <3> QED BY <1>5, <3>1, <3>2 DEF Onward
  <2>4. Locks(c)'
    BY <2>2, <2>3 DEF Locks
  <2> QED BY <2>1, <2>4
<1>11. /\ thread' = [thread EXCEPT ![c] = new]
      /\ thread[c].pc # "setpid" /\ new.pc # "setpid"
      /\ UNCHANGED <<table, available, pages>>
      /\ memory' \in [FrameIds -> SUBSET PageIds] /\ frameReaders' \in [FrameIds -> SUBSET Clients]
      /\ mutex' \in Clients \cup {None}
      /\ written' \subseteq PageIds /\ trouble \subseteq trouble' /\ trouble' \subseteq Troubles
  BY <1>1, <1>2, <1>5, <1>9 DEF Types, FrameTypes
<1>12. \A d \in Clients \ {c} :
        /\ mutex' = d <=> mutex = d
        /\ \A x \in EntryIds : /\ d \in readers'[x] => d \in readers[x]
                               /\ writer'[x] = d => writer[x] = d
  BY <1>1, <1>4, <1>6
<1> QED BY ONLY IInv, new \in Threads, <1>8, <1>10, <1>11, <1>12, CacheStep

LEMMA FillStep ==
  ASSUME IInv, NEW c \in Clients, Fill(c)
  PROVE  IInv'
<1> USE SizeFacts
<1> DEFINE t == thread[c]
           e == t.entry
           page == <<t.pid, t.page>>
           filled == [pid |-> t.pid, page |-> t.page,
                      content |-> NewContent(c, cache[e].content), writed |-> Writed(c)]
<1>1. /\ t.pc = "fill" \/ (t.pc = "update" /\ e >= 0)
      /\ cache' = [cache EXCEPT ![e] =
            [pid |-> t.pid, page |-> t.page,
             content |-> NewContent(c, @.content), writed |-> Writed(c)]]
      /\ trouble' = trouble \/ trouble' = trouble \cup {"doubled"}
      /\ Unlock(c, e)
      /\ IF t.op = "read" THEN thread' = [thread EXCEPT ![c] = [t EXCEPT !.pc = "send"]]
                          ELSE thread' = [thread EXCEPT ![c] = Idle]
      /\ written' = written \cup (IF Writed(c) THEN {page} ELSE {})
      /\ UNCHANGED <<cacheXProc, table, available, pages, memory, entriesOf, frameReaders,
                     mutex, asked>>
  BY DEF Fill, At, NoteIf, GoTo, Set, Finish
<1>2. Types /\ FrameTypes /\ CacheTypes /\ FramesPlaced /\ Ready(c) /\ Locks(c) /\ t \in Threads
  BY DEF IInv, Types
<1>3. /\ t.pid \in Pids /\ t.record = 0 /\ e \in EntryIds /\ t.lru = -1 /\ t.page \in Nat
      /\ t.op = "read" => t.source \in FrameIds
  BY <1>1, <1>2 DEF Ready, Threads, Assigning, WithRecord
<1>4. page \in PageIds
  BY <1>3 DEF PageIds
<1>5. filled \in [pid : Pids \cup {-1}, page : Nat \cup {-1}, content : SUBSET PageIds, writed : BOOLEAN]
  <2>1. cache[e].content \in SUBSET PageIds /\ (t.op = "read" => memory[t.source] \in SUBSET PageIds)
    BY <1>2, <1>3 DEF CacheTypes, FrameTypes
  <2>2. NewContent(c, cache[e].content) \in SUBSET PageIds
    <3> HIDE DEF e
    <3>1. CASE t.op = "read"
      BY <2>1, <3>1 DEF NewContent
    <3>2. CASE t.op # "read"
      BY <1>4, <2>1, <3>2 DEF NewContent
    <3> QED BY <3>1, <3>2
  <2>3. Writed(c) \in BOOLEAN
    BY DEF Writed
  <2> HIDE DEF e
  <2> QED BY <1>3, <2>2, <2>3
<1> HIDE DEF page
<1>6. cache' = [cache EXCEPT ![e] = filled]
  BY <1>1, <1>2, <1>3 DEF CacheTypes
<1> HIDE DEF filled
<1>7. /\ writer' \in [EntryIds -> Clients \cup {None}]
      /\ readers' \in [EntryIds -> SUBSET Clients]
      /\ \A d \in EntryIds : writer'[d] = None \/ readers'[d] = {}
      /\ \A d \in EntryIds, b \in Clients : /\ b \in readers'[d] => b \in readers[d]
                                            /\ writer'[d] = b => writer[d] = b
      /\ writer'[e] # c
  BY <1>1, <1>2, <1>3, UnlockFacts
<1>8. CacheTypes'
  <2>1. cache' \in [EntryIds -> [pid : Pids \cup {-1}, page : Nat \cup {-1},
                                content : SUBSET PageIds, writed : BOOLEAN]]
    BY <1>2, <1>3, <1>5, <1>6 DEF CacheTypes
  <2> QED BY <1>1, <1>2, <1>7, <2>1 DEF CacheTypes
<1>9. PICK new \in Threads :
        /\ thread' = [thread EXCEPT ![c] = new]
        /\ new = Idle \/ (new.pc = "send" /\ new.pid = t.pid /\ new.source = t.source /\ new.op = t.op
                          /\ new.lru = -1 /\ new.over = t.over /\ new.record = 0)
  <2> DEFINE new == [t EXCEPT !.pc = "send"]
  <2>1. /\ new \in Threads /\ new.pc = "send" /\ new.pid = t.pid /\ new.source = t.source
        /\ new.lru = t.lru /\ new.over = t.over /\ new.record = t.record /\ new.op = t.op
    BY <1>2 DEF Threads, Pcs
  <2>2. thread' = [thread EXCEPT ![c] = new] \/ thread' = [thread EXCEPT ![c] = Idle]
    BY <1>1
  <2> HIDE DEF new
  <2> QED BY <1>3, <2>1, <2>2, IdleIsThread
<1>10. new.pc \in {"idle", "send"}
  BY <1>9 DEF Idle
<1>11. trouble \subseteq trouble' /\ trouble' \subseteq Troubles
  BY <1>1, <1>2 DEF Types, Troubles
<1>12. thread'[c] = new => Ready(c)' /\ Locks(c)'
  <2> SUFFICES ASSUME thread'[c] = new PROVE Ready(c)' /\ Locks(c)'
    OBVIOUS
  <2>1. Ready(c)'
    <3>1. CASE new = Idle
      BY <3>1 DEF Ready, Idle, Assigning, WithRecord
    <3>2. CASE new # Idle
      BY <1>1, <1>2, <1>3, <1>9, <1>11, <3>2 DEF Ready, Assigning, WithRecord
    <3> QED BY <3>1, <3>2
  <2>2. mutex' = c <=> new.pc \in {"lockframe", "flush"}
    <3>1. t.pc = "flush" => FALSE
      BY <1>1
    <3> QED BY <1>1, <1>2, <1>10, <3>1 DEF Locks
  <2>3. ASSUME NEW d \in EntryIds
        PROVE  c \notin readers'[d] /\ (writer'[d] = c => "limit" \in trouble')
    <3>1. c \notin readers[d] /\ (writer[d] = c /\ "limit" \notin trouble => d = e)
      BY <1>1, <1>2, <1>3 DEF Locks
    <3> HIDE DEF e
    <3> QED BY <1>7, <1>11, <3>1
  <2>4. Locks(c)'
    BY <2>2, <2>3 DEF Locks
  <2> QED BY <2>1, <2>4
<1>13. /\ thread' = [thread EXCEPT ![c] = new]
      /\ thread[c].pc # "setpid" /\ new.pc # "setpid"
      /\ UNCHANGED <<table, available, pages>>
      /\ memory' \in [FrameIds -> SUBSET PageIds] /\ frameReaders' \in [FrameIds -> SUBSET Clients]
      /\ mutex' \in Clients \cup {None}
      /\ written' \subseteq PageIds
  BY <1>1, <1>2, <1>4, <1>9, <1>10 DEF Types, FrameTypes
<1>14. \A d \in Clients \ {c} :
        /\ mutex' = d <=> mutex = d
        /\ \A x \in EntryIds : /\ d \in readers'[x] => d \in readers[x]
                               /\ writer'[x] = d => writer[x] = d
  BY <1>1, <1>7
<1> QED BY ONLY IInv, new \in Threads, <1>8, <1>11, <1>12, <1>13, <1>14, CacheStep

LEMMA StepIsSafe == IInv /\ [Next]_vars => IInv'
<1> SUFFICES ASSUME IInv, [Next]_vars PROVE IInv'
  OBVIOUS
<1>1. CASE UNCHANGED vars
  <2>1. UNCHANGED <<cacheXProc, table, available, pages, memory, cache, entriesOf, writer, readers,
                    frameReaders, mutex, thread, written, trouble>>
    BY <1>1 DEF vars, shared
  <2>2. FrameTypes' /\ CacheTypes'
    BY <2>1, KeepFrames, KeepCache DEF IInv, Types
  <2>3. Types'
    BY <2>1, <2>2 DEF IInv, Types
  <2>4. ASSUME NEW d \in Clients PROVE Ready(d)' /\ Locks(d)'
    BY <2>1, OthersStay DEF IInv
  <2>5. FramesPlaced'
    BY <2>1, PlacedStay DEF IInv, Held, Given
  <2> QED BY <2>3, <2>4, <2>5 DEF IInv
<1>2. ASSUME NEW c \in Clients, AskAssign(c) \/ AskEnd(c) \/ AskAccess(c)
      PROVE  IInv'
  BY <1>2, AskStep
<1>3. ASSUME NEW c \in Clients, Step(c)
      PROVE  IInv'
  <2>1. CASE \/ CheckAvailable(c) \/ SearchProcess(c) \/ CreateProcess(c)
             \/ LoadCount(c) \/ StoreCount(c) \/ ReadCount(c)
             \/ TakeFrame(c) \/ SetPid(c) \/ SetPage(c)
    BY <2>1, CheckStep, CreateStep, NumberStep, TakeStep, SetPidStep, SetPageStep
  <2>2. CASE RecordForgotten(c) \/ UpdateNowhere(c)
    BY <2>2, WildStep DEF RecordForgotten, UpdateNowhere
  <2>3. CASE ForgetProcess(c) \/ CleanTest(c) \/ CleanFrame(c)
    BY <2>3, ForgetStep, CleanTestStep, CleanFrameStep
  <2>4. CASE Scan(c) \/ ReadHit(c) \/ ReadFrame(c)
    BY <2>4, ScanStep, ReadHitStep, ReadFrameStep
  <2>5. CASE ReadFind(c) \/ FlushFind(c)
    BY <2>5, FindStep DEF ReadFind, FlushFind, At
  <2>6. CASE Count(c) \/ Pick(c) \/ Flush(c) \/ Fill(c) \/ ReadSend(c)
    BY <2>6, CountStep, PickStep, FlushStep, FillStep, SendStep
  <2> QED BY <1>3, <2>1, <2>2, <2>3, <2>4, <2>5, <2>6 DEF Step
<1> QED BY <1>1, <1>2, <1>3 DEF Next

-----------------------------------------------------------------------------
(* The theorems *)

\* The inductive invariant holds of every behaviour.
THEOREM InvariantHolds == Spec => []IInv
BY InitIsSafe, StepIsSafe, PTL DEF Spec

\* Every table keeps its type, only the thread that searches the table of frames has
\* mutex_lock, and no entry is locked for writing and for reading at once.
THEOREM MemoryTypes == Spec => []TypeOK
<1>1. IInv => TypeOK
  <2> SUFFICES ASSUME IInv PROVE TypeOK
    OBVIOUS
  <2>1. \A f \in FrameIds : /\ table[f].pid \in Pids \cup {-1, 0} /\ table[f].page \in Nat
                            /\ memory[f] \subseteq PageIds /\ frameReaders[f] \subseteq Clients
    BY DEF IInv, Types, FrameTypes
  <2>2. /\ available \in Seq(FrameIds)
        /\ \A p \in Pids : pages[p] \in Seq(Nat) /\ entriesOf[p] \in 0 .. cacheXProc
    BY DEF IInv, Types, FrameTypes, CacheTypes
  <2>3. \A e \in EntryIds : /\ cache[e].pid \in Pids \cup {-1} /\ cache[e].content \subseteq PageIds
                            /\ writer[e] = None \/ readers[e] = {}
    BY DEF IInv, Types, CacheTypes
  <2>4. mutex # None <=> \E c \in Clients : thread[c].pc \in {"lockframe", "flush"}
    BY SizeFacts DEF IInv, Types, Locks
  <2> QED BY <2>1, <2>2, <2>3, <2>4 DEF TypeOK, IInv, Types
<1> QED BY <1>1, InvariantHolds, PTL

\* Every frame is at exactly one place of a run in which the two races of the list of
\* available frames, which nothing locks, were not lost.
THEOREM FramesAreConserved == Spec => []FramesConserved
<1>1. ASSUME IInv, trouble \cap {"taken", "twice"} = {}, NEW f \in FrameIds
      PROVE  /\ Cardinality(Places(f)) = 1
             /\ f < Admin <=> table[f].pid = -1
  <2>1. OnePlace(f)
    BY <1>1 DEF IInv, FramesPlaced
  <2>2. \E x : Places(f) = {x}
    <3>1. CASE Held(f)
      <4>1. ~Listed(f) /\ \A c \in Clients : ~Given(c, f)
        BY <2>1, <3>1 DEF OnePlace
      <4>2. Places(f) = {<<"table", table[f].pid>>}
        BY <3>1, <4>1 DEF Places, Held, Listed, Given
      <4> QED BY <4>2
    <3>2. CASE ~Held(f) /\ Listed(f)
      <4>1. PICK i \in DOMAIN available : available[i] = f
        BY <3>2 DEF Listed
      <4>2. \A j \in DOMAIN available : available[j] = f => j = i
        BY <2>1, <4>1 DEF OnePlace
      <4>3. \A c \in Clients : ~Given(c, f)
        BY <2>1, <3>2 DEF OnePlace
      <4>4. Places(f) = {<<"available", i>>}
        BY <3>2, <4>1, <4>2, <4>3 DEF Places, Held, Given
      <4> QED BY <4>4
    <3>3. CASE ~Held(f) /\ ~Listed(f)
      <4>1. PICK c \in Clients : Given(c, f)
        BY <2>1, <3>3 DEF OnePlace
      <4>2. \A d \in Clients : Given(d, f) => d = c
        BY <2>1, <4>1 DEF OnePlace
      <4>3. Places(f) = {<<"thread", c>>}
        BY <3>3, <4>1, <4>2 DEF Places, Held, Listed, Given
      <4> QED BY <4>3
    <3> QED BY <3>1, <3>2, <3>3
  <2>3. Cardinality(Places(f)) = 1
    BY <2>2, FS_Singleton
  <2> QED BY <2>1, <2>3 DEF OnePlace
<1>2. IInv => FramesConserved
  BY <1>1 DEF FramesConserved
<1> QED BY <1>2, InvariantHolds, PTL

\* Who is waited for: a thread that reads or writes a frame under mutex_lock, one that
\* sends from an entry, one that reads the frame, or one that has an entry for writing.
LEMMA WaitFacts ==
  ASSUME IInv, NEW c \in Clients, NEW d \in Clients, WaitsFor(c, d)
  PROVE  \/ thread[c].pc = "flush"
         \/ thread[c].pc \in {"find", "count", "update"} /\ thread[d].pc \in {"lockframe", "flush"}
         \/ thread[c].pc \in {"scan", "pick"} /\ thread[c].entry \in EntryIds /\ thread[d].pc = "hit"
         \/ thread[c].pc \in {"scan", "pick"} /\ thread[c].entry \in EntryIds
            /\ writer[thread[c].entry] = d
<1>1. Ready(c) /\ Locks(d)
  BY DEF IInv
<1>2. thread[c].pc \in {"scan", "pick"} => thread[c].entry \in EntryIds
  BY <1>1 DEF Ready, Assigning, WithRecord
<1>3. mutex = d => thread[d].pc \in {"lockframe", "flush"}
  BY <1>1 DEF Locks
<1>4. \A e \in EntryIds : d \in readers[e] => thread[d].pc = "hit"
  BY <1>1 DEF Locks
<1> QED BY <1>2, <1>3, <1>4 DEF WaitsFor

\* Two threads do not wait for each other, and none waits for one that is idle, but for
\* a flush to a frame that is being read or an entry left locked; and none is left
\* locked while every process keeps within its entries.  Two threads that choose an
\* entry never hold what the other waits for: each goes up the cache.
THEOREM ThreadsStuckForACause == Spec => []StuckForACause
<1> USE SizeFacts
<1>1. ASSUME IInv, NEW c \in Clients, NEW d \in Clients, WaitsFor(c, d),
             thread[d].pc = "idle" \/ WaitsFor(d, c)
      PROVE  \E b \in {c, d} :
               \/ thread[b].pc = "flush"
               \/ thread[b].pc \in {"scan", "pick"} /\ Forgotten(thread[b].entry)
  <2> SUFFICES ASSUME thread[c].pc # "flush", thread[d].pc # "flush"
               PROVE  \E b \in {c, d} : thread[b].pc \in {"scan", "pick"} /\ Forgotten(thread[b].entry)
    OBVIOUS
  <2>1. Ready(c) /\ Ready(d)
    BY <1>1 DEF IInv
  <2>2. WaitsFor(d, c) => thread[d].pc \in {"find", "count", "update", "scan", "pick"}
    BY <1>1, WaitFacts
  <2>3. /\ thread[c].pc \in {"scan", "pick"} /\ thread[c].entry \in EntryIds
        /\ writer[thread[c].entry] = d
    BY <1>1, <2>2, WaitFacts
  <2>4. CASE thread[d].pc = "idle"
    <3>1. thread[d].lru = -1
      BY <2>1, <2>4 DEF Ready, Assigning, WithRecord
    <3>2. Forgotten(thread[c].entry)
      BY <2>3, <2>4, <3>1 DEF Forgotten
    <3> QED BY <2>3, <3>2
  <2>5. CASE WaitsFor(d, c)
    <3>1. /\ thread[d].pc \in {"scan", "pick"} /\ thread[d].entry \in EntryIds
          /\ writer[thread[d].entry] = c
      BY <1>1, <2>3, <2>5, WaitFacts
    <3>2. thread[c].entry # thread[d].lru => Forgotten(thread[c].entry)
      BY <2>3, <3>1 DEF Forgotten
    <3>3. thread[d].entry # thread[c].lru => Forgotten(thread[d].entry)
      BY <2>3, <3>1 DEF Forgotten
    <3>4. thread[c].entry # thread[d].lru \/ thread[d].entry # thread[c].lru
      <4> SUFFICES ASSUME thread[c].entry = thread[d].lru, thread[d].entry = thread[c].lru
                   PROVE  FALSE
        OBVIOUS
      <4>1. thread[c].lru < thread[c].entry /\ thread[d].lru < thread[d].entry
        BY <2>1, <2>3, <3>1 DEF Ready, Assigning, WithRecord
      <4> QED BY <2>3, <3>1, <4>1
    <3> QED BY <2>3, <3>1, <3>2, <3>3, <3>4
  <2> QED BY <1>1, <2>4, <2>5
<1>2. ASSUME IInv, NEW e \in EntryIds, Forgotten(e)
      PROVE  "limit" \in trouble
  <2>1. PICK c \in Clients : writer[e] = c /\ e # thread[c].lru
          /\ ~(e = thread[c].entry /\ thread[c].pc \in {"update", "flush", "fill"})
    BY <1>2 DEF Forgotten
  <2>2. Locks(c)
    BY <1>2 DEF IInv
  <2> QED BY <2>1, <2>2 DEF Locks
<1>3. IInv => StuckForACause
  BY <1>1, <1>2 DEF StuckForACause
<1> QED BY <1>3, InvariantHolds, PTL

-----------------------------------------------------------------------------
(* The pages of the frames *)

\* The page of a frame that a thread gives is the thread's, and the table's otherwise.
LEMMA PageAtFacts ==
  ASSUME NEW f
  PROVE  /\ \A c \in Clients : Gives(c, f) /\ (\A d \in Clients : Gives(d, f) => d = c) =>
              PageAt(f) = PageOf(c)
         /\ \A c \in Clients : Gives(c, f)' /\ (\A d \in Clients : Gives(d, f)' => d = c) =>
              PageAt(f)' = PageOf(c)'
         /\ ~BeingGiven(f) => PageAt(f) = <<table[f].pid, table[f].page>>
         /\ ~BeingGiven(f)' => PageAt(f)' = <<table'[f].pid, table'[f].page>>
<1>1. ASSUME NEW c \in Clients, Gives(c, f), \A d \in Clients : Gives(d, f) => d = c
      PROVE  PageAt(f) = PageOf(c)
  <2>1. BeingGiven(f) /\ (CHOOSE d \in Clients : Gives(d, f)) = c
    BY <1>1 DEF BeingGiven
  <2> QED BY <2>1 DEF PageAt, PageOf
<1>2. ASSUME NEW c \in Clients, Gives(c, f)', \A d \in Clients : Gives(d, f)' => d = c
      PROVE  PageAt(f)' = PageOf(c)'
  <2>1. BeingGiven(f)' /\ (CHOOSE d \in Clients : Gives(d, f)') = c
    BY <1>2 DEF BeingGiven
  <2> QED BY <2>1 DEF PageAt, PageOf
<1>3. ~BeingGiven(f) => PageAt(f) = <<table[f].pid, table[f].page>>
  BY DEF PageAt
<1>4. ~BeingGiven(f)' => PageAt(f)' = <<table'[f].pid, table'[f].page>>
  BY DEF PageAt
<1> QED BY <1>1, <1>2, <1>3, <1>4

\* A frame that the same thread gives, or nobody, has the page it had.
LEMMA PageStays ==
  ASSUME NEW f, \A d \in Clients : Gives(d, f)' <=> Gives(d, f),
         table'[f] = table[f] \/ BeingGiven(f),
         \A d \in Clients : Gives(d, f) => /\ PageOf(d)' = PageOf(d)
                                           /\ \A b \in Clients : Gives(b, f) => b = d
  PROVE  PageAt(f)' = PageAt(f) /\ (BeingGiven(f)' <=> BeingGiven(f))
<1>1. BeingGiven(f)' <=> BeingGiven(f)
  BY DEF BeingGiven
<1>2. CASE BeingGiven(f)
  <2>1. PICK d \in Clients : Gives(d, f)
    BY <1>2 DEF BeingGiven
  <2>2. PageAt(f) = PageOf(d) /\ PageAt(f)' = PageOf(d)'
    BY <2>1, PageAtFacts
  <2> QED BY <1>1, <2>1, <2>2
<1>3. CASE ~BeingGiven(f)
  BY <1>1, <1>3, PageAtFacts
<1> QED BY <1>2, <1>3

\* The first frame that says it is a page, where get_frame stops, is the one that is.
LEMMA HomeIsFirst ==
  ASSUME Types, GivenInTurn, FramesInOrder, NEW f \in FrameIds, NEW p \in Pids, NEW k,
         Owns(f, <<p, k>>)
  PROVE  FramesOf(p, k) # {} /\ Min(FramesOf(p, k)) = f
<1> USE SizeFacts
<1>1. table[f].pid = p /\ table[f].page = k /\ PageAt(f) = <<p, k>>
  BY PageAtFacts DEF Owns
<1>2. table[f] \in [pid : Pids \cup {-1, 0}, page : Nat] /\ k \in Nat
  BY <1>1 DEF Types, FrameTypes
<1>3. f \in FramesOf(p, k)
  BY <1>1, <1>2 DEF FramesOf
<1>4. ASSUME NEW g \in FramesOf(p, k) PROVE f <= g
  <2>1. g \in FrameIds /\ table[g].pid = p /\ table[g].page = k
    BY <1>4 DEF FramesOf
  <2> f \in Int /\ g \in Int
    BY <2>1 DEF FrameIds
  <2>2. SUFFICES ASSUME g < f PROVE FALSE
    OBVIOUS
  <2>3. CASE BeingGiven(g)
    <3>1. PICK c \in Clients : Gives(c, g)
      BY <2>3 DEF BeingGiven
    <3>2. /\ k = 0 /\ thread[c].pid = p
          /\ \A d \in Clients : Gives(d, g) => d = c
      <4>1. table[g].page = 0 /\ (table[g].pid = IF thread[c].pc = "setpid" THEN 0 ELSE thread[c].pid)
        BY <2>1, <3>1 DEF GivenInTurn
      <4>2. \A d \in Clients : Gives(d, g) => d = c
        BY <2>1, <3>1 DEF GivenInTurn
      <4> QED BY <2>1, <4>1, <4>2
    <3>3. PageAt(g) = <<p, thread[c].page>>
      BY <3>1, <3>2, PageAtFacts DEF PageOf
    <3>4. thread[c].page \in Nat
      BY DEF Types, Threads
    <3> QED BY <1>1, <2>1, <2>2, <3>2, <3>3, <3>4 DEF FramesInOrder
  <2>4. CASE ~BeingGiven(g)
    <3>1. PageAt(g) = <<p, k>>
      BY <2>1, <2>4, PageAtFacts
    <3> QED BY <1>1, <1>2, <2>1, <2>2, <3>1 DEF FramesInOrder
  <2> QED BY <2>3, <2>4
<1>5. FramesOf(p, k) \subseteq Nat
  BY DEF FramesOf, FrameIds
<1> DEFINE S == FramesOf(p, k)
<1> HIDE DEF S
<1>6. Min(S) \in S /\ \A y \in S : Min(S) <= y
  <2>1. \E x \in S : \A y \in S : x <= y
    BY <1>3, <1>4 DEF S
  <2> QED BY <2>1 DEF Min
<1>7. f \in S /\ (\A g \in S : f <= g) /\ S \subseteq Nat
  BY <1>3, <1>4, <1>5 DEF S
<1>8. Min(S) = f
  <2>1. f <= Min(S) /\ Min(S) <= f /\ f \in Nat /\ Min(S) \in Nat
    BY <1>6, <1>7
  <2> QED BY <2>1
<1>9. S # {}
  BY <1>7
<1> QED BY ONLY <1>8, <1>9 DEF S

\* A page of a process is in one frame at most.
LEMMA OneOwner ==
  ASSUME FramesInOrder, NEW f \in FrameIds, NEW g \in FrameIds, NEW page,
         PageAt(f) = page, PageAt(g) = page, page[1] \in Pids, page[2] \in Nat
  PROVE  f = g
BY SizeFacts DEF FramesInOrder

\* No frame's page changes, nor whether it is being given.
SamePages == \A f \in FrameIds : PageAt(f)' = PageAt(f) /\ (BeingGiven(f)' <=> BeingGiven(f))

\* A step of a thread that gives no frame and does not begin to give one.
LEMMA PagesOfFramesStay ==
  ASSUME Types, FramesAgree, NEW c \in Clients, NEW new,
         thread' = [thread EXCEPT ![c] = new], UNCHANGED <<table, available>>,
         thread[c].pc \notin {"setpid", "setpage"},
         new.pc \notin {"setpid", "setpage", "clean", "free"}
  PROVE  SamePages /\ Unended' /\ ListInOrder' /\ GivenInTurn' /\ FramesInOrder'
<1>1. thread'[c] = new /\ \A d \in Clients \ {c} : thread'[d] = thread[d]
  BY DEF Types
<1>2. \A d \in Clients, f \in FrameIds : /\ Gives(d, f)' <=> Gives(d, f)
                                         /\ Gives(d, f) => d # c
  BY <1>1 DEF Gives
<1>3. SamePages
  <2>1. ASSUME NEW f \in FrameIds PROVE PageAt(f)' = PageAt(f) /\ (BeingGiven(f)' <=> BeingGiven(f))
    <3>1. \A d \in Clients : Gives(d, f)' <=> Gives(d, f)
      BY <1>2
    <3>2. ASSUME NEW d \in Clients, Gives(d, f)
          PROVE  PageOf(d)' = PageOf(d) /\ \A b \in Clients : Gives(b, f) => b = d
      BY <1>1, <1>2, <3>2 DEF PageOf, FramesAgree, GivenInTurn
    <3> QED BY <3>1, <3>2, PageStays
  <2> QED BY <2>1 DEF SamePages
<1>4. Unended' /\ ListInOrder'
  BY <1>1 DEF FramesAgree, Unended, ListInOrder
<1>5. GivenInTurn'
  BY <1>1, <1>2 DEF FramesAgree, GivenInTurn, Free
<1>6. FramesInOrder'
  BY <1>3 DEF FramesAgree, FramesInOrder, SamePages
<1> QED BY <1>3, <1>4, <1>5, <1>6

\* Of the numbers of pages it is enough to look at those of the thread that takes a step
\* and at the counts that it changes.
LEMMA NumbersStay ==
  ASSUME Types, FramesAgree, NEW c \in Clients, NEW new, NEW p \in Pids,
         thread' = [thread EXCEPT ![c] = new],
         \A f \in FrameIds : PageAt(f)' = PageAt(f),
         \A q \in Pids \ {p} : pages'[q] = pages[q],
         Len(pages'[p]) <= 1,
         \/ pages' = pages
         \/ /\ \A d \in Clients \ {c} : Numbering(d) => thread[d].pid # p
            /\ \A f \in FrameIds :
                 PageAt(f)[1] = p => Len(pages'[p]) = 1 /\ PageAt(f)[2] < pages'[p][1],
         new.pc \in WithRecord => new.record = 1,
         \A d \in Clients : Numbering(d) => thread[d].pid \in Pids,
         thread'[c] = new /\ Numbering(c)' =>
           /\ pages'[new.pid][1] = IF new.pc = "store" THEN NumberOf(c)' ELSE NumberOf(c)' + 1
           /\ \A d \in Clients \ {c} : Numbering(d) => thread[d].pid # new.pid
           /\ \A f \in FrameIds : PageAt(f)[1] = new.pid => PageAt(f)[2] < NumberOf(c)'
  PROVE  NumberedInTurn'
<1>1. thread'[c] = new /\ \A d \in Clients \ {c} : thread'[d] = thread[d]
  BY DEF Types
<1>2. ASSUME NEW d \in Clients
      PROVE  /\ thread'[d].pc \in WithRecord => thread'[d].record = 1
             /\ Numbering(d)' =>
                  /\ pages'[thread'[d].pid][1] =
                       IF thread'[d].pc = "store" THEN NumberOf(d)' ELSE NumberOf(d)' + 1
                  /\ \A b \in Clients : Numbering(b)' /\ thread'[b].pid = thread'[d].pid => b = d
                  /\ \A f \in FrameIds :
                       PageAt(f)'[1] = thread'[d].pid => PageAt(f)'[2] < NumberOf(d)'
  <2>1. \A b \in Clients \ {c} : Numbering(b)' <=> Numbering(b)
    BY <1>1 DEF Numbering
  <2>2. CASE d = c
    BY <1>1, <2>1, <2>2
  <2>3. CASE d # c
    <3>1. thread'[d] = thread[d] /\ (Numbering(d)' <=> Numbering(d))
      BY <1>1, <2>1, <2>3
    <3>2. SUFFICES ASSUME Numbering(d)
                   PROVE  /\ pages'[thread'[d].pid][1] =
                               IF thread'[d].pc = "store" THEN NumberOf(d)' ELSE NumberOf(d)' + 1
                          /\ \A b \in Clients : Numbering(b)' /\ thread'[b].pid = thread'[d].pid => b = d
                          /\ \A f \in FrameIds :
                               PageAt(f)'[1] = thread'[d].pid => PageAt(f)'[2] < NumberOf(d)'
      BY <3>1 DEF FramesAgree, NumberedInTurn
    <3>3. pages'[thread[d].pid] = pages[thread[d].pid]
      BY <2>3, <3>2
    <3>4. NumberOf(d)' = NumberOf(d)
      BY <3>1, <3>3 DEF NumberOf
    <3>5. \A b \in Clients : Numbering(b)' /\ thread'[b].pid = thread'[d].pid => b = d
      BY <1>1, <2>1, <2>3, <3>1, <3>2 DEF FramesAgree, NumberedInTurn
    <3> QED BY <3>1, <3>2, <3>3, <3>4, <3>5 DEF FramesAgree, NumberedInTurn
  <2> QED BY <2>2, <2>3
<1>3. \A f \in FrameIds : PageAt(f)'[1] \in Pids =>
         Len(pages'[PageAt(f)'[1]]) = 1 /\ PageAt(f)'[2] < pages'[PageAt(f)'[1]][1]
  BY DEF FramesAgree, NumberedInTurn
<1>4. \A q \in Pids : Len(pages'[q]) <= 1
  BY DEF FramesAgree, NumberedInTurn
<1> QED BY <1>2, <1>3, <1>4 DEF NumberedInTurn

\* A step of a thread that gives no frame and numbers no page, nor begins to.
LEMMA FramesStay ==
  ASSUME Types, FramesAgree, NEW c \in Clients, NEW new,
         thread' = [thread EXCEPT ![c] = new], UNCHANGED <<table, available, pages>>,
         ~Numbering(c), thread[c].pc \notin {"setpid", "setpage"},
         new.pc \notin {"store", "number", "frame", "setpid", "setpage", "clean", "free"},
         new.pc \in WithRecord => new.record = 1
  PROVE  FramesAgree' /\ SamePages
<1>1. thread'[c] = new /\ \A d \in Clients \ {c} : thread'[d] = thread[d]
  BY DEF Types
<1>3. \A d \in Clients : /\ Numbering(d)' <=> Numbering(d)
                         /\ Numbering(d) => d # c
  BY <1>1 DEF Numbering
<1>4. SamePages /\ Unended' /\ ListInOrder' /\ GivenInTurn' /\ FramesInOrder'
  BY PagesOfFramesStay
<1>7. NumberedInTurn'
  <2>1. ASSUME NEW d \in Clients
        PROVE  /\ thread'[d].pc \in WithRecord => thread'[d].record = 1
               /\ Numbering(d)' =>
                    /\ pages'[thread'[d].pid][1] =
                         IF thread'[d].pc = "store" THEN NumberOf(d)' ELSE NumberOf(d)' + 1
                    /\ \A b \in Clients : Numbering(b)' /\ thread'[b].pid = thread'[d].pid => b = d
                    /\ \A f \in FrameIds :
                         PageAt(f)'[1] = thread'[d].pid => PageAt(f)'[2] < NumberOf(d)'
    <3>1. CASE d = c
      BY <1>1, <1>3, <3>1
    <3>2. CASE d # c
      <4>1. thread'[d] = thread[d] /\ NumberOf(d)' = NumberOf(d)
        BY <1>1, <3>2 DEF NumberOf
      <4>2. Numbering(d) => \A b \in Clients : Numbering(b)' /\ thread'[b].pid = thread'[d].pid => b = d
        BY <1>1, <1>3, <4>1 DEF FramesAgree, NumberedInTurn
      <4> QED BY <1>3, <1>4, <4>1, <4>2 DEF FramesAgree, NumberedInTurn, SamePages
    <3> QED BY <3>1, <3>2
  <2>2. \A f \in FrameIds : PageAt(f)'[1] \in Pids =>
           Len(pages'[PageAt(f)'[1]]) = 1 /\ PageAt(f)'[2] < pages'[PageAt(f)'[1]][1]
    BY <1>4 DEF FramesAgree, NumberedInTurn, SamePages
  <2>3. \A p \in Pids : Len(pages'[p]) <= 1
    BY DEF FramesAgree, NumberedInTurn
  <2> QED BY <2>1, <2>2, <2>3 DEF NumberedInTurn
<1> QED BY <1>4, <1>7 DEF FramesAgree

\* A frame keeps its page from the time it is no longer being given, and no other frame
\* has the page it gets then.
OwnersStay ==
  \A f \in FrameIds :
    /\ ~BeingGiven(f) /\ PageAt(f)[1] \in Pids => ~BeingGiven(f)' /\ PageAt(f)' = PageAt(f)
    /\ ~BeingGiven(f)' =>
         \/ ~BeingGiven(f) /\ PageAt(f)' = PageAt(f)
         \/ /\ PageAt(f)'[1] \in Pids
            /\ \A g \in FrameIds : ~BeingGiven(g) => PageAt(g) # PageAt(f)'

\* What a thread or an entry knows of a page with a frame stays so while the owners stay.
LEMMA OwnerFacts ==
  ASSUME OwnersStay
  PROVE  /\ \A f \in FrameIds : \A page : page[1] \in Pids /\ Owns(f, page) => Owns(f, page)'
         /\ \A page : page[1] \in Pids /\ HasFrame(page) => HasFrame(page)'
         /\ \A f \in FrameIds : \A page :
              Owns(f, page)' /\ ~Owns(f, page) => page[1] \in Pids /\ ~HasFrame(page)
<1>1. ASSUME NEW f \in FrameIds, NEW page, page[1] \in Pids, Owns(f, page) PROVE Owns(f, page)'
  BY <1>1 DEF OwnersStay, Owns
<1>2. ASSUME NEW page, page[1] \in Pids, HasFrame(page) PROVE HasFrame(page)'
  BY <1>1, <1>2 DEF HasFrame
<1>3. ASSUME NEW f \in FrameIds, NEW page, Owns(f, page)', ~Owns(f, page)
      PROVE  page[1] \in Pids /\ ~HasFrame(page)
  BY <1>3 DEF OwnersStay, Owns, HasFrame
<1> QED BY <1>1, <1>2, <1>3

\* Where no frame's page changes the owners stay.
LEMMA SameOwners ==
  ASSUME SamePages
  PROVE  /\ OwnersStay
         /\ \A f \in FrameIds : \A page : Owns(f, page)' <=> Owns(f, page)
         /\ \A page : HasFrame(page)' <=> HasFrame(page)
<1>1. \A f \in FrameIds : \A page : Owns(f, page)' <=> Owns(f, page)
  BY DEF SamePages, Owns
<1>2. \A page : HasFrame(page)' <=> HasFrame(page)
  BY <1>1 DEF HasFrame
<1>3. OwnersStay
  BY DEF SamePages, OwnersStay
<1> QED BY <1>1, <1>2, <1>3

\* A thread that takes no part in a step that leaves the entries as they are.
LEMMA OthersAtHome ==
  ASSUME IInv, CacheAgrees, OwnersStay, NEW d \in Clients, thread'[d] = thread[d],
         UNCHANGED cache, UNCHANGED memory,
         \A e \in EntryIds : writer[e] = d => writer'[e] = d
  PROVE  WorksAtHome(d)' /\ \A e \in EntryIds : HasEntry(d, e)'
<1> DEFINE t == thread[d]
           page == <<t.pid, t.page>>
<1>1. t.pc \in Accessing =>
        /\ t.op \in {"read", "write"} /\ HasFrame(page)
        /\ \A f \in FrameIds :
             /\ t.pc = "lockframe" /\ t.frame = f => Owns(f, page)
             /\ t.pc \in {"count", "pick"} \cup Filling /\ t.op = "read" /\ t.source = f =>
                  Owns(f, page)
  BY DEF CacheAgrees, WorksAtHome, PageOf
<1> t.pc \in Accessing => page[1] \in Pids
  BY DEF IInv, Ready, Accessing
<1>2. t.pc \in Accessing /\ HasFrame(page) => \E f \in FrameIds : PageAt(f)' = page /\ ~BeingGiven(f)'
  <2> HIDE DEF page
  <2>1. HasFrame(page) => \E f \in FrameIds : PageAt(f) = page /\ ~BeingGiven(f)
    BY DEF HasFrame, Owns
  <2> QED BY <2>1 DEF OwnersStay
<1>3. \A f \in FrameIds : t.pc \in Accessing /\ Owns(f, page) => PageAt(f)' = page /\ ~BeingGiven(f)'
  <2> HIDE DEF page
  <2> QED BY DEF OwnersStay, Owns
<1>4. WorksAtHome(d)'
  BY <1>1, <1>2, <1>3 DEF WorksAtHome, PageOf, HasFrame, Owns
<1>5. ASSUME NEW e \in EntryIds PROVE HasEntry(d, e)'
  <2> DEFINE held == <<cache[e].pid, cache[e].page>>
  <2>1. /\ t.pc = "pick" /\ t.lru = e => writer[e] = d
        /\ t.pc \in Filling /\ t.entry = e => writer[e] = d
        /\ t.pc = "flush" /\ t.entry = e =>
             cache[e].writed /\ \A f \in FrameIds : t.frame = f => Owns(f, held)
        /\ t.pc = "fill" /\ t.entry = e =>
             \A f \in FrameIds : Owns(f, held) => memory[f] = cache[e].content
    BY DEF CacheAgrees, HasEntry, EntryPage
  <2>2. \A f \in FrameIds : cache[e].writed /\ Owns(f, held) => PageAt(f)' = held /\ ~BeingGiven(f)'
    <3>1. cache[e].writed => held[1] \in Pids
      <4>1. cache[e].pid \in Pids \cup {-1}
        BY DEF IInv, Types, CacheTypes
      <4> QED BY <4>1 DEF CacheAgrees, EntryIsTrue
    <3> HIDE DEF held
    <3> QED BY <3>1 DEF OwnersStay, Owns
  <2>3. \A f \in FrameIds : PageAt(f)' = held /\ ~BeingGiven(f)' => Owns(f, held)
    <3>1. held[1] \in Pids => HasFrame(held)
      <4>1. cache[e].pid \in Pids => cache[e].pid # -1
        BY SizeFacts
      <4> QED BY <4>1 DEF CacheAgrees, EntryIsTrue, EntryPage
    <3> HIDE DEF held
    <3>2. ASSUME NEW f \in FrameIds, PageAt(f)' = held, ~BeingGiven(f)', ~Owns(f, held)
          PROVE  FALSE
      <4>1. Owns(f, held)'
        BY <3>2 DEF Owns, held
      <4> QED BY <3>1, <3>2 DEF OwnersStay, Owns, HasFrame
    <3> QED BY <3>2
  <2> QED BY <2>1, <2>2, <2>3 DEF HasEntry, EntryPage, Owns
<1> QED BY <1>4, <1>5

\* A step of c that leaves the entries and the frames as they are.
LEMMA EntriesStay ==
  ASSUME IInv, CacheAgrees, OwnersStay, NEW c \in Clients, NEW new,
         thread' = [thread EXCEPT ![c] = new], UNCHANGED <<cache, memory, written>>,
         \A d \in Clients \ {c}, e \in EntryIds : writer[e] = d => writer'[e] = d,
         WorksAtHome(c)', \A e \in EntryIds : HasEntry(c, e)'
  PROVE  CacheAgrees'
<1>1. \A d \in Clients \ {c} : thread'[d] = thread[d]
  BY DEF IInv, Types
<1>2. \A d \in Clients : WorksAtHome(d)' /\ \A e \in EntryIds : HasEntry(d, e)'
  <2>1. ASSUME NEW d \in Clients \ {c}
        PROVE  WorksAtHome(d)' /\ \A e \in EntryIds : HasEntry(d, e)'
    BY <1>1, OthersAtHome
  <2> QED BY <2>1
<1>3. ASSUME NEW e \in EntryIds PROVE EntryIsTrue(e)'
  <2> DEFINE held == <<cache[e].pid, cache[e].page>>
  <2>1. CASE cache[e].pid = -1
    BY <2>1 DEF CacheAgrees, EntryIsTrue
  <2>2. CASE cache[e].pid # -1
    <3>1. /\ HasFrame(held)
          /\ \A d \in EntryIds : EntryPage(d) = held => d = e
          /\ \A f \in FrameIds : Owns(f, held) /\ ~cache[e].writed => memory[f] = cache[e].content
      BY <2>2 DEF CacheAgrees, EntryIsTrue, EntryPage
    <3>2. /\ \E f \in FrameIds : PageAt(f)' = held /\ ~BeingGiven(f)'
          /\ \A f \in FrameIds : PageAt(f)' = held /\ ~BeingGiven(f)' => Owns(f, held)
      <4> held[1] \in Pids
        <5>1. cache[e].pid \in Pids \cup {-1}
          BY DEF IInv, Types, CacheTypes
        <5> QED BY <2>2, <5>1
      <4> HIDE DEF held
      <4>1. \A f \in FrameIds : Owns(f, held) => PageAt(f)' = held /\ ~BeingGiven(f)'
        BY DEF OwnersStay, Owns
      <4>2. ASSUME NEW f \in FrameIds, PageAt(f)' = held, ~BeingGiven(f)', ~Owns(f, held)
            PROVE  FALSE
        BY <3>1, <4>2 DEF HasFrame, Owns, OwnersStay
      <4> QED BY <3>1, <4>1, <4>2 DEF HasFrame
    <3> QED BY <2>2, <3>1, <3>2 DEF EntryIsTrue, EntryPage, HasFrame, Owns
  <2> QED BY <2>1, <2>2
<1>4. ASSUME NEW page \in written PROVE WriteIsKept(page)'
  <2>1. WriteIsKept(page)
    BY DEF CacheAgrees
  <2> page[1] \in Pids
    BY DEF IInv, Types, PageIds
  <2>2. HasFrame(page)' /\ \A f \in FrameIds : Owns(f, page)' => Owns(f, page)
    BY <2>1, OwnerFacts DEF WriteIsKept
  <2>3. \A e \in EntryIds : EntryPage(e)' = EntryPage(e)
    BY DEF EntryPage
  <2> QED BY <2>1, <2>2, <2>3 DEF WriteIsKept
<1> QED BY <1>2, <1>3, <1>4 DEF CacheAgrees

\* A step of c that gives no frame, numbers no page and leaves the entries as they are.
LEMMA QuietStep ==
  ASSUME IInv, Types, FramesAgree, CacheAgrees, NEW c \in Clients, NEW new,
         thread' = [thread EXCEPT ![c] = new],
         UNCHANGED <<table, available, pages, memory, cache, written>>,
         ~Numbering(c), thread[c].pc \notin {"setpid", "setpage"},
         new.pc \notin {"store", "number", "frame", "setpid", "setpage", "clean", "free"},
         new.pc \in WithRecord => new.record = 1,
         \A d \in Clients \ {c}, e \in EntryIds : writer[e] = d => writer'[e] = d,
         SamePages => WorksAtHome(c)' /\ \A e \in EntryIds : HasEntry(c, e)'
  PROVE  FramesAgree' /\ CacheAgrees'
<1>1. FramesAgree' /\ SamePages
  BY FramesStay
<1>2. OwnersStay
  BY <1>1, SameOwners
<1>3. CacheAgrees'
  BY <1>1, <1>2, EntriesStay
<1> QED BY <1>1, <1>3

\* The same of a step after which the thread works on no page.
LEMMA OffStep ==
  ASSUME IInv, Types, FramesAgree, CacheAgrees, NEW c \in Clients, NEW new,
         thread' = [thread EXCEPT ![c] = new],
         UNCHANGED <<table, available, pages, memory, cache, written>>,
         ~Numbering(c), thread[c].pc \notin {"setpid", "setpage"},
         new.pc \in {"idle", "check", "search", "create", "forget", "take"},
         new.pc = "take" => new.record = 1,
         \A d \in Clients \ {c}, e \in EntryIds : writer[e] = d => writer'[e] = d
  PROVE  FramesAgree' /\ CacheAgrees'
<1>1. thread'[c] = new
  BY DEF Types
<1>2. new.pc \notin Accessing
  BY DEF Accessing
<1>3. new.pc \notin {"store", "number", "frame", "setpid", "setpage", "clean", "free"}
  OBVIOUS
<1>4. new.pc \in WithRecord => new.record = 1
  BY DEF WithRecord
<1>5. WorksAtHome(c)' /\ \A e \in EntryIds : HasEntry(c, e)'
  BY <1>1, <1>2 DEF WorksAtHome, HasEntry, Accessing, Filling
<1> QED BY <1>3, <1>4, <1>5, QuietStep

\* The frame and the entry that the thread c, become new, works with are those of its page.
FrameIsHome(c, new) ==
  \A f \in FrameIds :
    /\ new.pc = "lockframe" /\ new.frame = f => Owns(f, PageOf(c))
    /\ new.pc \in {"count", "pick"} \cup Filling /\ new.op = "read" /\ new.source = f =>
         Owns(f, PageOf(c))

EntryIsHad(c, new) ==
  \A e \in EntryIds :
    /\ new.pc = "pick" /\ new.lru = e => writer'[e] = c
    /\ new.pc \in Filling /\ new.entry = e => writer'[e] = c
    /\ new.pc = "flush" /\ new.entry = e =>
         cache[e].writed /\ \A f \in FrameIds : new.frame = f => Owns(f, EntryPage(e))
    /\ new.pc = "fill" /\ new.entry = e =>
         \A f \in FrameIds : Owns(f, EntryPage(e)) => memory[f] = cache[e].content

\* The same of a step between two on the same page.
LEMMA OnStep ==
  ASSUME IInv, Types, FramesAgree, CacheAgrees, NEW c \in Clients, NEW new,
         thread' = [thread EXCEPT ![c] = new],
         UNCHANGED <<table, available, pages, memory, cache, written>>,
         thread[c].pc \in Accessing, new.pc \in Accessing,
         new.pid = thread[c].pid, new.page = thread[c].page, new.op = thread[c].op,
         FrameIsHome(c, new), EntryIsHad(c, new),
         \A d \in Clients \ {c}, e \in EntryIds : writer[e] = d => writer'[e] = d
  PROVE  FramesAgree' /\ CacheAgrees'
<1> USE DEF FrameIsHome, EntryIsHad
<1>1. thread'[c] = new
  BY DEF Types
<1>2. ~Numbering(c) /\ thread[c].pc \notin {"setpid", "setpage"}
  BY DEF Numbering, Accessing
<1>3. new.pc \notin {"store", "number", "frame", "setpid", "setpage", "clean", "free"}
  BY DEF Accessing
<1>4. new.pc \notin WithRecord
  BY DEF Accessing, WithRecord
<1>5. ASSUME SamePages
      PROVE  WorksAtHome(c)' /\ \A e \in EntryIds : HasEntry(c, e)'
  <2>1. \A f \in FrameIds : (PageAt(f)' = PageAt(f)) /\ (BeingGiven(f)' <=> BeingGiven(f))
    BY <1>5 DEF SamePages
  <2>2. HasFrame(PageOf(c)) /\ thread[c].op \in {"read", "write"}
    BY DEF CacheAgrees, WorksAtHome
  <2>3. WorksAtHome(c)'
    BY <1>1, <2>1, <2>2 DEF WorksAtHome, HasFrame, Owns, PageOf
  <2>4. \A e \in EntryIds : HasEntry(c, e)'
    BY <1>1, <2>1 DEF HasEntry, Owns, EntryPage
  <2> QED BY <2>3, <2>4
<1> QED BY <1>2, <1>3, <1>4, <1>5, QuietStep

\* A new request: a page that is asked for has a frame.
LEMMA AskAgrees ==
  ASSUME IInv, FramesAgree, CacheAgrees, NEW c \in Clients, AskAssign(c) \/ AskEnd(c) \/ AskAccess(c)
  PROVE  FramesAgree' /\ CacheAgrees'
<1> USE SizeFacts
<1>1. Types
  BY DEF IInv
<1>2. ASSUME NEW kind, NEW new, Request(c, kind, new)
      PROVE  /\ thread[c].pc = "idle" /\ thread' = [thread EXCEPT ![c] = new]
             /\ UNCHANGED <<table, available, pages, memory, cache, written, writer>>
  BY <1>2 DEF Request, At, Set, shared
<1>3. ASSUME NEW kind, NEW new, Request(c, kind, new), new.pc \in {"check", "forget"}
      PROVE  FramesAgree' /\ CacheAgrees'
  <2>1. ~Numbering(c) /\ thread[c].pc \notin {"setpid", "setpage"}
    BY <1>2, <1>3 DEF Numbering
  <2> QED BY <1>1, <1>2, <1>3, <2>1, OffStep
<1>4. ASSUME NEW p \in Pids, NEW n,
             Request(c, "assign", [Idle EXCEPT !.pc = "check", !.op = "assign", !.pid = p, !.left = n])
      PROVE  FramesAgree' /\ CacheAgrees'
  <2> DEFINE new == [Idle EXCEPT !.pc = "check", !.op = "assign", !.pid = p, !.left = n]
  <2>1. new.pc = "check"
    BY DEF Idle
  <2> HIDE DEF new
  <2> QED BY <1>3, <1>4, <2>1 DEF new
<1>5. ASSUME NEW p \in Pids,
             Request(c, "end", [Idle EXCEPT !.pc = "forget", !.op = "end", !.pid = p])
      PROVE  FramesAgree' /\ CacheAgrees'
  <2> DEFINE new == [Idle EXCEPT !.pc = "forget", !.op = "end", !.pid = p]
  <2>1. new.pc = "forget"
    BY DEF Idle
  <2> HIDE DEF new
  <2> QED BY <1>3, <1>5, <2>1 DEF new
<1>6. ASSUME NEW op \in {"read", "write"}, NEW f \in FrameIds, table[f].pid \in Pids,
             ~\E d \in Clients : thread[d].pc = "setpage" /\ thread[d].frame = f,
             Request(c, "access", [Idle EXCEPT !.pc = "scan", !.op = op,
                                     !.pid = table[f].pid, !.page = table[f].page])
      PROVE  FramesAgree' /\ CacheAgrees'
  <2> DEFINE new == [Idle EXCEPT !.pc = "scan", !.op = op,
                                 !.pid = table[f].pid, !.page = table[f].page]
             page == <<table[f].pid, table[f].page>>
  <2>1. new.pc = "scan" /\ new.op = op /\ new.pid = table[f].pid /\ new.page = table[f].page
    BY DEF Idle
  <2>2. thread[c].pc = "idle" /\ thread' = [thread EXCEPT ![c] = new]
        /\ UNCHANGED <<table, available, pages, memory, cache, written, writer>>
    BY <1>2, <1>6
  <2> HIDE DEF new
  <2>3. ~BeingGiven(f)
    BY <1>6 DEF BeingGiven, Gives, FramesAgree, GivenInTurn
  <2>4. PageAt(f) = page
    BY <2>3, PageAtFacts
  <2>5. ASSUME SamePages
        PROVE  WorksAtHome(c)' /\ \A e \in EntryIds : HasEntry(c, e)'
    <3>1. (PageAt(f)' = PageAt(f)) /\ (BeingGiven(f)' <=> BeingGiven(f))
      BY <2>5 DEF SamePages
    <3>2. thread'[c] = new
      BY <1>1, <2>2 DEF Types
    <3> QED BY <2>1, <2>3, <2>4, <3>1, <3>2
            DEF WorksAtHome, HasEntry, HasFrame, Owns, PageOf, Filling
  <2>6. ~Numbering(c) /\ new.pc \notin WithRecord
    BY <2>1, <2>2 DEF Numbering, WithRecord
  <2> QED BY <1>1, <2>1, <2>2, <2>5, <2>6, QuietStep
<1> QED BY <1>4, <1>5, <1>6 DEF AskAssign, AskEnd, AskAccess

\* The entry read is the frame's, which nobody can change meanwhile.
LEMMA HitAgrees ==
  ASSUME IInv, FramesAgree, CacheAgrees, NEW c \in Clients, ReadHit(c)
  PROVE  FramesAgree' /\ CacheAgrees'
<1> USE SizeFacts
<1>1. /\ thread[c].pc = "hit" /\ thread' = [thread EXCEPT ![c] = Idle]
      /\ Unlock(c, thread[c].entry)
      /\ UNCHANGED <<table, available, pages, memory, cache, written>>
  BY DEF ReadHit, At, Finish, Set
<1>2. Types /\ CacheTypes /\ thread[c].entry \in EntryIds
  BY <1>1 DEF IInv, Types, Ready
<1>3. \A d \in Clients \ {c}, e \in EntryIds : writer[e] = d => writer'[e] = d
  BY <1>1, <1>2 DEF Unlock, CacheTypes
<1>4. ~Numbering(c) /\ Idle.pc = "idle"
  BY <1>1 DEF Numbering, Idle
<1> QED BY <1>1, <1>2, <1>3, <1>4, OffStep

\* The answer changes nothing that is shared.
LEMMA SendAgrees ==
  ASSUME IInv, FramesAgree, CacheAgrees, NEW c \in Clients, ReadSend(c)
  PROVE  FramesAgree' /\ CacheAgrees'
<1>1. /\ thread[c].pc = "send" /\ thread' = [thread EXCEPT ![c] = Idle]
      /\ UNCHANGED <<table, available, pages, memory, cache, written, writer>>
  BY DEF ReadSend, At, Finish, Set
<1>2. Types
  BY DEF IInv
<1>3. ~Numbering(c) /\ Idle.pc = "idle"
  BY <1>1 DEF Numbering, Idle
<1> QED BY <1>1, <1>2, <1>3, OffStep

\* The content of a miss comes from the frame of the page.
LEMMA ReadFrameAgrees ==
  ASSUME IInv, FramesAgree, CacheAgrees, NEW c \in Clients, ReadFrame(c)
  PROVE  FramesAgree' /\ CacheAgrees'
<1> DEFINE t == thread[c]
           new == [t EXCEPT !.pc = "count", !.source = t.frame, !.frame = None]
<1>1. /\ t.pc = "lockframe" /\ thread' = [thread EXCEPT ![c] = new]
      /\ UNCHANGED <<table, available, pages, memory, cache, written, writer>>
  BY DEF ReadFrame, At, Set
<1>2. Types /\ t \in Threads /\ t.lru = -1
  BY <1>1 DEF IInv, Types, Ready
<1>3. /\ new.pc = "count" /\ new.source = t.frame /\ new.pid = t.pid /\ new.page = t.page
      /\ new.op = t.op /\ new.lru = -1
  BY <1>2 DEF Threads
<1> HIDE DEF new
<1>4. \A f \in FrameIds : t.frame = f => Owns(f, PageOf(c))
  BY <1>1 DEF CacheAgrees, WorksAtHome, Accessing
<1>5. thread[c].pc \in Accessing /\ new.pc \in Accessing /\ new.pc \notin Filling
  BY <1>1, <1>3 DEF Accessing, Filling
<1>6. FrameIsHome(c, new)
  BY <1>3, <1>4 DEF FrameIsHome
<1>7. EntryIsHad(c, new)
  BY <1>3, <1>5 DEF EntryIsHad, Filling
<1> QED BY <1>1, <1>2, <1>3, <1>5, <1>6, <1>7, OnStep

\* The clock of the uses has no part in coherence.
LEMMA CountAgrees ==
  ASSUME IInv, FramesAgree, CacheAgrees, NEW c \in Clients, Count(c)
  PROVE  FramesAgree' /\ CacheAgrees'
<1> USE SizeFacts
<1> DEFINE t == thread[c]
           over == entriesOf[t.pid] >= cacheXProc
           new == [t EXCEPT !.pc = "pick", !.over = over]
<1>1. /\ t.pc = "count" /\ thread' = [thread EXCEPT ![c] = new]
      /\ UNCHANGED <<table, available, pages, memory, cache, written, writer>>
  BY DEF Count, At, Set
<1>2. Types /\ t \in Threads /\ t.lru = -1
  BY <1>1 DEF IInv, Types, Ready
<1>3. /\ new.pc = "pick" /\ new.source = t.source /\ new.pid = t.pid /\ new.page = t.page
      /\ new.op = t.op /\ new.lru = -1
  BY <1>2 DEF Threads
<1> HIDE DEF new
<1>4. \A f \in FrameIds : t.op = "read" /\ t.source = f => Owns(f, PageOf(c))
  BY <1>1 DEF CacheAgrees, WorksAtHome, Accessing
<1>5. thread[c].pc \in Accessing /\ new.pc \in Accessing /\ new.pc \notin Filling
  BY <1>1, <1>3 DEF Accessing, Filling
<1>6. \A e \in EntryIds : new.lru # e
  BY <1>3 DEF EntryIds
<1>7. FrameIsHome(c, new)
  BY <1>3, <1>4 DEF FrameIsHome
<1>8. EntryIsHad(c, new)
  BY <1>3, <1>5, <1>6 DEF EntryIsHad, Filling
<1> QED BY <1>1, <1>2, <1>3, <1>5, <1>7, <1>8, OnStep

\* Steps that change only what is noted as wrong, and stutters.
LEMMA SameAgrees ==
  ASSUME FramesAgree, CacheAgrees, UNCHANGED <<shared, thread, written>>
  PROVE  FramesAgree' /\ CacheAgrees'
<1>1. UNCHANGED <<table, available, pages, memory, cache, writer, thread, written>>
  BY DEF shared
<1>2. \A f \in FrameIds : (PageAt(f)' = PageAt(f)) /\ (BeingGiven(f)' <=> BeingGiven(f))
  BY <1>1 DEF PageAt, BeingGiven, Gives
<1>3. Unended' /\ ListInOrder' /\ GivenInTurn'
  BY <1>1 DEF FramesAgree, Unended, ListInOrder, GivenInTurn, Gives, Free
<1>4. NumberedInTurn' /\ FramesInOrder'
  BY <1>1, <1>2 DEF FramesAgree, NumberedInTurn, Numbering, NumberOf, FramesInOrder
<1>5. ASSUME NEW c \in Clients
      PROVE  WorksAtHome(c)' /\ \A e \in EntryIds : HasEntry(c, e)'
  BY <1>1, <1>2 DEF CacheAgrees, WorksAtHome, HasEntry, HasFrame, Owns, PageOf, EntryPage
<1>6. \A e \in EntryIds : EntryIsTrue(e)'
  BY <1>1, <1>2 DEF CacheAgrees, EntryIsTrue, HasFrame, Owns, EntryPage
<1>7. \A page \in written : WriteIsKept(page)'
  BY <1>1, <1>2 DEF CacheAgrees, WriteIsKept, HasFrame, Owns, EntryPage
<1> QED BY <1>1, <1>3, <1>4, <1>5, <1>6, <1>7 DEF FramesAgree, CacheAgrees

\* get_frame finds the frame of the page.
LEMMA FindIsHome ==
  ASSUME Types, FramesAgree, NEW pid \in Pids, NEW page, HasFrame(<<pid, page>>)
  PROVE  /\ FramesOf(pid, page) # {}
         /\ \A f \in FrameIds : Min(FramesOf(pid, page)) = f => Owns(f, <<pid, page>>)
<1>1. PICK f \in FrameIds : Owns(f, <<pid, page>>)
  BY DEF HasFrame
<1>2. FramesOf(pid, page) # {} /\ Min(FramesOf(pid, page)) = f
  BY <1>1, HomeIsFirst DEF FramesAgree
<1> QED BY <1>1, <1>2

\* A miss finds the frame of its page (608-615).
LEMMA ReadFindAgrees ==
  ASSUME IInv, FramesAgree, CacheAgrees, NEW c \in Clients, ReadFind(c)
  PROVE  FramesAgree' /\ CacheAgrees'
<1> USE SizeFacts
<1> DEFINE t == thread[c]
           new == [t EXCEPT !.pc = "lockframe", !.frame = Min(FramesOf(t.pid, t.page))]
<1>1. Types /\ t \in Threads /\ t.pc = "find" /\ t.pid \in Pids /\ t.lru = -1
  BY DEF IInv, Types, Ready, ReadFind, At
<1>2. HasFrame(<<t.pid, t.page>>)
  BY <1>1 DEF CacheAgrees, WorksAtHome, Accessing, PageOf
<1>3. /\ FramesOf(t.pid, t.page) # {}
      /\ \A f \in FrameIds : Min(FramesOf(t.pid, t.page)) = f => Owns(f, <<t.pid, t.page>>)
  BY <1>1, <1>2, FindIsHome
<1>4. /\ thread' = [thread EXCEPT ![c] = new]
      /\ UNCHANGED <<table, available, pages, memory, cache, written, writer>>
  BY <1>3 DEF ReadFind, FindFrame, Set
<1>5. /\ new.pc = "lockframe" /\ new.frame = Min(FramesOf(t.pid, t.page)) /\ new.pid = t.pid
      /\ new.page = t.page /\ new.op = t.op
  BY <1>1 DEF Threads
<1> HIDE DEF new
<1>6. thread[c].pc \in Accessing /\ new.pc \in Accessing /\ new.pc \notin Filling
  BY <1>1, <1>5 DEF Accessing, Filling
<1>7. \A f \in FrameIds : new.frame = f => Owns(f, PageOf(c))
  BY <1>3, <1>5 DEF PageOf
<1>8. FrameIsHome(c, new)
  BY <1>5, <1>7 DEF FrameIsHome, Filling
<1>9. EntryIsHad(c, new)
  BY <1>5, <1>6 DEF EntryIsHad, Filling
<1> QED BY <1>1, <1>4, <1>5, <1>6, <1>8, <1>9, OnStep

\* The page an evicted entry is written back to is its own.
LEMMA FlushFindAgrees ==
  ASSUME IInv, FramesAgree, CacheAgrees, NEW c \in Clients, FlushFind(c)
  PROVE  FramesAgree' /\ CacheAgrees'
<1> USE SizeFacts
<1> DEFINE t == thread[c]
           e == t.entry
           pid == cache[e].pid
           page == cache[e].page
           new == [t EXCEPT !.pc = "flush", !.frame = Min(FramesOf(pid, page))]
<1>1. Types /\ t \in Threads /\ t.pc = "update" /\ e \in EntryIds /\ cache[e].writed
  BY DEF IInv, Types, Ready, FlushFind, At, MustFlush, Threads
<1>2. pid \in Pids /\ HasFrame(<<pid, page>>)
  <2>1. cache[e].pid \in Pids \cup {-1}
    BY <1>1 DEF Types, CacheTypes
  <2> QED BY <1>1, <2>1 DEF CacheAgrees, EntryIsTrue, EntryPage
<1>3. /\ FramesOf(pid, page) # {}
      /\ \A f \in FrameIds : Min(FramesOf(pid, page)) = f => Owns(f, <<pid, page>>)
  <2> HIDE DEF pid, page
  <2> QED BY <1>1, <1>2, FindIsHome
<1>4. /\ thread' = [thread EXCEPT ![c] = new]
      /\ UNCHANGED <<table, available, pages, memory, cache, written, writer>>
  BY <1>3 DEF FlushFind, FindFrame, Set
<1>5. /\ new.pc = "flush" /\ new.frame = Min(FramesOf(pid, page)) /\ new.pid = t.pid
      /\ new.page = t.page /\ new.op = t.op /\ new.entry = e /\ new.source = t.source
  BY <1>1 DEF Threads
<1> HIDE DEF new
<1>6. thread[c].pc \in Accessing /\ new.pc \in Accessing
  BY <1>1, <1>5 DEF Accessing
<1>7. \A f \in FrameIds : new.frame = f => Owns(f, EntryPage(e))
  BY <1>3, <1>5 DEF EntryPage
<1>8. \A f \in FrameIds : t.op = "read" /\ t.source = f => Owns(f, PageOf(c))
  BY <1>1 DEF CacheAgrees, WorksAtHome, Accessing, Filling
<1>9. writer[e] = c
  BY <1>1 DEF CacheAgrees, HasEntry, Filling
<1> HIDE DEF e, pid, page
<1>10. FrameIsHome(c, new)
  BY <1>5, <1>8 DEF FrameIsHome
<1>11. EntryIsHad(c, new)
  <2>1. cache[e].writed /\ writer'[e] = c
    BY ONLY <1>1, <1>4, <1>9
  <2>2. new.pc = "flush" /\ new.entry = e
    BY ONLY <1>5
  <2> HIDE DEF t
  <2> QED BY ONLY <1>7, <2>1, <2>2 DEF EntryIsHad
<1>12. /\ \A d \in Clients \ {c}, x \in EntryIds : writer[x] = d => writer'[x] = d
       /\ new.pid = thread[c].pid /\ new.page = thread[c].page /\ new.op = thread[c].op
  BY <1>4, <1>5
<1> QED BY ONLY IInv, FramesAgree, CacheAgrees, c \in Clients, <1>1, <1>4, <1>6, <1>10, <1>11, <1>12,
                OnStep

\* The search of the cache ends on the page's entry or with none of it.
LEMMA ScanAgrees ==
  ASSUME IInv, FramesAgree, CacheAgrees, NEW c \in Clients, Scan(c)
  PROVE  FramesAgree' /\ CacheAgrees'
<1> USE SizeFacts
<1> DEFINE t == thread[c]
           e == t.entry
           reads == t.op = "read"
<1>1. /\ t.pc = "scan"
      /\ IF reads THEN CanRead(c, e) ELSE CanWrite(c, e)
      /\ IF Holds(c, e)
         THEN /\ IF reads THEN readers' = ReadLocked(c, e) /\ UNCHANGED writer
                          ELSE writer' = WriteLocked(c, e) /\ UNCHANGED readers
              /\ thread' = [thread EXCEPT ![c] = [t EXCEPT !.pc = IF reads THEN "hit" ELSE "update"]]
         ELSE Unlock(c, e) /\ NextEntry(c)
      /\ UNCHANGED <<table, available, pages, memory, cache, written>>
  BY DEF Scan, At, Set
<1>2. Types /\ CacheTypes /\ t \in Threads /\ e \in EntryIds /\ t.lru = -1
  BY <1>1 DEF IInv, Types, Ready
<1>3. PICK new \in Threads :
        /\ thread' = [thread EXCEPT ![c] = new]
        /\ new.pid = t.pid /\ new.page = t.page /\ new.op = t.op /\ new.source = t.source
        /\ \/ new.pc \in {"hit", "scan", "find"}
           \/ new.pc = "count" /\ ~reads
           \/ new.pc = "update" /\ ~reads /\ new.entry = e /\ Holds(c, e)
  <2>1. CASE Holds(c, e)
    <3> DEFINE new == [t EXCEPT !.pc = IF reads THEN "hit" ELSE "update"]
    <3>1. /\ new \in Threads /\ new.pc = (IF reads THEN "hit" ELSE "update") /\ new.pid = t.pid
          /\ new.entry = e /\ new.page = t.page /\ new.op = t.op /\ new.source = t.source
      BY <1>2 DEF Threads, Pcs
    <3>2. thread' = [thread EXCEPT ![c] = new]
      BY <1>1, <2>1
    <3> HIDE DEF new
    <3> QED BY <2>1, <3>1, <3>2
  <2>2. CASE ~Holds(c, e) /\ e < CacheEntries - 1
    <3> DEFINE new == [t EXCEPT !.entry = e + 1]
    <3>1. thread' = [thread EXCEPT ![c] = new]
      BY <1>1, <1>2, <2>2 DEF NextEntry, Set, Threads
    <3>2. e + 1 \in EntryIds
      BY <1>2, <2>2 DEF EntryIds
    <3>3. new \in Threads /\ new.pc = t.pc /\ new.pid = t.pid /\ new.page = t.page
          /\ new.op = t.op /\ new.source = t.source
      BY <1>2, <3>2 DEF Threads
    <3> HIDE DEF new
    <3> QED BY <1>1, <3>1, <3>3
  <2>3. CASE ~Holds(c, e) /\ ~(e < CacheEntries - 1)
    <3> DEFINE new == [t EXCEPT !.entry = 0, !.pc = IF reads THEN "find" ELSE "count"]
    <3>1. thread' = [thread EXCEPT ![c] = new]
      BY <1>1, <1>2, <2>3 DEF NextEntry, Set, Threads
    <3>2. new \in Threads /\ new.pc = (IF reads THEN "find" ELSE "count") /\ new.pid = t.pid
          /\ new.page = t.page /\ new.op = t.op /\ new.source = t.source
      <4>1. CASE reads
        BY <1>2, <4>1 DEF Threads, Pcs
      <4>2. CASE ~reads
        BY <1>2, <4>2 DEF Threads, Pcs
      <4> QED BY <4>1, <4>2
    <3> HIDE DEF new
    <3> QED BY <3>1, <3>2
  <2> QED BY <2>1, <2>2, <2>3
<1>4. /\ \A d \in Clients \ {c}, x \in EntryIds : writer[x] = d => writer'[x] = d
      /\ Holds(c, e) /\ ~reads => writer'[e] = c
  <2>1. CASE Holds(c, e)
    BY <1>1, <1>2, <2>1 DEF CacheTypes, WriteLocked, CanWrite
  <2>2. CASE ~Holds(c, e)
    BY <1>1, <1>2, <2>2 DEF CacheTypes, Unlock
  <2> QED BY <2>1, <2>2
<1>5. thread[c].pc \in Accessing /\ new.pc \in Accessing
  BY <1>1, <1>3 DEF Accessing
<1>6. \A x \in EntryIds : new.pc \in Filling /\ new.entry = x => writer'[x] = c
  BY <1>3, <1>4 DEF Filling
<1>7. /\ new.pc \notin {"lockframe", "pick", "flush", "fill"}
      /\ new.pc \in {"count", "pick"} \cup Filling => new.op # "read"
  BY <1>3 DEF Filling
<1>8. FrameIsHome(c, new)
  BY <1>7 DEF FrameIsHome
<1>9. EntryIsHad(c, new)
  BY <1>6, <1>7 DEF EntryIsHad
<1>10. /\ new.pid = thread[c].pid /\ new.page = thread[c].page /\ new.op = thread[c].op
       /\ thread' = [thread EXCEPT ![c] = new]
       /\ UNCHANGED <<table, available, pages, memory, cache, written>>
  BY <1>1, <1>3
<1> QED BY ONLY IInv, <1>2, FramesAgree, CacheAgrees, c \in Clients, <1>4, <1>5, <1>8, <1>9, <1>10,
                OnStep

\* The least recently used entry so far is held, by this thread only.
LEMMA PickAgrees ==
  ASSUME IInv, FramesAgree, CacheAgrees, NEW c \in Clients, Pick(c)
  PROVE  FramesAgree' /\ CacheAgrees'
<1> USE SizeFacts
<1> DEFINE t == thread[c]
           e == t.entry
           lru == t.lru
           locked == WriteLocked(c, e)
<1>1. /\ t.pc = "pick" /\ CanWrite(c, e)
      /\ IF ~t.over /\ cache[e].pid = -1 THEN Chosen(c, e, Left(locked, lru))
         ELSE IF ~Candidate(c, e) THEN PickNext(c, lru, locked)
         ELSE IF lru < 0 \/ Older(e, lru) THEN PickNext(c, e, Left(locked, lru))
         ELSE PickNext(c, lru, Left(locked, e))
      /\ UNCHANGED <<table, available, pages, memory, cache, written>>
  BY DEF Pick, At
<1>2. Types /\ CacheTypes /\ t \in Threads
  BY DEF IInv, Types
<1>3. t.record = 0 /\ e \in EntryIds /\ lru \in EntryIds \cup {-1} /\ lru < e
  BY <1>1, <1>2 DEF IInv, Ready, Threads, Assigning, WithRecord
<1>4. \A x \in EntryIds : lru = x => writer[x] = c
  BY <1>1 DEF CacheAgrees, HasEntry
<1> HIDE DEF locked
<1>5. PICK l \in EntryIds \cup {-1}, w \in {locked, Left(locked, lru), Left(locked, e)} :
        /\ writer' = w
        /\ \E new \in Threads : thread' = [thread EXCEPT ![c] = new] /\ Onward(c, l, new)
        /\ \/ l = e /\ w = Left(locked, lru)
           \/ l = lru /\ w = Left(locked, e)
           \/ l = lru /\ w = locked
  <2>1. CASE ~t.over /\ cache[e].pid = -1
    BY <1>1, <1>2, <1>3, <2>1, ChosenThread
  <2>2. CASE ~(~t.over /\ cache[e].pid = -1) /\ ~Candidate(c, e)
    BY <1>1, <1>2, <1>3, <2>2, PickNextThread
  <2>3. CASE ~(~t.over /\ cache[e].pid = -1) /\ Candidate(c, e) /\ (lru < 0 \/ Older(e, lru))
    BY <1>1, <1>2, <1>3, <2>3, PickNextThread
  <2>4. CASE ~(~t.over /\ cache[e].pid = -1) /\ Candidate(c, e) /\ ~(lru < 0 \/ Older(e, lru))
    BY <1>1, <1>2, <1>3, <2>4, PickNextThread
  <2> QED BY <2>1, <2>2, <2>3, <2>4
<1>6. PICK new \in Threads : thread' = [thread EXCEPT ![c] = new] /\ Onward(c, l, new)
  BY <1>5
<1> HIDE DEF e, lru
<1>7. /\ locked \in [EntryIds -> Clients \cup {None}]
      /\ locked[e] = c
      /\ \A x \in EntryIds : writer[x] = c => locked[x] = c
      /\ \A d \in Clients \ {c}, x \in EntryIds : writer[x] = d => locked[x] = d
  BY <1>1, <1>2, <1>3 DEF locked, WriteLocked, CanWrite, CacheTypes
<1>8. /\ \A x \in EntryIds : l = x => w[x] = c
      /\ \A d \in Clients \ {c}, x \in EntryIds : writer[x] = d => w[x] = d
  <2>1. \A x \in EntryIds : /\ x # lru => Left(locked, lru)[x] = locked[x]
                            /\ x # e => Left(locked, e)[x] = locked[x]
    BY <1>3, <1>7 DEF Left
  <2>2. lru # e
    BY <1>3
  <2>3. ASSUME NEW x \in EntryIds, l = x PROVE w[x] = c
    BY <1>4, <1>5, <1>7, <2>1, <2>2, <2>3
  <2>4. ASSUME NEW d \in Clients \ {c}, NEW x \in EntryIds, writer[x] = d PROVE w[x] = d
    <3>1. x # lru /\ x # e
      BY <1>1, <1>4, <2>4 DEF CanWrite
    <3> QED BY <1>5, <1>7, <2>1, <2>4, <3>1
  <2> QED BY <2>3, <2>4
<1>9. /\ new.pc \in {"pick", "update"} /\ new.pid = t.pid /\ new.op = t.op /\ new.source = t.source
      /\ \A x \in EntryIds : /\ new.pc = "pick" /\ new.lru = x => x = l
                             /\ new.pc = "update" /\ new.entry = x => x = l
  BY <1>6 DEF Onward
<1>10. new.page = t.page
  BY <1>6 DEF Onward
<1>11. \A f \in FrameIds : t.op = "read" /\ t.source = f => Owns(f, PageOf(c))
  BY <1>1 DEF CacheAgrees, WorksAtHome, Accessing
<1>12. FrameIsHome(c, new)
  BY <1>9, <1>11 DEF FrameIsHome
<1>13. EntryIsHad(c, new)
  <2>1. ASSUME NEW x \in EntryIds PROVE l = x => writer'[x] = c
    BY ONLY <1>5, <1>8, <2>1
  <2>2. /\ new.pc = "pick" \/ new.pc = "update"
        /\ \A x \in EntryIds : /\ new.pc = "pick" /\ new.lru = x => x = l
                               /\ new.pc = "update" /\ new.entry = x => x = l
    BY ONLY <1>9
  <2>3. \A x \in EntryIds : new.pc = "pick" /\ new.lru = x => writer'[x] = c
    BY ONLY <2>1, <2>2
  <2>4. \A x \in EntryIds : new.pc \in Filling /\ new.entry = x => writer'[x] = c
    <3>1. new.pc \in Filling => new.pc = "update"
      BY ONLY <2>2 DEF Filling
    <3> QED BY ONLY <2>1, <2>2, <3>1
  <2>5. new.pc # "flush" /\ new.pc # "fill"
    BY ONLY <2>2
  <2> QED BY ONLY <2>3, <2>4, <2>5 DEF EntryIsHad
<1>14. /\ thread[c].pc \in Accessing /\ new.pc \in Accessing
       /\ new.pid = thread[c].pid /\ new.page = thread[c].page /\ new.op = thread[c].op
       /\ thread' = [thread EXCEPT ![c] = new]
       /\ UNCHANGED <<table, available, pages, memory, cache, written>>
       /\ \A d \in Clients \ {c}, x \in EntryIds : writer[x] = d => writer'[x] = d
  BY <1>1, <1>5, <1>6, <1>8, <1>9, <1>10 DEF Accessing
<1> QED BY ONLY IInv, <1>2, FramesAgree, CacheAgrees, c \in Clients, <1>12, <1>13, <1>14, OnStep

\* A frame that is not being given is the frame of one page only, and of a process has
\* a number.
LEMMA OwnerIsOne ==
  ASSUME Types, FramesAgree, NEW f \in FrameIds, NEW g \in FrameIds, NEW page,
         Owns(f, page), Owns(g, page), page[1] \in Pids
  PROVE  f = g
<1>1. page = <<table[f].pid, table[f].page>>
  BY PageAtFacts DEF Owns
<1>2. page[2] \in Nat
  BY <1>1 DEF Types, FrameTypes
<1> QED BY <1>2, OneOwner DEF Owns, FramesAgree

\* After the flush the frame has what the entry has, so that it may be given away.
LEMMA FlushAgrees ==
  ASSUME IInv, FramesAgree, CacheAgrees, NEW c \in Clients, Flush(c)
  PROVE  FramesAgree' /\ CacheAgrees'
<1> USE SizeFacts
<1> DEFINE t == thread[c]
           e == t.entry
           home == t.frame
           held == EntryPage(e)
           new == [t EXCEPT !.pc = "fill", !.frame = None]
<1>1. /\ t.pc = "flush" /\ thread' = [thread EXCEPT ![c] = new]
      /\ memory' = [memory EXCEPT ![home] = cache[e].content]
      /\ UNCHANGED <<table, available, pages, cache, written, writer>>
  BY DEF Flush, At, Set
<1>2. Types /\ t \in Threads /\ e \in EntryIds /\ home \in FrameIds
  BY <1>1 DEF IInv, Types, Ready
<1>3. /\ new.pc = "fill" /\ new.source = t.source /\ new.pid = t.pid /\ new.page = t.page
      /\ new.op = t.op /\ new.entry = e
  BY <1>2 DEF Threads
<1> HIDE DEF new
<1>4. /\ thread'[c] = new /\ \A d \in Clients \ {c} : thread'[d] = thread[d]
      /\ memory'[home] = cache[e].content
      /\ \A f \in FrameIds \ {home} : memory'[f] = memory[f]
  BY <1>1, <1>2 DEF Types, FrameTypes
<1>5. FramesAgree' /\ SamePages
  <2>1. ~Numbering(c) /\ new.pc \notin WithRecord
    BY <1>1, <1>3 DEF Numbering, WithRecord
  <2> QED BY <1>1, <1>2, <1>3, <2>1, FramesStay
<1>6. \A f \in FrameIds : (PageAt(f)' = PageAt(f)) /\ (BeingGiven(f)' <=> BeingGiven(f))
  BY <1>5 DEF SamePages
<1>7. writer[e] = c /\ cache[e].writed /\ Owns(home, held)
  BY <1>1, <1>2 DEF CacheAgrees, HasEntry, Filling
<1>8. held[1] \in Pids /\ \A x \in EntryIds : EntryPage(x) = held => x = e
  <2>1. cache[e].pid \in Pids \cup {-1}
    BY <1>2 DEF Types, CacheTypes
  <2>2. cache[e].pid # -1
    BY <1>2, <1>7 DEF CacheAgrees, EntryIsTrue
  <2> QED BY <1>2, <2>1, <2>2 DEF CacheAgrees, EntryIsTrue, EntryPage
<1>9. \A x \in EntryIds \ {e}, f \in FrameIds : Owns(f, EntryPage(x)) => memory'[f] = memory[f]
  BY <1>4, <1>7, <1>8 DEF Owns
<1>10. \A x \in EntryIds : EntryPage(x)' = EntryPage(x)
  BY <1>1 DEF EntryPage
<1> HIDE DEF held, home
<1>11. ASSUME NEW d \in Clients PROVE WorksAtHome(d)'
  <2>1. CASE d = c
    <3>1. /\ t.op \in {"read", "write"} /\ HasFrame(PageOf(c))
          /\ \A f \in FrameIds : t.op = "read" /\ t.source = f => Owns(f, PageOf(c))
      BY <1>1 DEF CacheAgrees, WorksAtHome, Accessing, Filling
    <3> QED BY <1>3, <1>4, <1>6, <2>1, <3>1 DEF WorksAtHome, HasFrame, Owns, PageOf
  <2>2. CASE d # c
    BY <1>4, <1>6, <2>2 DEF CacheAgrees, WorksAtHome, HasFrame, Owns, PageOf
  <2> QED BY <2>1, <2>2
<1>12. ASSUME NEW d \in Clients, NEW x \in EntryIds PROVE HasEntry(d, x)'
  <2>1. CASE d = c
    <3>1. ASSUME NEW f \in FrameIds, Owns(f, held) PROVE memory'[f] = cache[e].content
      <4>1. f = home
        BY <1>2, <1>7, <1>8, <3>1, OwnerIsOne
      <4> QED BY <1>4, <4>1
    <3>2. \A f \in FrameIds : PageAt(f)' = <<cache'[e].pid, cache'[e].page>> /\ ~BeingGiven(f)' =>
            memory'[f] = cache'[e].content
      BY <1>1, <1>6, <3>1 DEF Owns, held, EntryPage
    <3> HIDE DEF e, t
    <3> QED BY <1>1, <1>3, <1>4, <1>7, <2>1, <3>2 DEF HasEntry, Owns, EntryPage, Filling
  <2>2. CASE d # c
    <3>1. thread'[d] = thread[d] /\ HasEntry(d, x)
      BY <1>4, <2>2 DEF CacheAgrees
    <3>2. thread[d].pc = "fill" /\ thread[d].entry = x => x # e
      BY <1>7, <2>2, <3>1 DEF HasEntry, Filling
    <3> HIDE DEF e, t
    <3>3. \A f \in FrameIds : x # e /\ Owns(f, EntryPage(x)) => memory'[f] = memory[f]
      BY <1>9
    <3> QED BY <1>1, <1>6, <3>1, <3>2, <3>3 DEF HasEntry, Owns, EntryPage
  <2> QED BY <2>1, <2>2
<1>13. ASSUME NEW x \in EntryIds PROVE EntryIsTrue(x)'
  <2>1. EntryIsTrue(x)
    BY DEF CacheAgrees
  <2> HIDE DEF e, t
  <2>2. x = e => cache[x].writed
    BY <1>7
  <2>3. \A f \in FrameIds : x # e /\ Owns(f, EntryPage(x)) => memory'[f] = memory[f]
    BY <1>9
  <2> QED BY <1>1, <1>6, <1>10, <2>1, <2>2, <2>3 DEF EntryIsTrue, HasFrame, Owns, EntryPage
<1>14. ASSUME NEW page \in written PROVE WriteIsKept(page)'
  <2>1. WriteIsKept(page)
    BY DEF CacheAgrees
  <2>2. HasFrame(page)' /\ \A f \in FrameIds : Owns(f, page)' => Owns(f, page)
    BY <1>5, <2>1, SameOwners DEF WriteIsKept
  <2>3. ASSUME \A x \in EntryIds : EntryPage(x) # page, NEW f \in FrameIds, Owns(f, page)
        PROVE  memory'[f] = memory[f]
    BY <1>2, <1>4, <1>7, <2>3 DEF Owns, held
  <2> QED BY <1>1, <1>10, <2>1, <2>2, <2>3 DEF WriteIsKept
<1> QED BY <1>1, <1>5, <1>11, <1>12, <1>13, <1>14 DEF CacheAgrees

\* The entry gets another page: nothing that was written to the old one is lost.
LEMMA FillAgrees ==
  ASSUME IInv, FramesAgree, CacheAgrees, NEW c \in Clients, Fill(c), "doubled" \notin trouble'
  PROVE  FramesAgree' /\ CacheAgrees'
<1> USE SizeFacts
<1> DEFINE t == thread[c]
           e == t.entry
           own == <<t.pid, t.page>>
           content == NewContent(c, cache[e].content)
           filled == [pid |-> t.pid, page |-> t.page, content |-> content, writed |-> Writed(c)]
           new == IF t.op = "read" THEN [t EXCEPT !.pc = "send"] ELSE Idle
<1>1. /\ t.pc = "fill" \/ (t.pc = "update" /\ e >= 0 /\ ~MustFlush(c, e))
      /\ cache' = [cache EXCEPT ![e] =
            [pid |-> t.pid, page |-> t.page,
             content |-> NewContent(c, @.content), writed |-> Writed(c)]]
      /\ trouble' = trouble \cup
           (IF \E d \in EntryIds : Holds(c, d) /\ (d # e \/ ~Writed(c)) THEN {"doubled"} ELSE {})
      /\ Unlock(c, e)
      /\ thread' = [thread EXCEPT ![c] = new]
      /\ written' = written \cup (IF Writed(c) THEN {own} ELSE {})
      /\ UNCHANGED <<table, available, pages, memory>>
  BY DEF Fill, At, NoteIf, GoTo, Set, Finish
<1>2. Types /\ CacheTypes /\ t \in Threads /\ t.pid \in Pids /\ e \in EntryIds
  BY <1>1 DEF IInv, Types, Ready, Threads
<1>3. /\ \A d \in EntryIds \ {e} : ~Holds(c, d)
      /\ Holds(c, e) => Writed(c)
  BY <1>1, <1>2
<1>4. /\ new.pc \in {"idle", "send"}
      /\ new.pc = "send" => /\ new.pid = t.pid /\ new.page = t.page /\ new.op = t.op
  BY <1>2 DEF Threads, Idle
<1> HIDE DEF new
<1>5. /\ thread'[c] = new /\ \A d \in Clients \ {c} : thread'[d] = thread[d]
  BY <1>1, <1>2 DEF Types
<1>6. FramesAgree' /\ SamePages
  <2>1. ~Numbering(c) /\ t.pc \notin {"setpid", "setpage"}
    BY <1>1 DEF Numbering
  <2>2. /\ new.pc \notin {"store", "number", "frame", "setpid", "setpage", "clean", "free"}
        /\ new.pc \notin WithRecord
    BY <1>4 DEF WithRecord
  <2> QED BY <1>1, <1>2, <2>1, <2>2, FramesStay
<1>7. \A f \in FrameIds : (PageAt(f)' = PageAt(f)) /\ (BeingGiven(f)' <=> BeingGiven(f))
  BY <1>6 DEF SamePages
<1>8. /\ t.op \in {"read", "write"} /\ HasFrame(own)
      /\ \A f \in FrameIds : t.op = "read" /\ t.source = f => Owns(f, own)
  BY <1>1 DEF CacheAgrees, WorksAtHome, Accessing, Filling, PageOf
<1>9. writer[e] = c
  BY <1>1, <1>2 DEF CacheAgrees, HasEntry, Filling
<1>10. \A x \in EntryIds \ {e} : cache'[x] = cache[x] /\ EntryPage(x) # own
  <2>1. \A x \in EntryIds \ {e} : cache'[x] = cache[x]
    BY <1>1, <1>2 DEF CacheTypes
  <2> QED BY <1>3, <2>1 DEF Holds, EntryPage
<1>11. cache'[e] = filled
  BY <1>1, <1>2 DEF CacheTypes
<1>12. cache'[e].pid = t.pid /\ cache'[e].page = t.page /\ cache'[e].content = content
       /\ cache'[e].writed = Writed(c)
  BY <1>11
<1> HIDE DEF filled
<1>13. \A f \in FrameIds : t.op = "read" /\ Owns(f, own) => memory[f] = content
  <2>1. ASSUME NEW f \in FrameIds, t.op = "read", Owns(f, own) PROVE memory[f] = content
    <3>1. t.source \in FrameIds
      BY <1>1, <2>1 DEF IInv, Ready
    <3>2. Owns(t.source, own)
      BY <1>8, <2>1, <3>1
    <3>3. f = t.source
      <4> HIDE DEF t
      <4>1. own[1] \in Pids
        BY <1>2
      <4> HIDE DEF own
      <4> QED BY <1>2, <2>1, <3>1, <3>2, <4>1, OwnerIsOne
    <3> QED BY <2>1, <3>3 DEF NewContent
  <2> QED BY <2>1
<1>14. t.op = "write" => content = cache[e].content \cup {own}
  BY DEF NewContent
\* What the entry held before is in its frame.
<1>15. ASSUME NEW page, page[1] \in Pids, EntryPage(e) = page, page # own, NEW f \in FrameIds, Owns(f, page)
       PROVE  memory[f] = cache[e].content
  <2>1. CASE t.pc = "fill"
    BY <1>2, <1>15, <2>1 DEF CacheAgrees, HasEntry
  <2>2. CASE t.pc = "update"
    <3>1. ~Holds(c, e)
      BY <1>15 DEF Holds, EntryPage
    <3>2. ~cache[e].writed
      BY <1>1, <2>2, <3>1 DEF MustFlush
    <3>3. cache[e].pid # -1
      BY <1>15 DEF EntryPage
    <3> QED BY <1>2, <1>15, <3>2, <3>3 DEF CacheAgrees, EntryIsTrue
  <2> QED BY <1>1, <2>1, <2>2
<1> HIDE DEF content
<1>16. ASSUME NEW d \in Clients PROVE WorksAtHome(d)'
  <2>1. CASE d = c
    <3>1. HasFrame(own) /\ t.op \in {"read", "write"}
      BY <1>8
    <3> HIDE DEF t
    <3> QED BY <1>4, <1>5, <1>7, <2>1, <3>1 DEF WorksAtHome, HasFrame, Owns, PageOf, Accessing, Filling
  <2>2. CASE d # c
    BY <1>5, <1>7, <2>2 DEF CacheAgrees, WorksAtHome, HasFrame, Owns, PageOf
  <2> QED BY <2>1, <2>2
<1>17. ASSUME NEW d \in Clients, NEW x \in EntryIds PROVE HasEntry(d, x)'
  <2>1. CASE d = c
    BY <1>4, <1>5, <2>1 DEF HasEntry, Filling
  <2>2. CASE d # c
    <3>1. thread'[d] = thread[d] /\ HasEntry(d, x)
      BY <1>5, <2>2 DEF CacheAgrees
    <3>2. writer[x] = d => x # e /\ writer'[x] = d /\ cache'[x] = cache[x]
      BY <1>1, <1>2, <1>9, <1>10, <2>2 DEF Unlock, CacheTypes
    <3> HIDE DEF e, t
    <3> QED BY <1>1, <1>7, <3>1, <3>2 DEF HasEntry, Owns, EntryPage, Filling
  <2> QED BY <2>1, <2>2
<1>18. ASSUME NEW x \in EntryIds PROVE EntryIsTrue(x)'
  <2>1. \A y \in EntryIds : <<cache'[y].pid, cache'[y].page>> = own => y = e
    BY <1>10 DEF EntryPage
  <2>2. CASE x = e
    <3>1. cache'[e].pid # -1
      BY <1>2, <1>12
    <3>2. \A f \in FrameIds : PageAt(f) = own /\ ~BeingGiven(f) /\ ~Writed(c) => memory[f] = content
      BY <1>8, <1>13 DEF Writed, Owns
    <3> HIDE DEF e, t
    <3> QED BY <1>1, <1>7, <1>8, <1>12, <2>1, <2>2, <3>1, <3>2 DEF EntryIsTrue, EntryPage, HasFrame, Owns
  <2>3. CASE x # e
    <3>1. EntryIsTrue(x) /\ cache'[x] = cache[x] /\ EntryPage(x) # own
      BY <1>10, <2>3 DEF CacheAgrees
    <3>2. <<cache'[e].pid, cache'[e].page>> = own
      BY <1>12
    <3>3. \A y \in EntryIds \ {e} : cache'[y] = cache[y]
      BY <1>10
    <3> HIDE DEF e, own
    <3> QED BY <1>1, <1>7, <2>3, <3>1, <3>2, <3>3 DEF EntryIsTrue, EntryPage, HasFrame, Owns
  <2> QED BY <2>2, <2>3
<1>19. ASSUME NEW page \in written' PROVE WriteIsKept(page)'
  <2>1. /\ <<cache'[e].pid, cache'[e].page>> = own
        /\ \A x \in EntryIds \ {e} : <<cache'[x].pid, cache'[x].page>> = EntryPage(x)
                                     /\ cache'[x].content = cache[x].content
    BY <1>10, <1>12 DEF EntryPage
  <2>2. \A f \in FrameIds : Owns(f, page)' <=> Owns(f, page)
    BY <1>6, SameOwners
  <2>3. CASE page = own
    <3>1. HasFrame(page)'
      <4>1. HasFrame(page)
        BY <1>8, <2>3
      <4> QED BY <1>6, <4>1, SameOwners
    <3>2. \A x \in EntryIds : EntryPage(x)' = page <=> x = e
      BY <1>2, <1>10, <2>1, <2>3 DEF EntryPage
    <3>3. page \in content
      <4>1. CASE t.op = "write"
        BY <1>14, <2>3, <4>1
      <4>2. CASE t.op = "read"
        <5>1. page \in written /\ \A x \in EntryIds : EntryPage(x) # page
          BY <1>1, <1>3, <1>10, <2>3, <4>2 DEF Writed, Holds, EntryPage
        <5>2. PICK f \in FrameIds : Owns(f, own)
          BY <1>8 DEF HasFrame
        <5>3. page \in memory[f]
          BY <2>3, <5>1, <5>2 DEF CacheAgrees, WriteIsKept
        <5> QED BY <1>13, <4>2, <5>2, <5>3
      <4> QED BY <1>8, <4>1, <4>2
    <3>4. \A x \in EntryIds : EntryPage(x)' = page => page \in cache'[x].content
      BY <1>12, <3>2, <3>3
    <3> QED BY <1>2, <3>1, <3>2, <3>4 DEF WriteIsKept
  <2>4. CASE page # own
    <3>1. page \in written /\ WriteIsKept(page)
      BY <1>1, <2>4 DEF CacheAgrees
    <3>2. HasFrame(page)'
      BY <1>6, <3>1, SameOwners DEF WriteIsKept
    <3>3. page[1] \in Pids
      BY <1>2, <3>1 DEF Types, PageIds
    <3>4. \A x \in EntryIds : EntryPage(x)' = page <=> x # e /\ EntryPage(x) = page
      BY <1>2, <2>1, <2>4 DEF EntryPage
    <3>5. \A x \in EntryIds : EntryPage(x)' = page => page \in cache'[x].content
      BY <2>1, <3>1, <3>4 DEF WriteIsKept
    <3>6. ASSUME \A x \in EntryIds : EntryPage(x)' # page, NEW f \in FrameIds, Owns(f, page)
          PROVE  page \in memory[f]
      <4>1. \A x \in EntryIds : EntryPage(x) = page => x = e
        BY <3>4, <3>6
      <4>2. CASE EntryPage(e) = page
        <5>1. memory[f] = cache[e].content
          BY <1>15, <2>4, <3>3, <3>6, <4>2
        <5> QED BY <1>2, <3>1, <4>2, <5>1 DEF WriteIsKept
      <4>3. CASE EntryPage(e) # page
        BY <3>1, <3>6, <4>1, <4>3 DEF WriteIsKept
      <4> QED BY <4>2, <4>3
    <3> QED BY <1>1, <2>2, <3>2, <3>5, <3>6 DEF WriteIsKept
  <2> QED BY <2>3, <2>4
<1> QED BY <1>6, <1>16, <1>17, <1>18, <1>19 DEF CacheAgrees

-----------------------------------------------------------------------------
(* The requests for pages *)

\* A step that numbers a page or changes a count: what is left to show of it.
LEMMA CountsAgree ==
  ASSUME IInv, FramesAgree, CacheAgrees, NEW c \in Clients, NEW new, NEW p \in Pids,
         thread' = [thread EXCEPT ![c] = new],
         UNCHANGED <<table, available, memory, cache, written, writer>>,
         thread[c].pc \notin {"setpid", "setpage"},
         new.pc \in {"take", "store", "number", "frame"}, new.record = 1,
         \A q \in Pids \ {p} : pages'[q] = pages[q],
         Len(pages'[p]) <= 1,
         \/ pages' = pages
         \/ /\ \A d \in Clients \ {c} : Numbering(d) => thread[d].pid # p
            /\ \A f \in FrameIds :
                 PageAt(f)[1] = p => Len(pages'[p]) = 1 /\ PageAt(f)[2] < pages'[p][1],
         thread'[c] = new /\ Numbering(c)' =>
           /\ pages'[new.pid][1] = IF new.pc = "store" THEN NumberOf(c)' ELSE NumberOf(c)' + 1
           /\ \A d \in Clients \ {c} : Numbering(d) => thread[d].pid # new.pid
           /\ \A f \in FrameIds : PageAt(f)[1] = new.pid => PageAt(f)[2] < NumberOf(c)'
  PROVE  FramesAgree' /\ CacheAgrees'
<1>1. Types
  BY DEF IInv
<1>2. SamePages /\ Unended' /\ ListInOrder' /\ GivenInTurn' /\ FramesInOrder'
  BY <1>1, PagesOfFramesStay
<1>3. \A d \in Clients : Numbering(d) => thread[d].pid \in Pids
  BY DEF IInv, Ready, Numbering
<1>4. \A f \in FrameIds : PageAt(f)' = PageAt(f)
  BY <1>2 DEF SamePages
<1>5. NumberedInTurn'
  BY <1>1, <1>3, <1>4, NumbersStay
<1>6. OwnersStay
  BY <1>2, SameOwners
<1>7. WorksAtHome(c)' /\ \A e \in EntryIds : HasEntry(c, e)'
  <2>1. thread'[c].pc \in {"take", "store", "number", "frame"}
    BY <1>1 DEF Types
  <2> QED BY <2>1 DEF WorksAtHome, HasEntry, Accessing, Filling
<1>8. CacheAgrees'
  BY <1>6, <1>7, EntriesStay
<1> QED BY <1>2, <1>5, <1>8 DEF FramesAgree

\* Where frames are still available nothing is decided.
LEMMA CheckAgrees ==
  ASSUME IInv, FramesAgree, CacheAgrees, NEW c \in Clients, CheckAvailable(c) \/ SearchProcess(c)
  PROVE  FramesAgree' /\ CacheAgrees'
<1> DEFINE t == thread[c]
<1>1. /\ t.pc \in {"check", "search"}
      /\ UNCHANGED <<table, available, pages, memory, cache, written, writer>>
  BY DEF CheckAvailable, SearchProcess, At, shared
<1>2. Types /\ t \in Threads
  BY DEF IInv, Types
<1>3. PICK new : /\ thread' = [thread EXCEPT ![c] = new]
                 /\ new.pc \in {"idle", "search", "create", "take"}
                 /\ new.pc = "take" => new.record = 1
  <2>1. Idle.pc = "idle"
    BY DEF Idle
  <2>2. [t EXCEPT !.pc = "search"].pc = "search" /\ [t EXCEPT !.pc = "create"].pc = "create"
    BY <1>2 DEF Threads
  <2>3. [t EXCEPT !.pc = "take", !.record = 1].pc = "take" /\ [t EXCEPT !.pc = "take", !.record = 1].record = 1
    BY <1>2 DEF Threads
  <2>4. \/ thread' = [thread EXCEPT ![c] = Idle]
        \/ thread' = [thread EXCEPT ![c] = [t EXCEPT !.pc = "search"]]
        \/ thread' = [thread EXCEPT ![c] = [t EXCEPT !.pc = "create"]]
        \/ thread' = [thread EXCEPT ![c] = [t EXCEPT !.pc = "take", !.record = 1]]
    BY DEF CheckAvailable, SearchProcess, Set, GoTo, Finish
  <2> QED BY <2>1, <2>2, <2>3, <2>4
<1>4. ~Numbering(c)
  BY <1>1 DEF Numbering
<1> QED BY <1>1, <1>2, <1>3, <1>4, OffStep

\* The record of a new process begins with no pages.
LEMMA CreateAgrees ==
  ASSUME IInv, FramesAgree, CacheAgrees, NEW c \in Clients, CreateProcess(c), "crossed" \notin trouble'
  PROVE  FramesAgree' /\ CacheAgrees'
<1> DEFINE t == thread[c]
           new == [t EXCEPT !.pc = "take", !.record = Len(pages[t.pid]) + 1]
<1>1. /\ t.pc = "create" /\ thread' = [thread EXCEPT ![c] = new]
      /\ pages' = [pages EXCEPT ![t.pid] = Append(pages[t.pid], 0)]
      /\ pages[t.pid] = <<>>
      /\ UNCHANGED <<table, available, memory, cache, written, writer>>
  BY DEF CreateProcess, At, Set, NoteIf
<1>2. Types /\ t \in Threads /\ t.pid \in Pids /\ pages \in [Pids -> Seq(Nat)]
  BY <1>1 DEF IInv, Types, FrameTypes, Ready
<1>3. /\ pages'[t.pid] = <<0>> /\ \A q \in Pids \ {t.pid} : pages'[q] = pages[q]
      /\ Len(pages'[t.pid]) = 1 /\ Len(pages[t.pid]) = 0
  BY <1>1, <1>2
<1>4. new.pc = "take" /\ new.pid = t.pid /\ new.record = 1
  <2>1. new = [t EXCEPT !.pc = "take", !.record = 1]
    BY <1>3
  <2> HIDE DEF new, t
  <2> QED BY <1>2, <2>1 DEF Threads
<1> HIDE DEF new
<1>5. \A d \in Clients : Numbering(d) => thread[d].pid # t.pid
  <2>1. \A d \in Clients : Numbering(d) => thread[d].record = 1 /\ thread[d].record <= Len(pages[thread[d].pid])
    BY DEF IInv, Ready, Numbering, FramesAgree, NumberedInTurn, WithRecord
  <2> QED BY <1>3, <2>1
<1>6. \A f \in FrameIds : PageAt(f)[1] # t.pid
  BY <1>2, <1>3 DEF FramesAgree, NumberedInTurn
<1>7. thread'[c] = new => ~Numbering(c)'
  BY <1>4 DEF Numbering
<1>8. thread[c].pc \notin {"setpid", "setpage"} /\ new.pc \in {"take", "store", "number", "frame"}
  BY <1>1, <1>4
<1>9. Len(pages'[t.pid]) <= 1
  BY <1>3
<1> HIDE DEF t
<1> QED BY <1>1, <1>2, <1>3, <1>4, <1>5, <1>6, <1>7, <1>8, <1>9, CountsAgree

\* Reading and storing the count of pages number the next page.
LEMMA NumberAgrees ==
  ASSUME IInv, FramesAgree, CacheAgrees, NEW c \in Clients,
         LoadCount(c) \/ StoreCount(c) \/ ReadCount(c), "crossed" \notin trouble'
  PROVE  FramesAgree' /\ CacheAgrees'
<1> DEFINE t == thread[c]
           count == pages[t.pid][1]
           loading == [t EXCEPT !.pc = "store", !.page = count]
           storing == [t EXCEPT !.pc = "number"]
           reading == [t EXCEPT !.pc = "frame", !.page = count - 1]
<1>1. /\ t.pc \in {"take", "store", "number"}
      /\ UNCHANGED <<table, available, memory, cache, written, writer>>
  BY DEF LoadCount, StoreCount, ReadCount, At, shared
<1>2. Types /\ t \in Threads /\ t.pid \in Pids /\ pages \in [Pids -> Seq(Nat)]
  BY <1>1 DEF IInv, Types, FrameTypes, Ready
<1>3. t.record = 1 /\ t.record <= Len(pages[t.pid]) /\ Len(pages[t.pid]) <= 1
  BY <1>1, <1>2 DEF IInv, Ready, FramesAgree, NumberedInTurn, WithRecord
<1>4. pages[t.pid] \in Seq(Nat) /\ Len(pages[t.pid]) = 1 /\ count \in Nat /\ t.page \in Nat
  <2>1. pages[t.pid] \in Seq(Nat) /\ Len(pages[t.pid]) \in Nat
    BY <1>2, LenProperties
  <2>2. Len(pages[t.pid]) = 1
    <3> DEFINE n == Len(pages[t.pid])
               r == t.record
    <3>1. r = 1 /\ r <= n /\ n <= 1 /\ n \in Nat
      BY <1>3, <2>1
    <3> HIDE DEF n, r
    <3>2. n = 1
      BY <3>1
    <3> QED BY <3>2 DEF n
  <2>3. count \in Nat
    BY <2>1, <2>2, ElementOfSeq
  <2> QED BY <1>2, <2>1, <2>2, <2>3 DEF Threads
<1>5. thread[c].pc \notin {"setpid", "setpage"}
  BY <1>1
<1>6. CASE LoadCount(c)
  <2>1. /\ t.pc = "take" /\ thread' = [thread EXCEPT ![c] = loading] /\ pages' = pages
        /\ \A d \in Clients : Numbering(d) => thread[d].pid # t.pid
    BY <1>3, <1>6 DEF LoadCount, At, Set, PagesCount, NoteIf, shared
  <2>2. loading.pc = "store" /\ loading.pid = t.pid /\ loading.record = 1 /\ loading.page = count
    BY <1>2, <1>3 DEF Threads
  <2>3. \A f \in FrameIds : PageAt(f)[1] = t.pid => PageAt(f)[2] < count
    BY <1>2 DEF FramesAgree, NumberedInTurn
  <2> HIDE DEF loading
  <2>4. thread'[c] = loading => NumberOf(c)' = count
    BY <2>2 DEF NumberOf
  <2> HIDE DEF t
  <2> QED BY <1>1, <1>2, <1>3, <1>5, <2>1, <2>2, <2>3, <2>4, CountsAgree
<1>7. CASE StoreCount(c)
  <2> DEFINE records == [pages[t.pid] EXCEPT ![1] = t.page + 1]
  <2>1. t.pc = "store" /\ thread' = [thread EXCEPT ![c] = storing] /\ pages' = [pages EXCEPT ![t.pid] = records]
    BY <1>2, <1>3, <1>7 DEF StoreCount, At, Set, GoTo
  <2>2. storing.pc = "number" /\ storing.pid = t.pid /\ storing.record = 1
    BY <1>2, <1>3 DEF Threads
  <2>3. records \in Seq(Nat) /\ Len(records) = 1 /\ records[1] = t.page + 1
    BY <1>4, ExceptSeq
  <2> HIDE DEF records, storing
  <2>4. pages'[t.pid] = records /\ \A q \in Pids \ {t.pid} : pages'[q] = pages[q]
    BY <1>2, <2>1
  <2>5. /\ \A d \in Clients \ {c} : Numbering(d) => thread[d].pid # t.pid
        /\ \A f \in FrameIds : PageAt(f)[1] = t.pid => PageAt(f)[2] < t.page
    BY <2>1 DEF FramesAgree, NumberedInTurn, Numbering, NumberOf
  <2>6. thread'[c] = storing => NumberOf(c)' = t.page
    <3>1. pages'[t.pid][1] - 1 = t.page
      BY <1>4, <2>3, <2>4
    <3> QED BY <2>2, <3>1 DEF NumberOf
  <2>7. \A f \in FrameIds : PageAt(f)[1] = t.pid => PageAt(f)[2] < t.page + 1
    <3>1. ASSUME NEW f \in FrameIds, PageAt(f)[1] = t.pid PROVE PageAt(f)[2] < t.page + 1
      <4>1. PageAt(f)[2] < t.page
        BY <2>5, <3>1
      <4>2. PageAt(f)[2] \in Nat
        <5>1. \A d \in Clients : thread[d].page \in Nat
          BY <1>2 DEF Types, Threads
        <5>2. table[f].page \in Nat
          BY <1>2 DEF Types, FrameTypes
        <5> QED BY <5>1, <5>2 DEF PageAt, BeingGiven
      <4> HIDE DEF t
      <4> QED BY <1>4, <4>1, <4>2
    <3> QED BY <3>1
  <2> HIDE DEF t
  <2>8. /\ Len(pages'[t.pid]) <= 1 /\ Len(pages'[t.pid]) = 1
        /\ \A f \in FrameIds : PageAt(f)[1] = t.pid => PageAt(f)[2] < pages'[t.pid][1]
        /\ thread'[c] = storing => pages'[storing.pid][1] = NumberOf(c)' + 1
    <3>1. Len(pages'[t.pid]) = 1 /\ pages'[t.pid][1] = t.page + 1
      BY <2>3, <2>4
    <3>2. Len(pages'[t.pid]) <= 1
      BY <3>1
    <3>3. thread'[c] = storing => pages'[storing.pid][1] = NumberOf(c)' + 1
      BY <2>2, <2>6, <3>1
    <3> QED BY <2>7, <3>1, <3>2, <3>3
  <2>9. thread'[c] = storing =>
          /\ \A d \in Clients \ {c} : Numbering(d) => thread[d].pid # storing.pid
          /\ \A f \in FrameIds : PageAt(f)[1] = storing.pid => PageAt(f)[2] < NumberOf(c)'
    BY <2>2, <2>5, <2>6
  <2>10. storing.pc # "store" /\ storing.pc \in {"take", "store", "number", "frame"}
    BY <2>2
  <2> QED BY <1>1, <1>2, <1>5, <2>1, <2>2, <2>4, <2>5, <2>8, <2>9, <2>10, CountsAgree
<1>8. CASE ReadCount(c)
  <2>1. t.pc = "number" /\ thread' = [thread EXCEPT ![c] = reading] /\ pages' = pages
    BY <1>3, <1>8 DEF ReadCount, At, Set, PagesCount, shared
  <2>2. reading.pc = "frame" /\ reading.pid = t.pid /\ reading.record = 1 /\ reading.page = count - 1
    BY <1>2, <1>3 DEF Threads
  <2> HIDE DEF reading
  <2>3. /\ \A d \in Clients \ {c} : Numbering(d) => thread[d].pid # t.pid
        /\ \A f \in FrameIds : PageAt(f)[1] = t.pid => PageAt(f)[2] < count - 1
    BY <2>1 DEF FramesAgree, NumberedInTurn, Numbering, NumberOf
  <2>4. thread'[c] = reading => NumberOf(c)' = count - 1 /\ count = NumberOf(c)' + 1
    BY <1>4, <2>2 DEF NumberOf
  <2> HIDE DEF t
  <2>5. thread'[c] = reading /\ Numbering(c)' =>
          /\ pages'[reading.pid][1] = IF reading.pc = "store" THEN NumberOf(c)' ELSE NumberOf(c)' + 1
          /\ \A d \in Clients \ {c} : Numbering(d) => thread[d].pid # reading.pid
          /\ \A f \in FrameIds : PageAt(f)[1] = reading.pid => PageAt(f)[2] < NumberOf(c)'
    BY <2>1, <2>2, <2>3, <2>4
  <2> QED BY <1>1, <1>2, <1>3, <1>5, <2>1, <2>2, <2>5, CountsAgree
<1> QED BY <1>6, <1>7, <1>8

\* A thread that works on no page has no part in what the threads that do agree on.
LEMMA OffHome ==
  ASSUME NEW c \in Clients, thread'[c].pc \notin Accessing
  PROVE  WorksAtHome(c)' /\ \A e \in EntryIds : HasEntry(c, e)'
BY DEF WorksAtHome, HasEntry, Accessing, Filling

\* The frame that is taken is the first free one: a later one than all that have a page,
\* for a page with a higher number than all of its process.
LEMMA TakeAgrees ==
  ASSUME IInv, FramesAgree, CacheAgrees, NEW c \in Clients, TakeFrame(c), "taken" \notin trouble'
  PROVE  FramesAgree' /\ CacheAgrees'
<1> USE SizeFacts
<1> DEFINE t == thread[c]
<1>0. PICK h : h = Head(available)
  OBVIOUS
<1> DEFINE new == [t EXCEPT !.pc = "setpid", !.frame = h]
<1>1. /\ t.pc = "frame" /\ available # <<>> /\ available' = Tail(available)
      /\ thread' = [thread EXCEPT ![c] = new]
      /\ UNCHANGED <<table, pages, memory, cache, written, writer>>
  BY <1>0 DEF TakeFrame, At, Set, NoteIf
<1>2. Types /\ t \in Threads /\ t.pid \in Pids /\ t.page \in Nat /\ available \in Seq(FrameIds)
  BY <1>1 DEF IInv, Types, FrameTypes, Ready, Threads
<1>3. /\ Len(available) \in Nat /\ Len(available) > 0 /\ DOMAIN available = 1 .. Len(available)
      /\ h = available[1] /\ h \in FrameIds
      /\ Len(available') = Len(available) - 1 /\ DOMAIN available' = 1 .. Len(available) - 1
      /\ \A i \in 1 .. Len(available) - 1 : available'[i] = available[i + 1]
  BY <1>0, <1>1, <1>2, HeadTailProperties, LenProperties
<1>4. new.pc = "setpid" /\ new.frame = h /\ new.pid = t.pid /\ new.page = t.page /\ new.record = t.record
  BY <1>2 DEF Threads
<1>5. t.record = 1
  BY <1>1 DEF FramesAgree, NumberedInTurn, WithRecord
<1> HIDE DEF new
<1>6. thread'[c] = new /\ \A d \in Clients \ {c} : thread'[d] = thread[d]
  BY <1>1, <1>2 DEF Types
<1>7. h = Frames - Len(available)
  <2>1. 1 \in DOMAIN available
    BY <1>3
  <2>2. available[1] = Frames - Len(available) + 1 - 1
    BY <2>1 DEF FramesAgree, ListInOrder
  <2> QED BY <1>3, <2>2
<1>8. Free(h) /\ table[h] = [pid |-> 0, page |-> 0] /\ \A d \in Clients : ~Gives(d, h)
  <2>1. Free(h)
    BY <1>3, <1>7 DEF Free
  <2> QED BY <1>3, <2>1 DEF FramesAgree, GivenInTurn
<1>9. ASSUME NEW f \in FrameIds PROVE Free(f)' <=> Free(f) /\ f # h
  <2> DEFINE n == Len(available)
  <2>1. f \in Int /\ n \in Nat /\ Len(available') = n - 1 /\ h = Frames - n /\ Frames \in Nat
    BY <1>3, <1>7
  <2>2. (Free(f) <=> f >= Frames - n) /\ (Free(f)' <=> f >= Frames - Len(available'))
    BY DEF Free
  <2> HIDE DEF n
  <2> QED BY <2>1, <2>2
<1>10. \A d \in Clients, f \in FrameIds : /\ Gives(d, f)' <=> Gives(d, f) \/ (d = c /\ f = h)
                                          /\ Gives(d, f) => d # c /\ f # h
  BY <1>1, <1>4, <1>6, <1>8 DEF Gives
<1>11. ASSUME NEW f \in FrameIds, f # h
       PROVE  PageAt(f)' = PageAt(f) /\ (BeingGiven(f)' <=> BeingGiven(f))
  <2>1. \A d \in Clients : Gives(d, f)' <=> Gives(d, f)
    BY <1>10, <1>11
  <2>2. ASSUME NEW d \in Clients, Gives(d, f)
        PROVE  PageOf(d)' = PageOf(d) /\ \A b \in Clients : Gives(b, f) => b = d
    BY <1>6, <1>10, <2>2 DEF PageOf, FramesAgree, GivenInTurn
  <2>3. table'[f] = table[f]
    BY <1>1
  <2> QED BY <2>1, <2>2, <2>3, PageStays
<1>12. PageAt(h) = <<0, 0>> /\ ~BeingGiven(h) /\ PageAt(h)' = <<t.pid, t.page>> /\ BeingGiven(h)'
  <2>1. ~BeingGiven(h)
    BY <1>8 DEF BeingGiven
  <2>2. PageAt(h) = <<0, 0>>
    <3>1. PageAt(h) = <<table[h].pid, table[h].page>>
      BY <2>1, PageAtFacts
    <3> QED BY <1>8, <3>1
  <2>3. Gives(c, h)' /\ \A d \in Clients : Gives(d, h)' => d = c
    BY <1>3, <1>10
  <2>4. PageAt(h)' = PageOf(c)'
    BY <2>3, PageAtFacts
  <2>5. BeingGiven(h)'
    BY <2>3 DEF BeingGiven
  <2> QED BY <1>4, <1>6, <2>1, <2>2, <2>4, <2>5 DEF PageOf
<1>13. Unended' /\ ListInOrder'
  <2>1. Unended'
    BY <1>4, <1>6 DEF FramesAgree, Unended
  <2>2. ASSUME NEW i \in DOMAIN available' PROVE available'[i] = Frames - Len(available') + i - 1
    <3>1. i + 1 \in DOMAIN available /\ available'[i] = available[i + 1] /\ i \in Int
      BY <1>3
    <3>2. available[i + 1] = Frames - Len(available) + (i + 1) - 1
      BY <3>1 DEF FramesAgree, ListInOrder
    <3> QED BY <1>3, <3>1, <3>2
  <2> QED BY <2>1, <2>2 DEF ListInOrder
<1>14. GivenInTurn'
  <2>1. \A f \in FrameIds : Free(f)' => table'[f] = [pid |-> 0, page |-> 0]
    BY <1>1, <1>9 DEF FramesAgree, GivenInTurn
  <2>2. ASSUME NEW d \in Clients, NEW f \in FrameIds, Gives(d, f)'
        PROVE  /\ ~Free(f)' /\ table'[f].page = 0
               /\ table'[f].pid = IF thread'[d].pc = "setpid" THEN 0 ELSE thread'[d].pid
               /\ \A b \in Clients : Gives(b, f)' => b = d
    <3>1. CASE f = h
      <4>1. d = c /\ \A b \in Clients : Gives(b, f)' => b = d
        BY <1>10, <2>2, <3>1
      <4>2. table'[f].page = 0 /\ table'[f].pid = 0
        BY <1>1, <1>8, <3>1
      <4> QED BY <1>4, <1>6, <1>9, <3>1, <4>1, <4>2
    <3>2. CASE f # h
      BY <1>1, <1>6, <1>9, <1>10, <2>2, <3>2 DEF FramesAgree, GivenInTurn
    <3> QED BY <3>1, <3>2
  <2> QED BY <2>1, <2>2 DEF GivenInTurn
\* The numbers of the pages of the process so far.
<1>15. /\ Len(pages[t.pid]) <= 1 /\ pages[t.pid][1] = t.page + 1
       /\ \A d \in Clients : Numbering(d) /\ thread[d].pid = t.pid => d = c
       /\ \A f \in FrameIds : PageAt(f)[1] = t.pid => PageAt(f)[2] < t.page
  BY <1>1, <1>2 DEF FramesAgree, NumberedInTurn, Numbering, NumberOf
<1>16. Len(pages[t.pid]) = 1
  <2>1. t.record <= Len(pages[t.pid])
    BY <1>5 DEF IInv, Ready
  <2>2. pages[t.pid] \in Seq(Nat) /\ Len(pages[t.pid]) \in Nat
    BY <1>2, LenProperties DEF Types, FrameTypes
  <2> DEFINE n == Len(pages[t.pid])
             r == t.record
  <2>3. r = 1 /\ r <= n /\ n <= 1 /\ n \in Nat
    BY <1>5, <1>15, <2>1, <2>2
  <2> HIDE DEF n, r
  <2>4. n = 1
    BY <2>3
  <2> QED BY <2>4 DEF n
<1>17. NumberedInTurn'
  <2>1. \A d \in Clients : Numbering(d)' <=> Numbering(d) /\ d # c
    BY <1>4, <1>6 DEF Numbering
  <2>2. ASSUME NEW d \in Clients
        PROVE  /\ thread'[d].pc \in WithRecord => thread'[d].record = 1
               /\ Numbering(d)' =>
                    /\ pages'[thread'[d].pid][1] =
                         IF thread'[d].pc = "store" THEN NumberOf(d)' ELSE NumberOf(d)' + 1
                    /\ \A b \in Clients : Numbering(b)' /\ thread'[b].pid = thread'[d].pid => b = d
                    /\ \A f \in FrameIds :
                         PageAt(f)'[1] = thread'[d].pid => PageAt(f)'[2] < NumberOf(d)'
    <3>1. CASE d = c
      BY <1>4, <1>5, <1>6, <2>1, <3>1
    <3>2. CASE d # c
      <4>1. thread'[d] = thread[d] /\ NumberOf(d)' = NumberOf(d)
        BY <1>1, <1>6, <3>2 DEF NumberOf
      <4>2. Numbering(d) => thread[d].pid # t.pid
        BY <1>15, <3>2
      <4>3. Numbering(d) => \A b \in Clients : Numbering(b)' /\ thread'[b].pid = thread'[d].pid => b = d
        BY <1>6, <2>1, <4>1 DEF FramesAgree, NumberedInTurn
      <4>4. Numbering(d) => \A f \in FrameIds :
              PageAt(f)'[1] = thread'[d].pid => PageAt(f)'[2] < NumberOf(d)'
        <5>1. ASSUME Numbering(d), NEW f \in FrameIds, PageAt(f)'[1] = thread[d].pid
              PROVE  PageAt(f)'[2] < NumberOf(d)
          <6>1. f # h
            BY <1>12, <4>2, <5>1
          <6> QED BY <1>11, <5>1, <6>1 DEF FramesAgree, NumberedInTurn
        <5> QED BY <4>1, <5>1
      <4> QED BY <1>1, <2>1, <4>1, <4>3, <4>4 DEF FramesAgree, NumberedInTurn
    <3> QED BY <3>1, <3>2
  <2>3. ASSUME NEW f \in FrameIds, PageAt(f)'[1] \in Pids
        PROVE  Len(pages'[PageAt(f)'[1]]) = 1 /\ PageAt(f)'[2] < pages'[PageAt(f)'[1]][1]
    <3>1. CASE f = h
      <4>1. t.page < t.page + 1
        BY <1>2
      <4> QED BY <1>1, <1>12, <1>15, <1>16, <3>1, <4>1
    <3>2. CASE f # h
      BY <1>1, <1>11, <2>3, <3>2 DEF FramesAgree, NumberedInTurn
    <3> QED BY <3>1, <3>2
  <2>4. \A p \in Pids : Len(pages'[p]) <= 1
    BY <1>1 DEF FramesAgree, NumberedInTurn
  <2> QED BY <2>2, <2>3, <2>4 DEF NumberedInTurn
<1>18. FramesInOrder'
  <2> SUFFICES ASSUME NEW f \in FrameIds, NEW g \in FrameIds, f < g,
                      PageAt(f)'[1] \in Pids, PageAt(f)'[1] = PageAt(g)'[1]
               PROVE  PageAt(f)'[2] < PageAt(g)'[2]
    BY DEF FramesInOrder
  <2>1. CASE g = h
    <3>1. f # h
      BY <2>1
    <3> QED BY <1>11, <1>12, <1>15, <2>1, <3>1
  <2>2. CASE f = h
    <3>1. g # h /\ Free(g)
      BY <1>3, <1>7, <2>2 DEF Free
    <3>2. table[g].pid = 0 /\ \A d \in Clients : ~Gives(d, g)
      <4>1. table[g] = [pid |-> 0, page |-> 0]
        BY <3>1 DEF FramesAgree, GivenInTurn
      <4>2. \A d \in Clients : ~Gives(d, g)
        BY <3>1 DEF FramesAgree, GivenInTurn
      <4> QED BY <4>1, <4>2
    <3>3. PageAt(g) = <<table[g].pid, table[g].page>>
      BY <3>2, PageAtFacts DEF BeingGiven
    <3>4. PageAt(g)'[1] = 0
      <4>1. PageAt(g) = <<0, table[g].page>>
        BY <3>2, <3>3
      <4>2. PageAt(g)[1] = 0
        BY <4>1
      <4> QED BY <1>11, <3>1, <4>2
    <3> QED BY <3>4
  <2>3. CASE f # h /\ g # h
    BY <1>11, <2>3 DEF FramesAgree, FramesInOrder
  <2> QED BY <2>1, <2>2, <2>3
<1>19. OwnersStay
  BY <1>11, <1>12 DEF OwnersStay
<1>20. CacheAgrees'
  <2>1. thread'[c].pc \notin Accessing
    BY <1>4, <1>6 DEF Accessing
  <2>2. WorksAtHome(c)' /\ \A e \in EntryIds : HasEntry(c, e)'
    BY <2>1, OffHome
  <2> QED BY <1>1, <1>19, <2>2, EntriesStay
<1> QED BY <1>13, <1>14, <1>17, <1>18, <1>20 DEF FramesAgree

\* Between its pid and its page the frame passes for another of the process's page 0.
LEMMA SetPidAgrees ==
  ASSUME IInv, FramesAgree, CacheAgrees, NEW c \in Clients, SetPid(c)
  PROVE  FramesAgree' /\ CacheAgrees'
<1> USE SizeFacts
<1> DEFINE t == thread[c]
           new == [t EXCEPT !.pc = "setpage"]
<1>0. PICK h : h = t.frame
  OBVIOUS
<1>1. /\ t.pc = "setpid" /\ thread' = [thread EXCEPT ![c] = new]
      /\ table' = [table EXCEPT ![h].pid = t.pid]
      /\ UNCHANGED <<available, pages, memory, cache, written, writer>>
  BY <1>0 DEF SetPid, At, Set, GoTo
<1>2. Types /\ t \in Threads /\ t.pid \in Pids /\ h \in FrameIds
  BY <1>0, <1>1 DEF IInv, Types, Ready
<1>3. new.pc = "setpage" /\ new.frame = h /\ new.pid = t.pid /\ new.page = t.page /\ new.record = t.record
  BY <1>0, <1>2 DEF Threads
<1> HIDE DEF new
<1>4. thread'[c] = new /\ \A d \in Clients \ {c} : thread'[d] = thread[d]
  BY <1>1, <1>2 DEF Types
<1>5. /\ table'[h].pid = t.pid /\ table'[h].page = table[h].page
      /\ \A f \in FrameIds \ {h} : table'[f] = table[f]
  <2>1. table[h] \in [pid : Pids \cup {-1, 0}, page : Nat]
    BY <1>2 DEF Types, FrameTypes
  <2> HIDE DEF t
  <2> QED BY <1>1, <1>2, <2>1 DEF Types, FrameTypes
<1>6. \A d \in Clients, f \in FrameIds : Gives(d, f)' <=> Gives(d, f)
  BY <1>0, <1>1, <1>3, <1>4 DEF Gives
<1>7. Gives(c, h) /\ (\A d \in Clients : Gives(d, h) => d = c) /\ ~Free(h) /\ table[h].page = 0
  <2>1. Gives(c, h)
    BY <1>0, <1>1 DEF Gives
  <2> QED BY <1>2, <2>1 DEF FramesAgree, GivenInTurn
<1>8. SamePages
  <2>1. ASSUME NEW f \in FrameIds PROVE PageAt(f)' = PageAt(f) /\ (BeingGiven(f)' <=> BeingGiven(f))
    <3>1. \A d \in Clients : Gives(d, f)' <=> Gives(d, f)
      BY <1>6
    <3>2. ASSUME NEW d \in Clients, Gives(d, f)
          PROVE  PageOf(d)' = PageOf(d) /\ \A b \in Clients : Gives(b, f) => b = d
      BY <1>3, <1>4, <3>2 DEF PageOf, FramesAgree, GivenInTurn
    <3>3. table'[f] = table[f] \/ BeingGiven(f)
      BY <1>5, <1>7 DEF BeingGiven
    <3> QED BY <3>1, <3>2, <3>3, PageStays
  <2> QED BY <2>1 DEF SamePages
<1>9. Unended' /\ ListInOrder'
  BY <1>1, <1>3, <1>4 DEF FramesAgree, Unended, ListInOrder
<1>10. GivenInTurn'
  <2>1. \A f \in FrameIds : Free(f)' => table'[f] = [pid |-> 0, page |-> 0]
    <3>1. \A f \in FrameIds : Free(f)' <=> Free(f)
      BY <1>1 DEF Free
    <3> QED BY <1>5, <1>7, <3>1 DEF FramesAgree, GivenInTurn
  <2>2. ASSUME NEW d \in Clients, NEW f \in FrameIds, Gives(d, f)'
        PROVE  /\ ~Free(f)' /\ table'[f].page = 0
               /\ table'[f].pid = IF thread'[d].pc = "setpid" THEN 0 ELSE thread'[d].pid
               /\ \A b \in Clients : Gives(b, f)' => b = d
    <3>1. ~Free(f)' /\ Gives(d, f) /\ \A b \in Clients : Gives(b, f)' => b = d
      BY <1>1, <1>6, <2>2 DEF FramesAgree, GivenInTurn, Free
    <3>2. CASE f = h
      <4>1. d = c /\ table'[f].page = 0
        BY <1>5, <1>7, <3>1, <3>2
      <4> QED BY <1>3, <1>4, <1>5, <3>1, <3>2, <4>1
    <3>3. CASE f # h
      <4>1. d # c
        BY <1>0, <3>1, <3>3 DEF Gives
      <4>2. thread'[d] = thread[d] /\ table'[f] = table[f]
        BY <1>4, <1>5, <3>3, <4>1
      <4> QED BY <3>1, <4>2 DEF FramesAgree, GivenInTurn
    <3> QED BY <3>2, <3>3
  <2> QED BY <2>1, <2>2 DEF GivenInTurn
<1>11. NumberedInTurn'
  <2>1. thread'[c] = new => ~Numbering(c)'
    BY <1>3 DEF Numbering
  <2>2. /\ new.pc \in WithRecord => new.record = 1
        /\ Len(pages'[t.pid]) <= 1
    BY <1>1, <1>2, <1>3 DEF FramesAgree, NumberedInTurn, WithRecord
  <2>3. \A d \in Clients : Numbering(d) => thread[d].pid \in Pids
    BY DEF IInv, Ready, Numbering
  <2>4. \A f \in FrameIds : PageAt(f)' = PageAt(f)
    BY <1>8 DEF SamePages
  <2> HIDE DEF t
  <2> QED BY <1>1, <1>2, <2>1, <2>2, <2>3, <2>4, NumbersStay
<1>12. FramesInOrder'
  BY <1>8 DEF FramesAgree, FramesInOrder, SamePages
<1>13. CacheAgrees'
  <2>1. OwnersStay
    BY <1>8, SameOwners
  <2>2. thread'[c].pc \notin Accessing
    BY <1>3, <1>4 DEF Accessing
  <2>3. WorksAtHome(c)' /\ \A e \in EntryIds : HasEntry(c, e)'
    BY <2>2, OffHome
  <2> QED BY <1>1, <2>1, <2>3, EntriesStay
<1> QED BY <1>9, <1>10, <1>11, <1>12, <1>13 DEF FramesAgree

\* The frame has its page for good, one that no frame had.
LEMMA SetPageAgrees ==
  ASSUME IInv, FramesAgree, CacheAgrees, NEW c \in Clients, SetPage(c)
  PROVE  FramesAgree' /\ CacheAgrees'
<1> USE SizeFacts
<1> DEFINE t == thread[c]
           next == [t EXCEPT !.pc = "take", !.left = @ - 1, !.page = 0, !.frame = None]
<1>0. PICK h : h = t.frame
  OBVIOUS
<1>1. /\ t.pc = "setpage" /\ (thread' = [thread EXCEPT ![c] = Idle] \/ thread' = [thread EXCEPT ![c] = next])
      /\ table' = [table EXCEPT ![h].page = t.page]
      /\ UNCHANGED <<available, pages, memory, cache, written, writer>>
  BY <1>0 DEF SetPage, At, Set, Finish
<1>2. Types /\ t \in Threads /\ t.pid \in Pids /\ h \in FrameIds /\ t.page \in Nat
  BY <1>0, <1>1 DEF IInv, Types, Ready, Threads
<1>3. PICK new : /\ thread' = [thread EXCEPT ![c] = new]
                 /\ new.pc = "idle" \/ (new.pc = "take" /\ new.record = t.record)
  <2>1. next.pc = "take" /\ next.record = t.record /\ Idle.pc = "idle"
    BY <1>2 DEF Threads, Idle
  <2> HIDE DEF next
  <2> QED BY <1>1, <2>1
<1> HIDE DEF next
<1>4. thread'[c] = new /\ \A d \in Clients \ {c} : thread'[d] = thread[d]
  BY <1>2, <1>3 DEF Types
<1>5. Gives(c, h) /\ (\A d \in Clients : Gives(d, h) => d = c) /\ ~Free(h) /\ table[h].pid = t.pid
  <2>1. Gives(c, h)
    BY <1>0, <1>1 DEF Gives
  <2> QED BY <1>1, <1>2, <2>1 DEF FramesAgree, GivenInTurn
<1>6. /\ table'[h].pid = t.pid /\ table'[h].page = t.page
      /\ \A f \in FrameIds \ {h} : table'[f] = table[f]
  <2>1. table[h] \in [pid : Pids \cup {-1, 0}, page : Nat]
    BY <1>2 DEF Types, FrameTypes
  <2> HIDE DEF t
  <2> QED BY <1>1, <1>2, <1>5, <2>1 DEF Types, FrameTypes
<1>7. \A d \in Clients, f \in FrameIds : /\ Gives(d, f)' <=> Gives(d, f) /\ f # h
                                         /\ Gives(d, f)' => d # c
  <2>1. \A f \in FrameIds : Gives(c, f) <=> f = h
    BY <1>0, <1>1 DEF Gives
  <2>2. \A f \in FrameIds : ~Gives(c, f)'
    BY <1>3, <1>4 DEF Gives
  <2>3. \A d \in Clients \ {c}, f \in FrameIds : Gives(d, f)' <=> Gives(d, f)
    BY <1>4 DEF Gives
  <2> QED BY <1>2, <1>5, <2>1, <2>2, <2>3
<1>8. /\ \A f \in FrameIds : PageAt(f)' = PageAt(f)
      /\ \A f \in FrameIds \ {h} : BeingGiven(f)' <=> BeingGiven(f)
      /\ BeingGiven(h) /\ ~BeingGiven(h)' /\ PageAt(h) = <<t.pid, t.page>>
  <2>1. ASSUME NEW f \in FrameIds, f # h
        PROVE  PageAt(f)' = PageAt(f) /\ (BeingGiven(f)' <=> BeingGiven(f))
    <3>1. \A d \in Clients : Gives(d, f)' <=> Gives(d, f)
      BY <1>7, <2>1
    <3>2. ASSUME NEW d \in Clients, Gives(d, f)
          PROVE  PageOf(d)' = PageOf(d) /\ \A b \in Clients : Gives(b, f) => b = d
      BY <1>4, <1>7, <2>1, <3>2 DEF PageOf, FramesAgree, GivenInTurn
    <3>3. table'[f] = table[f]
      BY <1>6, <2>1
    <3> QED BY <3>1, <3>2, <3>3, PageStays
  <2>2. ~BeingGiven(h)' /\ BeingGiven(h)
    BY <1>2, <1>5, <1>7 DEF BeingGiven
  <2>3. PageAt(h) = <<t.pid, t.page>>
    BY <1>5, PageAtFacts DEF PageOf
  <2>4. PageAt(h)' = <<table'[h].pid, table'[h].page>>
    BY <2>2, PageAtFacts
  <2> QED BY <1>6, <2>1, <2>2, <2>3, <2>4
<1>9. Unended' /\ ListInOrder'
  BY <1>1, <1>3, <1>4 DEF FramesAgree, Unended, ListInOrder
<1>10. GivenInTurn'
  <2>1. \A f \in FrameIds : Free(f)' <=> Free(f)
    BY <1>1 DEF Free
  <2>2. \A f \in FrameIds : Free(f)' => table'[f] = [pid |-> 0, page |-> 0]
    BY <1>5, <1>6, <2>1 DEF FramesAgree, GivenInTurn
  <2>3. ASSUME NEW d \in Clients, NEW f \in FrameIds, Gives(d, f)'
        PROVE  /\ ~Free(f)' /\ table'[f].page = 0
               /\ table'[f].pid = IF thread'[d].pc = "setpid" THEN 0 ELSE thread'[d].pid
               /\ \A b \in Clients : Gives(b, f)' => b = d
    <3>1. Gives(d, f) /\ f # h /\ d # c
      BY <1>7, <2>3
    <3>2. thread'[d] = thread[d] /\ table'[f] = table[f]
      BY <1>4, <1>6, <3>1
    <3>3. \A b \in Clients : Gives(b, f)' => b = d
      BY <1>7, <3>1 DEF FramesAgree, GivenInTurn
    <3> QED BY <2>1, <3>1, <3>2, <3>3 DEF FramesAgree, GivenInTurn
  <2> QED BY <2>2, <2>3 DEF GivenInTurn
<1>11. NumberedInTurn'
  <2>1. thread'[c] = new => ~Numbering(c)'
    BY <1>3 DEF Numbering
  <2>2. /\ new.pc \in WithRecord => new.record = 1
        /\ Len(pages'[t.pid]) <= 1
    BY <1>1, <1>2, <1>3 DEF FramesAgree, NumberedInTurn, WithRecord
  <2>3. \A d \in Clients : Numbering(d) => thread[d].pid \in Pids
    BY DEF IInv, Ready, Numbering
  <2> HIDE DEF t
  <2> QED BY <1>1, <1>2, <1>3, <1>8, <2>1, <2>2, <2>3, NumbersStay
<1>12. FramesInOrder'
  BY <1>8 DEF FramesAgree, FramesInOrder
<1>13. CacheAgrees'
  <2>1. ASSUME NEW g \in FrameIds, ~BeingGiven(g) PROVE PageAt(g) # <<t.pid, t.page>>
    <3>1. g # h
      BY <1>8, <2>1
    <3>2. <<t.pid, t.page>>[1] \in Pids /\ <<t.pid, t.page>>[2] \in Nat
      BY <1>2
    <3> DEFINE page == <<t.pid, t.page>>
    <3>3. page[1] \in Pids /\ page[2] \in Nat /\ PageAt(h) = page
      BY <1>8, <3>2
    <3> HIDE DEF page
    <3>4. PageAt(g) # page
      BY <1>2, <3>1, <3>3, OneOwner DEF FramesAgree
    <3> QED BY <3>4 DEF page
  <2>2. PageAt(h)'[1] \in Pids
    <3>1. PageAt(h)' = <<t.pid, t.page>>
      BY <1>2, <1>8
    <3>2. PageAt(h)'[1] = t.pid
      BY <3>1
    <3> QED BY <1>2, <3>2
  <2>3. OwnersStay
    BY <1>8, <2>1, <2>2 DEF OwnersStay
  <2>4. thread'[c].pc \notin Accessing
    BY <1>3, <1>4 DEF Accessing
  <2>5. WorksAtHome(c)' /\ \A e \in EntryIds : HasEntry(c, e)'
    BY <2>4, OffHome
  <2> QED BY <1>1, <1>3, <2>3, <2>5, EntriesStay
<1> QED BY <1>9, <1>10, <1>11, <1>12, <1>13 DEF FramesAgree

-----------------------------------------------------------------------------
(* The cache is coherent *)

\* At the start no frame has a page and no entry is in use.
LEMMA InitAgrees == Init => CInv
<1> SUFFICES ASSUME Init PROVE FramesAgree /\ CacheAgrees
  BY DEF CInv
<1> USE SizeFacts
<1>1. \A c \in Clients : thread[c].pc = "idle"
  BY DEF Init, Idle
<1>2. \A f \in FrameIds, c \in Clients : ~Gives(c, f) /\ ~Numbering(c)
  BY <1>1 DEF Gives, Numbering
<1>3. \A f \in FrameIds : ~BeingGiven(f)
  BY <1>2 DEF BeingGiven
<1>4. \A f \in FrameIds : PageAt(f) = <<table[f].pid, table[f].page>>
  BY <1>3, PageAtFacts
<1>5. Len(available) = Frames - Admin /\ DOMAIN available = 1 .. Frames - Admin
      /\ \A i \in 1 .. Frames - Admin : available[i] = Admin + i - 1
  BY DEF Init
<1>6. Unended /\ ListInOrder
  <2>1. Frames - Len(available) = Admin
    BY <1>5
  <2> QED BY <1>1, <1>5, <2>1 DEF Unended, ListInOrder
<1>7. GivenInTurn
  <2>1. \A f \in FrameIds : Free(f) => table[f] = [pid |-> 0, page |-> 0]
    <3>1. ASSUME NEW f \in FrameIds, Free(f) PROVE ~(f < Admin)
      BY <1>5, <3>1 DEF Free
    <3> QED BY <3>1 DEF Init
  <2> QED BY <1>2, <2>1 DEF GivenInTurn
<1>8. \A f \in FrameIds : PageAt(f)[1] \notin Pids
  <2>1. \A f \in FrameIds : table[f].pid \in {-1, 0}
    BY DEF Init
  <2> QED BY <1>4, <2>1
<1>9. NumberedInTurn
  <2>1. \A p \in Pids : Len(pages[p]) <= 1
    BY DEF Init
  <2>2. \A c \in Clients : thread[c].pc \notin WithRecord
    BY <1>1 DEF WithRecord
  <2> QED BY <1>2, <1>8, <2>1, <2>2 DEF NumberedInTurn
<1>10. FramesInOrder
  BY <1>8 DEF FramesInOrder
<1>11. \A c \in Clients : WorksAtHome(c) /\ \A e \in EntryIds : HasEntry(c, e)
  BY <1>1 DEF WorksAtHome, HasEntry, Accessing, Filling
<1>12. \A e \in EntryIds : EntryIsTrue(e)
  BY DEF Init, EntryIsTrue
<1>13. written = {}
  BY DEF Init
<1> QED BY <1>6, <1>7, <1>9, <1>10, <1>11, <1>12, <1>13 DEF FramesAgree, CacheAgrees

\* What went wrong stays noted.
LEMMA TroubleStays ==
  ASSUME [Next]_vars
  PROVE  trouble \subseteq trouble'
<1>1. CASE UNCHANGED vars
  BY <1>1 DEF vars
<1>2. ASSUME NEW c \in Clients, AskAssign(c) \/ AskEnd(c) \/ AskAccess(c)
      PROVE  trouble \subseteq trouble'
  BY <1>2 DEF AskAssign, AskEnd, AskAccess, Request
<1>3. ASSUME NEW c \in Clients, Step(c)
      PROVE  trouble \subseteq trouble'
  <2>1. CASE CheckAvailable(c) \/ SearchProcess(c) \/ CreateProcess(c)
    BY <2>1 DEF CheckAvailable, SearchProcess, CreateProcess, NoteIf
  <2>2. CASE LoadCount(c) \/ StoreCount(c) \/ ReadCount(c) \/ RecordForgotten(c)
    BY <2>2 DEF LoadCount, StoreCount, ReadCount, RecordForgotten, Wild, Note, NoteIf
  <2>3. CASE TakeFrame(c) \/ SetPid(c) \/ SetPage(c)
    BY <2>3 DEF TakeFrame, SetPid, SetPage, NoteIf
  <2>4. CASE ForgetProcess(c) \/ CleanTest(c) \/ CleanFrame(c)
    BY <2>4 DEF ForgetProcess, CleanTest, CleanFrame, Note, NoteIf
  <2>5. CASE Scan(c) \/ ReadHit(c) \/ ReadFrame(c) \/ Pick(c) \/ Flush(c) \/ ReadSend(c)
    BY <2>5 DEF Scan, ReadHit, ReadFrame, Pick, Flush, ReadSend
  <2>6. CASE ReadFind(c) \/ FlushFind(c) \/ UpdateNowhere(c)
    BY <2>6 DEF ReadFind, FlushFind, FindFrame, UpdateNowhere, Wild, Note
  <2>7. CASE Count(c) \/ Fill(c)
    BY <2>7 DEF Count, Fill, NoteIf
  <2> QED BY <1>3, <2>1, <2>2, <2>3, <2>4, <2>5, <2>6, <2>7 DEF Step
<1> QED BY <1>1, <1>2, <1>3 DEF Next

\* Every step keeps what coherence rests on.
LEMMA StepAgrees == IInv /\ CInv /\ [Next]_vars => CInv'
<1> SUFFICES ASSUME IInv, CInv, [Next]_vars, Calm'
             PROVE  FramesAgree' /\ CacheAgrees'
  BY DEF CInv
<1>1. FramesAgree /\ CacheAgrees
  BY TroubleStays DEF CInv, Calm
<1>2. {"taken", "crossed", "doubled", "ended"} \cap trouble' = {}
  BY DEF Calm
<1>3. CASE UNCHANGED vars
  BY <1>1, <1>3, SameAgrees DEF vars
<1>4. ASSUME NEW c \in Clients, AskAssign(c) \/ AskEnd(c) \/ AskAccess(c)
      PROVE  FramesAgree' /\ CacheAgrees'
  BY <1>1, <1>4, AskAgrees
<1>5. ASSUME NEW c \in Clients, Step(c)
      PROVE  FramesAgree' /\ CacheAgrees'
  <2>1. CASE CheckAvailable(c) \/ SearchProcess(c) \/ CreateProcess(c)
    BY <1>1, <1>2, <2>1, CheckAgrees, CreateAgrees
  <2>2. CASE LoadCount(c) \/ StoreCount(c) \/ ReadCount(c)
    BY <1>1, <1>2, <2>2, NumberAgrees
  <2>3. CASE RecordForgotten(c) \/ UpdateNowhere(c)
    BY <1>1, <2>3, SameAgrees DEF RecordForgotten, UpdateNowhere, Wild
  <2>4. CASE TakeFrame(c) \/ SetPid(c) \/ SetPage(c)
    BY <1>1, <1>2, <2>4, TakeAgrees, SetPidAgrees, SetPageAgrees
  <2>5. CASE ForgetProcess(c)
    BY <1>2, <2>5 DEF ForgetProcess, Note
  <2>6. CASE CleanTest(c) \/ CleanFrame(c)
    BY <1>1, <2>6 DEF CleanTest, CleanFrame, At, FramesAgree, Unended
  <2>7. CASE Scan(c) \/ ReadHit(c) \/ ReadFind(c) \/ ReadFrame(c) \/ ReadSend(c)
    BY <1>1, <2>7, ScanAgrees, HitAgrees, ReadFindAgrees, ReadFrameAgrees, SendAgrees
  <2>8. CASE Count(c) \/ Pick(c) \/ FlushFind(c) \/ Flush(c) \/ Fill(c)
    BY <1>1, <1>2, <2>8, CountAgrees, PickAgrees, FlushFindAgrees, FlushAgrees, FillAgrees
  <2> QED BY <1>5, <2>1, <2>2, <2>3, <2>4, <2>5, <2>6, <2>7, <2>8 DEF Step
<1> QED BY <1>3, <1>4, <1>5 DEF Next

\* Frames are given in order and pages numbered in order, so that get_frame (608) finds
\* the frame of a page; each entry has the page its frame would have, or a later one to
\* be written back, and each page is written back before its entry is given to another
\* (546-565), as long as nothing of what breaks it has happened.
THEOREM CoherenceHolds == Spec => []CInv
BY InitAgrees, StepAgrees, InvariantHolds, PTL DEF Spec

\* What is cached and was not written since is the same in its frame, and what was
\* written to a page is where its next reader looks: no eviction loses a write.
THEOREM CacheStaysCoherent == Spec => []CacheIsCoherent
<1>1. ASSUME IInv, CInv, trouble \cap {"taken", "crossed", "doubled", "ended"} = {}
      PROVE  /\ \A e \in EntryIds :
                  cache[e].pid # -1 /\ ~cache[e].writed =>
                    InFrame(<<cache[e].pid, cache[e].page>>) = cache[e].content
             /\ \A page \in written :
                  IF Cached(page) # {}
                  THEN \A e \in Cached(page) : page \in cache[e].content
                  ELSE page \in InFrame(page)
  <2>1. Types /\ FramesAgree /\ CacheAgrees
    BY <1>1 DEF IInv, CInv, Calm
  <2>2. ASSUME NEW p \in Pids, NEW k, NEW f \in FrameIds, Owns(f, <<p, k>>)
        PROVE  InFrame(<<p, k>>) = memory[f]
    <3>1. Min(FramesOf(p, k)) = f
      BY <2>1, <2>2, HomeIsFirst DEF FramesAgree
    <3>2. <<p, k>>[1] = p /\ <<p, k>>[2] = k
      OBVIOUS
    <3> QED BY <3>1, <3>2 DEF InFrame
  <2>3. ASSUME NEW e \in EntryIds, cache[e].pid # -1, ~cache[e].writed
        PROVE  InFrame(<<cache[e].pid, cache[e].page>>) = cache[e].content
    <3>1. cache[e].pid \in Pids
      BY <2>1, <2>3 DEF Types, CacheTypes
    <3>2. PICK f \in FrameIds : Owns(f, EntryPage(e)) /\ memory[f] = cache[e].content
      BY <2>1, <2>3 DEF CacheAgrees, EntryIsTrue, HasFrame
    <3> QED BY <2>2, <3>1, <3>2 DEF EntryPage
  <2>4. ASSUME NEW page \in written
        PROVE  IF Cached(page) # {}
               THEN \A e \in Cached(page) : page \in cache[e].content
               ELSE page \in InFrame(page)
    <3>1. WriteIsKept(page)
      BY <2>1, <2>4 DEF CacheAgrees
    <3>2. \A e \in Cached(page) : e \in EntryIds /\ EntryPage(e) = page
      BY DEF Cached, EntryPage
    <3>3. CASE Cached(page) # {}
      BY <3>1, <3>2, <3>3 DEF WriteIsKept
    <3>4. CASE Cached(page) = {}
      <4>1. \A e \in EntryIds : EntryPage(e) # page
        BY <3>4 DEF Cached, EntryPage
      <4>2. PICK f \in FrameIds : Owns(f, page) /\ page \in memory[f]
        BY <3>1, <4>1 DEF WriteIsKept, HasFrame
      <4>3. page[1] \in Pids /\ page = <<page[1], page[2]>>
        BY <2>1, <2>4 DEF Types, PageIds
      <4>4. InFrame(page) = memory[f]
        BY <2>2, <4>2, <4>3
      <4> QED BY <3>4, <4>2, <4>4
    <3> QED BY <3>3, <3>4
  <2> QED BY <2>3, <2>4
<1>2. IInv /\ CInv => CacheIsCoherent
  BY <1>1 DEF CacheIsCoherent
<1> QED BY <1>2, InvariantHolds, CoherenceHolds, PTL
=============================================================================
