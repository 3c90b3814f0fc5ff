--------------------------- MODULE OsadaTableProofs ---------------------------
(***************************************************************************)
(* Proofs about OsadaTable, for any number of clients, entries and names.  *)
(***************************************************************************)
EXTENDS OsadaTable, TLAPS

LEMMA TableFacts ==
  /\ FileBlocks \in Nat \ {0}
  /\ \A p \in Entries : p \in Int /\ p >= 0 /\ p < FileBlocks
  /\ \A n \in 0 .. FileBlocks : n < FileBlocks => n \in Entries /\ n + 1 \in 0 .. FileBlocks
  /\ Entries \subseteq 0 .. FileBlocks
  /\ ROOT \notin Entries /\ ENOSPC \notin Entries /\ NoEntry \notin Entries
  /\ ROOT # ENOSPC /\ ROOT # NoEntry /\ ENOSPC # NoEntry
  /\ NoClient \notin Clients /\ NULL \notin Names
BY TableAssumption, NullAssumption DEF Entries, ROOT, ENOSPC, NoEntry

-----------------------------------------------------------------------------
(* The reader/writer locks *)

\* Pairs of lock tables in which a writer is alone.
Good(L) ==
  /\ L \in [w : [Entries -> Clients \cup {NoClient}], r : [Entries -> [Clients -> Nat]]]
  /\ \A p \in Entries : L.w[p] # NoClient => \A d \in Clients : L.r[p][d] = 0

Has(L, c, p) == L.w[p] = c \/ L.r[p][c] > 0

\* M is L, but for what c has of the entries in S.
Apart(c, S, L, M) ==
  \A q \in Entries, d \in Clients :
    q \notin S \/ d # c => (M.w[q] = d <=> L.w[q] = d) /\ M.r[q][d] = L.r[q][d]

\* A lock that is granted is had, and no other thread loses or gains one.
LEMMA LockedGood ==
  ASSUME NEW L, Good(L), NEW c \in Clients, NEW p \in Entries, NEW type,
         \/ L.w[p] = c
         \/ L.w[p] = NoClient /\ (type = "write" => \A d \in Clients : L.r[p][d] = 0),
         NEW M, M = Locked(L, c, p, type)
  PROVE  /\ Good(M) /\ Apart(c, {p}, L, M) /\ Has(M, c, p)
         /\ type = "write" => M.w[p] = c
<1> USE TableFacts
<1>a. \A q \in Entries : L.w[q] # NoClient => \A d \in Clients : L.r[q][d] = 0
  BY DEF Good
<1>1. CASE L.w[p] = c
  BY <1>1 DEF Locked, Good, Apart, Has
<1>2. CASE L.w[p] # c /\ type = "write"
  <2>1. /\ M.w = [L.w EXCEPT ![p] = c] /\ M.r = L.r
        /\ M = [w |-> M.w, r |-> M.r]
    BY <1>2 DEF Locked, Good
  <2>2. M.w \in [Entries -> Clients \cup {NoClient}] /\ M.r \in [Entries -> [Clients -> Nat]]
    BY <2>1 DEF Good
  <2>3. \A q \in Entries : M.w[q] # NoClient => \A d \in Clients : M.r[q][d] = 0
    <3>1. \A d \in Clients : L.r[p][d] = 0
      BY <1>2
    <3>2. \A q \in Entries : q # p => M.w[q] = L.w[q]
      BY <2>1 DEF Good
    <3> SUFFICES ASSUME NEW q \in Entries, M.w[q] # NoClient, NEW d \in Clients PROVE M.r[q][d] = 0
      OBVIOUS
    <3>3. CASE q = p
      BY ONLY <2>1, <3>1, <3>3, d \in Clients
    <3>4. CASE q # p
      <4>1. L.w[q] # NoClient
        BY <3>2, <3>4
      <4> QED BY ONLY <1>a, <2>1, <4>1, q \in Entries, d \in Clients
    <3> QED BY <3>3, <3>4
  <2>4. M.w[p] = c /\ \A q \in Entries : q # p => M.w[q] = L.w[q]
    BY <2>1 DEF Good
  <2>5. Good(M)
    BY <2>1, <2>2, <2>3 DEF Good
  <2> QED BY <1>2, <2>1, <2>4, <2>5 DEF Apart, Has
<1>3. CASE L.w[p] # c /\ type # "write"
  <2>1. /\ M.r = [L.r EXCEPT ![p] = [L.r[p] EXCEPT ![c] = L.r[p][c] + 1]] /\ M.w = L.w
        /\ M = [w |-> M.w, r |-> M.r]
    BY <1>3 DEF Locked, Good
  <2>2. M.w \in [Entries -> Clients \cup {NoClient}] /\ M.r \in [Entries -> [Clients -> Nat]]
    BY <2>1 DEF Good
  <2>3. /\ M.r[p][c] = L.r[p][c] + 1 /\ L.r[p][c] \in Nat
        /\ \A q \in Entries, d \in Clients : q # p \/ d # c => M.r[q][d] = L.r[q][d]
    BY <2>1 DEF Good
  <2>4. \A q \in Entries : M.w[q] # NoClient => \A d \in Clients : M.r[q][d] = 0
    <3>1. L.w[p] = NoClient
      BY <1>3
    <3>2. M.w = L.w
      BY <2>1
    <3> SUFFICES ASSUME NEW q \in Entries, M.w[q] # NoClient, NEW d \in Clients
                 PROVE  M.r[q][d] = 0
      OBVIOUS
    <3>3. q # p /\ L.w[q] # NoClient
      BY <3>1, <3>2
    <3>4. L.r[q][d] = 0
      BY <1>a, <3>3
    <3> QED BY <2>3, <3>3, <3>4
  <2>5. Good(M)
    BY <2>1, <2>2, <2>4 DEF Good
  <2> QED BY <1>3, <2>1, <2>3, <2>5 DEF Apart, Has
<1> QED BY <1>1, <1>2, <1>3

\* Giving up a lock that is had changes nothing else.
LEMMA UnlockedGood ==
  ASSUME NEW L, Good(L), NEW c \in Clients, NEW p \in Entries, Has(L, c, p),
         NEW M, M = Unlocked(L, c, p)
  PROVE  Good(M) /\ Apart(c, {p}, L, M)
<1> USE TableFacts
<1>0. p # ROOT
  OBVIOUS
<1>1. CASE L.w[p] = c
  <2>1. /\ M.w = [L.w EXCEPT ![p] = NoClient] /\ M.r = L.r
        /\ M = [w |-> M.w, r |-> M.r]
    BY <1>0, <1>1 DEF Unlocked, Good
  <2> QED BY <1>1, <2>1 DEF Good, Apart
<1>2. CASE L.w[p] # c
  <2>1. /\ M.r = [L.r EXCEPT ![p] = [L.r[p] EXCEPT ![c] = L.r[p][c] - 1]] /\ M.w = L.w
        /\ M = [w |-> M.w, r |-> M.r]
    BY <1>0, <1>2 DEF Unlocked, Good
  <2>2. L.r[p][c] \in Nat /\ L.r[p][c] > 0
    BY <1>2 DEF Good, Has
  <2>3. L.w[p] = NoClient
    BY <2>2 DEF Good
  <2>4. M.w \in [Entries -> Clients \cup {NoClient}] /\ M.r \in [Entries -> [Clients -> Nat]]
    BY <2>1, <2>2 DEF Good
  <2>5. \A q \in Entries, d \in Clients : q # p \/ d # c => M.r[q][d] = L.r[q][d]
    BY <2>1 DEF Good
  <2>6. \A q \in Entries : M.w[q] # NoClient => \A d \in Clients : M.r[q][d] = 0
    BY <2>1, <2>3, <2>5 DEF Good
  <2>7. Good(M)
    BY <2>1, <2>4, <2>6 DEF Good
  <2> QED BY <2>1, <2>5, <2>7 DEF Apart
<1> QED BY <1>1, <1>2

\* The same of the locks before and after a step.
LocksBut(c, S) == Good(Now)' /\ Apart(c, S, Now, Now')

LEMMA GoodNow == IInv => Good(Now)
BY DEF IInv, TypeOK, Exclusive, Good, Now

LEMMA GoodLocks ==
  Good(Now)' => /\ wlock' \in [Entries -> Clients \cup {NoClient}]
                /\ rlock' \in [Entries -> [Clients -> Nat]]
                /\ Exclusive'
BY DEF Good, Now, Exclusive

LEMMA Becoming ==
  ASSUME NEW L, Good(L), Become(L)
  PROVE  Now' = L
BY DEF Good, Become, Now

\* A thread that leaves the directory it is in gives up nothing else, or has
\* no lock of it and does no more.
LEMMA Leaving ==
  ASSUME IInv, NEW c \in Clients, NEW S \in SUBSET Entries, pb[c] \notin S,
         NEW L, Good(L), Apart(c, S, Now, L), NEW step, Leave(c, L, step)
  PROVE  \/ /\ Holds(c, pb[c]) /\ pc' = [pc EXCEPT ![c] = step]
            /\ LocksBut(c, S \cup {pb[c]}) /\ Apart(c, {pb[c]}, L, Now')
         \/ /\ ~Holds(c, pb[c]) /\ pc' = [pc EXCEPT ![c] = "wild"]
            /\ LocksBut(c, {}) /\ UNCHANGED locks
<1> USE TableFacts
<1>1. CASE ~Holds(c, pb[c])
  BY <1>1, GoodNow DEF Leave, LocksBut, Goto, Now, Apart, locks
<1>2. CASE Holds(c, pb[c])
  <2>1. Become(Unlocked(L, c, pb[c])) /\ pc' = [pc EXCEPT ![c] = step]
    BY <1>2 DEF Leave, Goto
  <2>2. CASE pb[c] = ROOT
    <3>1. Now' = L
      BY <2>1, <2>2, Becoming DEF Unlocked
    <3> QED BY <1>2, <2>1, <3>1 DEF LocksBut, Apart
  <2>3. CASE pb[c] # ROOT
    <3>1. pb[c] \in Entries
      BY <1>2, <2>3 DEF Holds
    <3>2. Has(L, c, pb[c])
      <4>1. (L.w[pb[c]] = c <=> Now.w[pb[c]] = c) /\ L.r[pb[c]][c] = Now.r[pb[c]][c]
        BY <3>1 DEF Apart
      <4>2. wlock[pb[c]] = c \/ rlock[pb[c]][c] > 0
        BY <1>2, <2>3 DEF Holds
      <4> QED BY ONLY <4>1, <4>2 DEF Has, Now
    <3>3. Good(Unlocked(L, c, pb[c])) /\ Apart(c, {pb[c]}, L, Unlocked(L, c, pb[c]))
      BY <3>1, <3>2, UnlockedGood
    <3>4. Now' = Unlocked(L, c, pb[c])
      BY <2>1, <3>3, Becoming
    <3>5. Apart(c, S \cup {pb[c]}, Now, Now')
      BY <3>3, <3>4 DEF Apart
    <3> QED BY <1>2, <2>1, <3>3, <3>4, <3>5 DEF LocksBut
  <2> QED BY <2>2, <2>3
<1> QED BY <1>1, <1>2

-----------------------------------------------------------------------------
(* What a step of one thread leaves alone *)

OthersKept(c) ==
  \A d \in Clients \ {c} :
    /\ pc'[d] = pc[d] /\ req'[d] = req[d] /\ node'[d] = node[d] /\ pb'[d] = pb[d]
    /\ pos'[d] = pos[d] /\ from'[d] = from[d] /\ listed'[d] = listed[d]

\* The state of an entry changes under its write lock only, its name and its
\* directory under some lock.
TableKept(c) ==
  \A p \in Entries :
    /\ wlock[p] = c \/ state'[p] = state[p]
    /\ Holds(c, p) \/ (fname'[p] = fname[p] /\ parent'[p] = parent[p])

\* The invariant of one thread.
Sound(c) == InStage(c) /\ LocksHeld(c) /\ FoundStays(c)

\* What a thread has found is not changed by another one.
LEMMA OthersSound ==
  ASSUME IInv, NEW c \in Clients, NEW S, LocksBut(c, S), OthersKept(c), TableKept(c),
         NEW d \in Clients \ {c}
  PROVE  Sound(d)'
<1> USE TableFacts
<1>0. InStage(d) /\ LocksHeld(d) /\ FoundStays(d)
  BY DEF IInv
<1>a. \A p \in Entries : wlock[p] # NoClient => \A e \in Clients : rlock[p][e] = 0
  BY DEF IInv, Exclusive
<1>1. /\ pc'[d] = pc[d] /\ req'[d] = req[d] /\ node'[d] = node[d] /\ pb'[d] = pb[d]
      /\ pos'[d] = pos[d] /\ from'[d] = from[d] /\ listed'[d] = listed[d]
  BY DEF OthersKept
<1>2. \A p \in Entries : (wlock'[p] = d <=> wlock[p] = d) /\ rlock'[p][d] = rlock[p][d]
  BY DEF LocksBut, Apart, Now
<1>3. \A p : Holds(d, p)' <=> Holds(d, p)
  BY <1>2 DEF Holds
<1>4. \A p \in Entries : Holds(d, p) => state'[p] = state[p]
  <2> SUFFICES ASSUME NEW p \in Entries, Holds(d, p), wlock[p] = c PROVE FALSE
    BY DEF TableKept
  <2>1. rlock[p][d] = 0
    BY <1>a
  <2> QED BY <2>1 DEF Holds
<1>5. \A p \in Entries : wlock[p] = d => fname'[p] = fname[p] /\ parent'[p] = parent[p]
  <2> SUFFICES ASSUME NEW p \in Entries, wlock[p] = d, Holds(c, p) PROVE FALSE
    BY DEF TableKept
  <2>1. rlock[p][c] = 0
    BY <1>a
  <2> QED BY <2>1 DEF Holds
<1>6. InStage(d)'
  BY <1>0, <1>1 DEF InStage
<1>7. LocksHeld(d)'
  BY <1>0, <1>1, <1>2, <1>3 DEF LocksHeld, InStage
<1>8. FoundStays(d)'
  <2>1. InDirectory(d)'
    BY <1>0, <1>1, <1>3, <1>4 DEF FoundStays, InDirectory
  <2>2. OnNamed(d)'
    <3>1. CASE pc[d] = "held" /\ req[d].op # "getattr"
      <4>1. pos[d] \in Entries /\ wlock[pos[d]] = d /\ Holds(d, pos[d])
        BY <1>0, <3>1 DEF LocksHeld, InStage
      <4> QED BY <1>0, <1>1, <1>4, <1>5, <4>1 DEF FoundStays, OnNamed
    <3> QED BY <1>1, <3>1 DEF OnNamed
  <2>3. KnownUndefined(d)'
    BY <1>0, <1>1, <1>3 DEF FoundStays, KnownUndefined
  <2>4. (pc[d] = "fill" => state[pos[d]] = "DELETED")'
    <3>1. CASE pc[d] = "fill"
      <4>1. pos[d] \in Entries /\ Holds(d, pos[d])
        BY <1>0, <3>1 DEF LocksHeld, InStage, Holds
      <4> QED BY <1>0, <1>1, <1>4, <3>1, <4>1 DEF FoundStays
    <3> QED BY <1>1, <3>1
  <2> QED BY <2>1, <2>2, <2>3, <2>4 DEF FoundStays
<1> QED BY <1>6, <1>7, <1>8 DEF Sound

LEMMA StepInv ==
  ASSUME IInv, TypeOK', NEW c \in Clients, NEW S, LocksBut(c, S), OthersKept(c), TableKept(c),
         Sound(c)'
  PROVE  IInv'
<1>1. \A d \in Clients : Sound(d)'
  BY OthersSound
<1>2. Exclusive'
  BY GoodLocks DEF LocksBut
<1> QED BY <1>1, <1>2 DEF IInv, Sound

LEMMA SameLocks ==
  ASSUME IInv, NEW c \in Clients, UNCHANGED locks
  PROVE  LocksBut(c, {}) /\ \A p : Holds(c, p)' <=> Holds(c, p)
BY GoodNow DEF LocksBut, Apart, Now, locks, Holds

-----------------------------------------------------------------------------
(* The steps that only move the thread *)

LEMMA InitInv == Init => IInv
<1> SUFFICES ASSUME Init PROVE IInv
  OBVIOUS
<1> USE TableFacts
<1>1. TypeOK
  <2>1. PICK v \in Tables : state = v.state /\ fname = v.fname /\ parent = v.parent
    BY TableAssumption DEF Init
  <2> QED BY <2>1 DEF Init, TypeOK, Tables, Paths, Steps, Answers
<1>2. Exclusive
  BY DEF Init, Exclusive
<1>3. ASSUME NEW c \in Clients PROVE InStage(c) /\ LocksHeld(c) /\ FoundStays(c)
  BY DEF Init, InStage, LocksHeld, FoundStays, InDirectory, OnNamed, KnownUndefined, Walking,
     Searches
<1> QED BY <1>1, <1>2, <1>3 DEF IInv

LEMMA StartInv ==
  ASSUME IInv, NEW c \in Clients, Start(c)
  PROVE  IInv'
<1> USE TableFacts
<1>1. PICK r \in Requests :
        /\ pc[c] = "idle" /\ req' = Set(req, c, r)
        /\ IF r.path = <<>>
           THEN Goto(c, "list") /\ UNCHANGED <<node, saved>>
           ELSE /\ node' = Set(node, c, Head(r.path))
                /\ saved' = Tail(r.path)
                /\ Goto(c, CASE r.op = "rmdir" -> "look"
                             [] r.op = "getattr" -> "search_node"
                             [] OTHER -> "search_dir")
        /\ UNCHANGED <<table, locks, next_dir, pb, from, pos, listed, answer, served>>
  BY DEF Start
<1>2. /\ r.op \in Operations /\ r.path \in Seq(Names)
      /\ r.path = <<>> => r.op = "readdir"
      /\ r.path # <<>> => Head(r.path) \in Names /\ Tail(r.path) \in Seq(Names)
  BY TableAssumption, RequestsAssumption DEF Paths
<1>3. /\ req'[c] = r
      /\ r.path = <<>> => pc'[c] = "list"
      /\ r.path # <<>> =>
           /\ node'[c] \in Names
           /\ pc'[c] = CASE r.op = "rmdir" -> "look"
                         [] r.op = "getattr" -> "search_node"
                         [] OTHER -> "search_dir"
  BY <1>1, <1>2 DEF IInv, TypeOK, Set, Goto
<1>4. TypeOK'
  <2>1. TypeOK
    BY DEF IInv
  <2>2. req' \in [Clients -> Requests \cup {NoRequest}]
    BY <1>1, <2>1 DEF TypeOK, Set
  <2>3. /\ pc' \in [Clients -> Steps]
        /\ node' \in [Clients -> Names \cup {NULL}]
        /\ saved' \in Paths
    <3>1. CASE r.path = <<>>
      BY <1>1, <2>1, <3>1 DEF TypeOK, Goto, Steps
    <3>2. CASE r.path # <<>>
      <4>1. node' = [node EXCEPT ![c] = Head(r.path)] /\ saved' = Tail(r.path)
        BY <1>1, <3>2 DEF Set
      <4>2. PICK step \in {"look", "search_node", "search_dir"} : pc' = [pc EXCEPT ![c] = step]
        BY <1>1, <3>2 DEF Goto
      <4> QED BY <1>2, <2>1, <3>2, <4>1, <4>2 DEF TypeOK, Steps, Searches, Paths
    <3> QED BY <3>1, <3>2
  <2> QED BY <1>1, <2>1, <2>2, <2>3 DEF TypeOK, table, locks
<1>5. LocksBut(c, {}) /\ OthersKept(c) /\ TableKept(c) /\ \A p : Holds(c, p)' <=> Holds(c, p)
  BY <1>1, SameLocks DEF IInv, TypeOK, OthersKept, TableKept, Set, Goto, table
<1>6. pb'[c] = ROOT /\ from'[c] = NoEntry /\ listed'[c] = {}
  BY <1>1 DEF IInv, InStage
<1>7. Sound(c)'
  BY <1>2, <1>3, <1>6
  DEF Sound, InStage, LocksHeld, FoundStays, InDirectory, OnNamed, KnownUndefined, Walking,
      Searches, StepsOf, Operations, Holds
<1> QED BY <1>4, <1>5, <1>7, StepInv

LEMMA ReplyInv ==
  ASSUME IInv, NEW c \in Clients, Reply(c)
  PROVE  IInv'
<1> USE TableFacts
<1>1. TypeOK'
  BY DEF Reply, IInv, TypeOK, Set, Goto, table, locks, Steps, Answers
<1>2. LocksBut(c, {}) /\ OthersKept(c) /\ TableKept(c)
  BY SameLocks DEF Reply, IInv, TypeOK, OthersKept, TableKept, Set, Goto, table
<1>3. pc'[c] = "idle" /\ pb'[c] = ROOT /\ from'[c] = NoEntry /\ listed'[c] = {}
  BY DEF Reply, IInv, TypeOK, Set, Goto
<1>4. Sound(c)'
  BY <1>3
  DEF Sound, InStage, LocksHeld, FoundStays, InDirectory, OnNamed, KnownUndefined, Walking,
      Searches, Holds
<1> QED BY <1>1, <1>2, <1>4, StepInv

LEMMA NextInv ==
  ASSUME IInv, NEW c \in Clients, Next_(c)
  PROVE  IInv'
<1> USE TableFacts
<1>1. Token \in Names \cup {NULL} /\ Rest \in Seq(Names)
  BY DEF IInv, TypeOK, Paths, Token, Rest
<1>2. /\ pc[c] = "next" /\ req[c].op \in Operations
      /\ pb[c] \in Entries \/ req[c].op = "mkdir"
  BY TableAssumption DEF Next_, IInv, InStage
<1>3. TypeOK'
  <2>1. TypeOK
    BY DEF IInv
  <2>2. saved' \in Paths /\ node' \in [Clients -> Names \cup {NULL}]
    BY <1>1, <2>1 DEF Next_, TypeOK, Set, Paths
  <2>3. pc' \in [Clients -> Steps]
    BY <1>2, <2>1 DEF Next_, TypeOK, Goto, Steps, Searches
  <2>4. answer' \in [Clients -> Answers]
    BY <1>2, <2>1 DEF Next_, TypeOK, Set, Answers
  <2>5. from' \in [Clients -> Entries \cup {NoEntry}]
    BY <1>2, <2>1 DEF Next_, TypeOK, Set
  <2>7. pos' \in [Clients -> 0 .. FileBlocks]
    <3>1. 0 \in 0 .. FileBlocks
      OBVIOUS
    <3>2. \/ pos' = pos \/ pos' = [pos EXCEPT ![c] = 0]
          \/ pb[c] \in Entries /\ pos' = [pos EXCEPT ![c] = pb[c]]
      BY <1>2 DEF Next_, Set
    <3> QED BY <2>1, <3>1, <3>2 DEF TypeOK
  <2>6. UNCHANGED <<table, locks, req, next_dir, pb, listed, served>>
    BY DEF Next_
  <2> QED BY <2>1, <2>2, <2>3, <2>4, <2>5, <2>6, <2>7 DEF TypeOK, table, locks
<1>4. LocksBut(c, {}) /\ OthersKept(c) /\ TableKept(c) /\ \A p : Holds(c, p)' <=> Holds(c, p)
  BY SameLocks DEF Next_, IInv, TypeOK, OthersKept, TableKept, Set, Goto, table
<1>5. /\ UNCHANGED <<state, fname, parent, req, pb, listed>>
      /\ node'[c] = Token
  BY DEF Next_, IInv, TypeOK, Set, table
<1>6. InStage(c) /\ LocksHeld(c) /\ FoundStays(c)
  BY DEF IInv
<1>7. InStage(c)'
  <2>1. /\ req[c] \in Requests /\ "next" \in StepsOf(req[c].op)
        /\ from[c] # NoEntry => req[c].op = "rename"
        /\ listed[c] = {}
    BY <1>2, <1>6 DEF InStage
  <2>2. \/ /\ Token # NULL /\ from'[c] = from[c]
           /\ pc'[c] = IF req[c].op = "getattr" THEN "search_node" ELSE "search_dir"
        \/ /\ Token = NULL /\ from'[c] = from[c]
           /\ \/ req[c].op \in {"mkdir", "mknod"} /\ pc'[c] = "reply"
              \/ req[c].op \in {"write", "unlink"} /\ pc'[c] = "wild"
              \/ req[c].op = "getattr" /\ pc'[c] = "held" /\ pos'[c] = pb[c]
              \/ req[c].op = "readdir" /\ pc'[c] = "list"
              \/ req[c].op = "rename" /\ from[c] # NoEntry /\ pc'[c] = "silent"
        \/ /\ Token = NULL /\ req[c].op = "rename" /\ pc'[c] = "to" /\ from'[c] = pb[c]
    BY DEF Next_, IInv, TypeOK, Set, Goto
  <2> QED BY <1>1, <1>2, <1>5, <2>1, <2>2 DEF InStage, StepsOf, Searches, Operations
<1>8. LocksHeld(c)'
  BY <1>2, <1>4, <1>5, <1>6
  DEF Next_, IInv, TypeOK, Set, Goto, InStage, LocksHeld, Walking, Searches
<1>9. FoundStays(c)'
  BY <1>2, <1>4, <1>5, <1>6
  DEF Next_, IInv, TypeOK, Set, Goto, InStage, FoundStays, InDirectory, OnNamed, KnownUndefined,
      LocksHeld, Walking, Searches
<1> QED BY <1>3, <1>4, <1>7, <1>8, <1>9, StepInv DEF Sound

LEMMA LookInv ==
  ASSUME IInv, NEW c \in Clients, Look(c)
  PROVE  IInv'
<1> USE TableFacts
<1>0. TypeOK /\ Sound(c) /\ pc[c] = "look"
  BY DEF IInv, Sound, Look
<1>1. Token \in Names \cup {NULL} /\ Rest \in Seq(Names)
  BY <1>0 DEF TypeOK, Paths, Token, Rest
<1>2. /\ next_dir' = [next_dir EXCEPT ![c] = Token] /\ saved' = Rest
      /\ pos' = [pos EXCEPT ![c] = 0] /\ pc' = [pc EXCEPT ![c] = "search_dir"]
      /\ UNCHANGED <<table, locks, req, node, pb, from, listed, answer, served>>
  BY DEF Look, Set, Goto
<1>3. TypeOK'
  BY <1>0, <1>1, <1>2 DEF TypeOK, table, locks, Steps, Searches, Paths
<1>4. LocksBut(c, {}) /\ OthersKept(c) /\ TableKept(c) /\ \A p : Holds(c, p)' <=> Holds(c, p)
  BY <1>0, <1>2, SameLocks DEF TypeOK, OthersKept, TableKept, table
<1>5. pc'[c] = "search_dir" /\ req[c].op = "rmdir"
  BY <1>0, <1>2, TableAssumption DEF TypeOK, Sound, InStage, StepsOf, Operations
<1>6. Sound(c)'
  BY <1>0, <1>2, <1>4, <1>5
  DEF Sound, InStage, LocksHeld, FoundStays, InDirectory, OnNamed, KnownUndefined, Walking,
      Searches, StepsOf, table
<1> QED BY <1>3, <1>4, <1>6, StepInv

LEMMA ToInv ==
  ASSUME IInv, NEW c \in Clients, To(c)
  PROVE  IInv'
<1> USE TableFacts
<1>0. TypeOK /\ Sound(c) /\ pc[c] = "to"
  BY DEF IInv, Sound, To
<1>1. req[c] \in Requests /\ req[c].op = "rename" /\ from[c] # NoEntry
  BY <1>0, TableAssumption DEF Sound, InStage, StepsOf, Operations
<1>2. req[c].dest \in Seq(Names) /\ req[c].dest # <<>>
  BY <1>1, TableAssumption, RequestsAssumption DEF Paths
<1>3. /\ node' = [node EXCEPT ![c] = Head(req[c].dest)] /\ saved' = Tail(req[c].dest)
      /\ pb' = [pb EXCEPT ![c] = ROOT] /\ pos' = [pos EXCEPT ![c] = 0]
      /\ pc' = [pc EXCEPT ![c] = "search_dir"]
      /\ UNCHANGED <<table, locks, req, next_dir, from, listed, answer, served>>
      /\ Head(req[c].dest) \in Names /\ Tail(req[c].dest) \in Seq(Names)
  BY <1>2 DEF To, Set, Goto
<1>4. TypeOK'
  <2>1. /\ node' \in [Clients -> Names \cup {NULL}] /\ saved' \in Paths
        /\ pb' \in [Clients -> Entries \cup {ROOT, ENOSPC}] /\ pos' \in [Clients -> 0 .. FileBlocks]
        /\ pc' \in [Clients -> Steps]
    <3>1. ROOT \in Entries \cup {ROOT, ENOSPC} /\ 0 \in 0 .. FileBlocks /\ "search_dir" \in Steps
      BY TableAssumption DEF Steps, Searches
    <3> QED BY <1>0, <1>3, <3>1 DEF TypeOK, Paths
  <2> QED BY ONLY <1>0, <1>3, <2>1 DEF TypeOK, table, locks
<1>5. LocksBut(c, {}) /\ OthersKept(c) /\ TableKept(c) /\ \A p : Holds(c, p)' <=> Holds(c, p)
  BY <1>0, <1>3, SameLocks DEF TypeOK, OthersKept, TableKept, table
<1>6. /\ pc'[c] = "search_dir" /\ pb'[c] = ROOT /\ node'[c] \in Names
      /\ UNCHANGED <<req, from, listed>>
  BY <1>0, <1>3 DEF TypeOK
<1>7. Holds(c, ROOT)' /\ from[c] # ROOT
  BY <1>0 DEF Holds, TypeOK
<1>8. Sound(c)'
  BY <1>0, <1>1, <1>5, <1>6, <1>7
  DEF Sound, InStage, LocksHeld, FoundStays, InDirectory, OnNamed, KnownUndefined, Walking,
      Searches, StepsOf
<1> QED BY <1>4, <1>5, <1>8, StepInv

-----------------------------------------------------------------------------
(* The searches *)

LEMMA KeptLocks ==
  ASSUME NEW c \in Clients, NEW S, LocksBut(c, S)
  PROVE  /\ \A p : p \notin S => (Holds(c, p)' <=> Holds(c, p))
         /\ \A p \in Entries \ S : wlock'[p] = c <=> wlock[p] = c
BY DEF LocksBut, Apart, Now, Holds

\* The loops pass an entry and keep what they have.
LEMMA StepOn ==
  ASSUME IInv, NEW c \in Clients, pc[c] \in Searches \cup {"claim", "list"},
         pos[c] \in Entries, pos' = [pos EXCEPT ![c] = pos[c] + 1],
         UNCHANGED <<table, saved, pc, req, walk, listed, answer, served>>,
         NEW S, LocksBut(c, S),
         \A p : p \in listed[c] \cup {pb[c], from[c]} => (Holds(c, p)' <=> Holds(c, p))
  PROVE  IInv'
<1> USE TableFacts
<1>0. TypeOK /\ Sound(c)
  BY DEF IInv, Sound
<1>1. wlock' \in [Entries -> Clients \cup {NoClient}] /\ rlock' \in [Entries -> [Clients -> Nat]]
  BY GoodLocks DEF LocksBut
<1>2. TypeOK'
  BY <1>0, <1>1 DEF TypeOK, table, walk
<1>3. OthersKept(c) /\ TableKept(c)
  BY <1>0 DEF TypeOK, OthersKept, TableKept, table, walk
<1>4. /\ pc[c] \notin {"fill", "held", "onto"}
      /\ UNCHANGED <<state, fname, parent, pc, req, node, pb, from, listed>>
  BY DEF Searches, table, walk
<1>5. pos'[c] = pos[c] + 1
  BY <1>0 DEF TypeOK
<1>6. InStage(c)'
  BY <1>0, <1>4 DEF Sound, InStage
<1>7. LocksHeld(c)'
  <2>1. ASSUME pc[c] = "list", NEW p \in listed[c]
        PROVE  p < pos'[c] /\ p # pb[c] /\ Holds(c, p)'
    <3>1. p < pos[c] /\ p # pb[c] /\ Holds(c, p)
      BY <1>0, <2>1 DEF Sound, LocksHeld
    <3>2. p \in Int /\ pos[c] \in Int
      BY <1>0, <2>1 DEF TypeOK
    <3>3. Holds(c, p)'
      BY <3>1
    <3> QED BY <1>5, <3>1, <3>2, <3>3
  <2>2. LocksHeld(c)
    BY <1>0 DEF Sound
  <2> QED BY <1>4, <2>1, <2>2 DEF LocksHeld
<1>8. FoundStays(c)'
  BY <1>0, <1>4 DEF Sound, FoundStays, InDirectory, OnNamed, KnownUndefined
<1> QED BY <1>2, <1>3, <1>6, <1>7, <1>8, StepInv DEF Sound

LEMMA SkipInv ==
  ASSUME IInv, NEW c \in Clients, Skip(c)
  PROVE  IInv'
<1> USE TableFacts
<1>1. pos[c] \in Entries
  <2>1. /\ pos[c] \in 0 .. FileBlocks /\ pos[c] \in {pb[c], from[c]}
        /\ pb[c] \in Entries \cup {ROOT, ENOSPC} /\ from[c] \in Entries \cup {NoEntry}
    BY DEF Skip, IInv, TypeOK
  <2> QED BY <2>1 DEF ROOT, ENOSPC, NoEntry
<1>2. UNCHANGED locks
  BY DEF Skip
<1>3. LocksBut(c, {}) /\ \A p : Holds(c, p)' <=> Holds(c, p)
  BY <1>2, SameLocks
<1>4. /\ pc[c] \in Searches \cup {"claim", "list"}
      /\ pos' = [pos EXCEPT ![c] = pos[c] + 1]
      /\ UNCHANGED <<table, saved, pc, req, walk, listed, answer, served>>
  BY DEF Skip, Set
<1> QED BY <1>1, <1>3, <1>4, StepOn

\* The lock of the visited entry is granted, and is not one the thread has to
\* keep.
LEMMA VisitGood ==
  ASSUME IInv, NEW c \in Clients, Visits(c)
  PROVE  /\ pos[c] \in Entries /\ pos[c] # pb[c] /\ pos[c] # from[c]
         /\ pc[c] = "list" => pos[c] \notin listed[c]
         /\ Good(Taken(c)) /\ Apart(c, {pos[c]}, Now, Taken(c)) /\ Has(Taken(c), c, pos[c])
         /\ LockType(c) = "write" => Taken(c).w[pos[c]] = c
<1> USE TableFacts
<1>1. pos[c] \in Entries /\ pos[c] # pb[c] /\ pos[c] # from[c]
  BY DEF IInv, TypeOK, Visits
<1>2. pc[c] = "list" => pos[c] \notin listed[c]
  <2> SUFFICES ASSUME pc[c] = "list", pos[c] \in listed[c] PROVE FALSE
    OBVIOUS
  <2>1. pos[c] < pos[c]
    BY DEF IInv, LocksHeld
  <2>2. pos[c] \in Int
    BY <1>1
  <2> QED BY ONLY <2>1, <2>2
<1>3. Good(Now)
  BY GoodNow
<1>4. \/ Now.w[pos[c]] = c
      \/ Now.w[pos[c]] = NoClient
         /\ (LockType(c) = "write" => \A d \in Clients : Now.r[pos[c]][d] = 0)
  BY DEF Visits, CanLock, Now
<1>5. ASSUME NEW M, M = Locked(Now, c, pos[c], LockType(c))
      PROVE  /\ Good(M) /\ Apart(c, {pos[c]}, Now, M) /\ Has(M, c, pos[c])
             /\ LockType(c) = "write" => M.w[pos[c]] = c
  BY ONLY <1>1, <1>3, <1>4, <1>5, c \in Clients, LockedGood
<1> QED BY <1>1, <1>2, <1>5 DEF Taken

LEMMA PassGood ==
  ASSUME IInv, NEW c \in Clients, Visits(c), Become(Unlocked(Taken(c), c, pos[c]))
  PROVE  LocksBut(c, {pos[c]})
<1> DEFINE U == Unlocked(Taken(c), c, pos[c])
<1>1. /\ pos[c] \in Entries
      /\ Good(Taken(c)) /\ Apart(c, {pos[c]}, Now, Taken(c)) /\ Has(Taken(c), c, pos[c])
  BY VisitGood
<1>2. Good(U) /\ Apart(c, {pos[c]}, Taken(c), U)
  BY <1>1, UnlockedGood
<1>3. Now' = U
  BY <1>2, Becoming
<1> QED BY <1>1, <1>2, <1>3 DEF LocksBut, Apart

LEMMA PassByInv ==
  ASSUME IInv, NEW c \in Clients, PassBy(c)
  PROVE  IInv'
<1>1. /\ pos[c] \in Entries /\ pos[c] # pb[c] /\ pos[c] # from[c]
      /\ pc[c] = "list" => pos[c] \notin listed[c]
  BY VisitGood DEF PassBy
<1>2. LocksBut(c, {pos[c]})
  BY PassGood DEF PassBy
<1>3. pc[c] \in Searches \cup {"claim", "list"} /\ pos[c] \notin listed[c] \cup {pb[c], from[c]}
  BY <1>1 DEF PassBy, IInv, InStage, Searches
<1>4. \A p : p \in listed[c] \cup {pb[c], from[c]} => (Holds(c, p)' <=> Holds(c, p))
  BY <1>2, <1>3, KeptLocks
<1>5. /\ pos' = [pos EXCEPT ![c] = pos[c] + 1]
      /\ UNCHANGED <<table, saved, pc, req, walk, listed, answer, served>>
  BY DEF PassBy, Set
<1> QED BY <1>1, <1>2, <1>3, <1>4, <1>5, StepOn

\* Where a thread ends, it relies on the locks it still has of rename's file.
LEMMA AtReply ==
  ASSUME IInv, NEW c \in Clients, pc[c] \notin {"idle", "to", "wild"}, pc'[c] = "reply",
         req'[c] = req[c], pb'[c] = pb[c], from'[c] = from[c]
  PROVE  Sound(c)'
<1>1. InStage(c) /\ LocksHeld(c)
  BY DEF IInv
<1>2. InStage(c)'
  BY <1>1 DEF InStage, StepsOf, Searches
<1>3. LocksHeld(c)'
  BY <1>1 DEF LocksHeld, Walking, Searches
<1>4. FoundStays(c)'
  BY DEF FoundStays, InDirectory, OnNamed, KnownUndefined, Walking, Searches
<1> QED BY <1>2, <1>3, <1>4 DEF Sound

LEMMA AtWild ==
  ASSUME IInv, NEW c \in Clients, pc[c] # "idle", pc'[c] = "wild", req[c].op = "mkdir",
         req'[c] = req[c], from'[c] = from[c]
  PROVE  Sound(c)'
<1>1. InStage(c) /\ from[c] = NoEntry
  BY DEF IInv, InStage
<1>2. InStage(c)'
  BY <1>1 DEF InStage, StepsOf, Searches
<1>3. LocksHeld(c)'
  BY <1>1 DEF LocksHeld, Walking, Searches
<1>4. FoundStays(c)'
  BY DEF FoundStays, InDirectory, OnNamed, KnownUndefined, Walking, Searches
<1> QED BY <1>2, <1>3, <1>4 DEF Sound

\* A thread that takes the entry it visits and leaves its directory has the one
\* lock instead of the other.
LEMMA TakeAndLeave ==
  ASSUME IInv, NEW c \in Clients, Visits(c), NEW step, Leave(c, Taken(c), step)
  PROVE  \/ /\ Holds(c, pb[c]) /\ pc' = [pc EXCEPT ![c] = step]
            /\ LocksBut(c, {pos[c], pb[c]}) /\ (pos'[c] = pos[c] => Holds(c, pos[c])')
            /\ LockType(c) = "write" => wlock'[pos[c]] = c
         \/ /\ ~Holds(c, pb[c]) /\ pc' = [pc EXCEPT ![c] = "wild"]
            /\ LocksBut(c, {})
<1>1. /\ pos[c] \in Entries /\ pos[c] # pb[c]
      /\ Good(Taken(c)) /\ Apart(c, {pos[c]}, Now, Taken(c)) /\ Has(Taken(c), c, pos[c])
      /\ LockType(c) = "write" => Taken(c).w[pos[c]] = c
  BY VisitGood
<1>2. \/ /\ Holds(c, pb[c]) /\ pc' = [pc EXCEPT ![c] = step]
         /\ LocksBut(c, {pos[c]} \cup {pb[c]}) /\ Apart(c, {pb[c]}, Taken(c), Now')
      \/ /\ ~Holds(c, pb[c]) /\ pc' = [pc EXCEPT ![c] = "wild"]
         /\ LocksBut(c, {})
  BY <1>1, Leaving
<1>3. CASE ~Holds(c, pb[c])
  BY <1>2, <1>3
<1>4. CASE Holds(c, pb[c])
  <2>1. LocksBut(c, {pos[c]} \cup {pb[c]}) /\ Apart(c, {pb[c]}, Taken(c), Now')
    BY <1>2, <1>4
  <2>2. Has(Now', c, pos[c]) /\ (LockType(c) = "write" => wlock'[pos[c]] = c)
    BY <1>1, <2>1 DEF Apart, Has, Now
  <2>3. pos'[c] = pos[c] => Holds(c, pos[c])'
    BY <1>1, <2>2 DEF Has, Now, Holds
  <2>4. {pos[c]} \cup {pb[c]} = {pos[c], pb[c]}
    OBVIOUS
  <2> QED BY <1>2, <1>4, <2>1, <2>2, <2>3, <2>4
<1> QED BY <1>3, <1>4

LEMMA EnterInv ==
  ASSUME IInv, NEW c \in Clients, Enter(c)
  PROVE  IInv'
<1> DEFINE op == req[c].op
           step == IF op # "rmdir" THEN "next" ELSE IF next_dir[c] = NULL THEN "held" ELSE "look"
<1> USE TableFacts
<1>0. TypeOK /\ Sound(c) /\ pc[c] = "search_dir" /\ state[pos[c]] = "DIRECTORY"
  BY DEF IInv, Sound, Enter
<1>1. pos[c] \in Entries /\ pos[c] # pb[c] /\ pos[c] # from[c]
  BY VisitGood DEF Enter
<1>2. /\ Leave(c, Taken(c), step)
      /\ pb' = [pb EXCEPT ![c] = pos[c]]
      /\ node' = IF op = "rmdir" THEN [node EXCEPT ![c] = next_dir[c]] ELSE node
      /\ UNCHANGED <<table, saved, req, next_dir, from, pos, listed, answer, served>>
  BY DEF Enter, Set
<1>3. /\ op \in {"mkdir", "mknod", "readdir", "write", "unlink", "rmdir", "rename"}
      /\ req[c] \in Requests /\ listed[c] = {} /\ (from[c] # NoEntry => op = "rename")
      /\ op # "mkdir" => Holds(c, pb[c])
      /\ from[c] # NoEntry => Holds(c, from[c]) /\ pb[c] # from[c]
  <2>1. op \in Operations /\ req[c] \in Requests /\ "search_dir" \in StepsOf(op)
    BY <1>0, TableAssumption DEF Sound, InStage
  <2> QED BY <1>0, <2>1 DEF Sound, InStage, LocksHeld, StepsOf, Operations, Walking, Searches
<1>4. \/ /\ Holds(c, pb[c]) /\ pc' = [pc EXCEPT ![c] = step]
         /\ LocksBut(c, {pos[c], pb[c]}) /\ (pos'[c] = pos[c] => Holds(c, pos[c])')
         /\ LockType(c) = "write" => wlock'[pos[c]] = c
      \/ /\ ~Holds(c, pb[c]) /\ pc' = [pc EXCEPT ![c] = "wild"]
         /\ LocksBut(c, {})
  BY <1>2, TakeAndLeave DEF Enter
<1>5. PICK S : LocksBut(c, S)
  BY <1>4
<1>6. TypeOK'
  <2>1. wlock' \in [Entries -> Clients \cup {NoClient}] /\ rlock' \in [Entries -> [Clients -> Nat]]
    BY <1>5, GoodLocks DEF LocksBut
  <2>2. pc' \in [Clients -> Steps]
    BY <1>0, <1>4 DEF TypeOK, Steps
  <2>3. pb' \in [Clients -> Entries \cup {ROOT, ENOSPC}] /\ node' \in [Clients -> Names \cup {NULL}]
    BY <1>0, <1>1, <1>2 DEF TypeOK
  <2> QED BY <1>0, <1>2, <2>1, <2>2, <2>3 DEF TypeOK, table
<1>7. OthersKept(c) /\ TableKept(c)
  BY <1>0, <1>2, <1>4 DEF TypeOK, OthersKept, TableKept, table
<1>8. CASE ~Holds(c, pb[c])
  <2>1. Sound(c)'
    BY <1>0, <1>2, <1>3, <1>4, <1>8, AtWild DEF TypeOK
  <2> QED BY <1>5, <1>6, <1>7, <2>1, StepInv
<1>9. CASE Holds(c, pb[c])
  <2>1. /\ pc'[c] = step /\ pb'[c] = pos[c]
        /\ node'[c] = (IF op = "rmdir" THEN next_dir[c] ELSE node[c])
        /\ UNCHANGED <<state, fname, parent, req, next_dir, from, pos, listed>>
    BY <1>0, <1>2, <1>4, <1>9 DEF TypeOK, table
  <2>2. Holds(c, pos[c])' /\ (from[c] # NoEntry => Holds(c, from[c])')
    <3>1. from[c] \notin {pos[c], pb[c]} \/ from[c] = NoEntry
      BY <1>1, <1>3
    <3>2. from'[c] = from[c] /\ pos'[c] = pos[c]
      BY <2>1
    <3> QED BY <1>3, <1>4, <1>9, <3>1, <3>2, KeptLocks
  <2>3. step = "held" => wlock'[pos[c]] = c
    BY <1>0, <1>4, <1>9 DEF LockType
  <2>4. InStage(c)'
    BY <1>0, <1>1, <1>3, <2>1 DEF TypeOK, Sound, InStage, StepsOf, Searches
  <2>5. LocksHeld(c)'
    BY <1>0, <1>1, <1>3, <2>1, <2>2, <2>3 DEF LocksHeld, Walking, Searches
  <2>6. FoundStays(c)'
    BY <1>0, <2>1 DEF FoundStays, InDirectory, OnNamed, KnownUndefined
  <2> QED BY <1>5, <1>6, <1>7, <2>4, <2>5, <2>6, StepInv DEF Sound
<1> QED BY <1>8, <1>9

LEMMA NotADirectoryInv ==
  ASSUME IInv, NEW c \in Clients, NotADirectory(c)
  PROVE  IInv'
<1> USE TableFacts
<1>0. TypeOK /\ Sound(c) /\ pc[c] = "search_dir"
  BY DEF IInv, Sound, NotADirectory
<1>1. PICK S : LocksBut(c, S) /\ pb[c] \notin S /\ (from[c] # NoEntry => from[c] \notin S)
  <2>1. CASE Visits(c) /\ Become(Unlocked(Taken(c), c, pos[c]))
    <3>1. pos[c] # pb[c] /\ pos[c] # from[c] /\ LocksBut(c, {pos[c]})
      BY <2>1, VisitGood, PassGood
    <3> QED BY <3>1
  <2>2. CASE UNCHANGED locks
    BY <2>2, SameLocks
  <2> QED BY <2>1, <2>2 DEF NotADirectory
<1>2. pc' = [pc EXCEPT ![c] = "missed"]
      /\ UNCHANGED <<table, saved, req, walk, pos, listed, answer, served>>
  BY DEF NotADirectory, Goto
<1>3. TypeOK'
  <2>1. wlock' \in [Entries -> Clients \cup {NoClient}] /\ rlock' \in [Entries -> [Clients -> Nat]]
    BY <1>1, GoodLocks DEF LocksBut
  <2> QED BY <1>0, <1>2, <2>1 DEF TypeOK, table, walk, Steps
<1>4. OthersKept(c) /\ TableKept(c)
  BY <1>0, <1>2 DEF TypeOK, OthersKept, TableKept, table, walk
<1>5. /\ pc'[c] = "missed" /\ UNCHANGED <<state, fname, parent, req, node, pb, from, pos, listed>>
  BY <1>0, <1>2 DEF TypeOK, table, walk
<1>6. InStage(c)'
  <2>1. req[c] \in Requests /\ req[c].op \in Operations /\ "search_dir" \in StepsOf(req[c].op)
    BY <1>0, TableAssumption DEF Sound, InStage
  <2>2. "missed" \in StepsOf(req[c].op)
    BY <2>1 DEF StepsOf, Operations
  <2> QED BY <1>0, <1>5, <2>1, <2>2 DEF Sound, InStage, Searches
<1>7. /\ Holds(c, pb[c])' <=> Holds(c, pb[c])
      /\ from[c] # NoEntry => (Holds(c, from[c])' <=> Holds(c, from[c]))
  BY <1>1, <1>5, KeptLocks
<1>8. LocksHeld(c)'
  BY <1>0, <1>5, <1>7 DEF Sound, LocksHeld, Walking, Searches
<1>9. FoundStays(c)'
  BY <1>0, <1>5, <1>7 DEF Sound, FoundStays, InDirectory, OnNamed, KnownUndefined, Walking, Searches
<1> QED BY <1>1, <1>3, <1>4, <1>6, <1>8, <1>9, StepInv DEF Sound

LEMMA FoundNodeInv ==
  ASSUME IInv, NEW c \in Clients, FoundNode(c)
  PROVE  IInv'
<1> DEFINE op == req[c].op
           step == CASE op = "getattr" -> "next"
                     [] op = "rename" /\ from[c] = NoEntry -> "to"
                     [] op = "rename" /\ from[c] # NoEntry -> "onto"
                     [] OTHER -> "held"
<1> USE TableFacts
<1>0. TypeOK /\ Sound(c) /\ pc[c] = "search_node" /\ Matches(c, pos[c])
  BY DEF IInv, Sound, FoundNode
<1>1. pos[c] \in Entries /\ pos[c] # pb[c] /\ pos[c] # from[c]
  BY VisitGood DEF FoundNode
<1>2. /\ Leave(c, Taken(c), step)
      /\ pb' = IF op = "getattr" THEN [pb EXCEPT ![c] = pos[c]] ELSE pb
      /\ from' = IF op = "rename" /\ from[c] = NoEntry THEN [from EXCEPT ![c] = pos[c]] ELSE from
      /\ UNCHANGED <<table, saved, req, node, next_dir, pos, listed, answer, served>>
  BY DEF FoundNode, Set
<1>3. /\ op \in {"getattr", "write", "unlink", "rename"}
      /\ req[c] \in Requests /\ listed[c] = {} /\ (from[c] # NoEntry => op = "rename")
      /\ Holds(c, pb[c])
      /\ from[c] # NoEntry => Holds(c, from[c]) /\ pb[c] # from[c]
  <2>1. op \in Operations /\ req[c] \in Requests /\ "search_node" \in StepsOf(op)
    BY <1>0, TableAssumption DEF Sound, InStage
  <2>2. op \in {"getattr", "write", "unlink", "rename"}
    BY <2>1 DEF StepsOf, Operations
  <2> QED BY <1>0, <2>1, <2>2 DEF Sound, InStage, LocksHeld, Walking, Searches
<1>4. /\ pc' = [pc EXCEPT ![c] = step]
      /\ LocksBut(c, {pos[c], pb[c]}) /\ (pos'[c] = pos[c] => Holds(c, pos[c])')
      /\ LockType(c) = "write" => wlock'[pos[c]] = c
  BY <1>2, <1>3, TakeAndLeave DEF FoundNode
<1>5. step \in {"next", "to", "onto", "held"}
  BY <1>3
<1>6. TypeOK'
  <2>1. wlock' \in [Entries -> Clients \cup {NoClient}] /\ rlock' \in [Entries -> [Clients -> Nat]]
    BY <1>4, GoodLocks DEF LocksBut
  <2>2. pc' \in [Clients -> Steps]
    BY <1>0, <1>4, <1>5 DEF TypeOK, Steps
  <2>3. /\ pb' \in [Clients -> Entries \cup {ROOT, ENOSPC}]
        /\ from' \in [Clients -> Entries \cup {NoEntry}]
    BY <1>0, <1>1, <1>2 DEF TypeOK
  <2> QED BY <1>0, <1>2, <2>1, <2>2, <2>3 DEF TypeOK, table
<1>7. OthersKept(c) /\ TableKept(c)
  BY <1>0, <1>2, <1>4 DEF TypeOK, OthersKept, TableKept, table
<1>8. /\ pc'[c] = step
      /\ pb'[c] = (IF op = "getattr" THEN pos[c] ELSE pb[c])
      /\ from'[c] = (IF op = "rename" /\ from[c] = NoEntry THEN pos[c] ELSE from[c])
      /\ UNCHANGED <<state, fname, parent, req, node, pos, listed>>
  BY <1>0, <1>2, <1>4 DEF TypeOK, table
<1>9. Holds(c, pos[c])' /\ (from'[c] # NoEntry => Holds(c, from[c])')
  <2>1. Holds(c, pos[c])' /\ pos'[c] = pos[c]
    BY <1>4, <1>8
  <2>2. from[c] # NoEntry => from[c] \notin {pos[c], pb[c]} /\ from'[c] = from[c]
    BY <1>1, <1>3, <1>8
  <2>3. from[c] = NoEntry /\ from'[c] # NoEntry => from'[c] = pos'[c]
    BY <1>8
  <2> QED BY <1>3, <1>4, <2>1, <2>2, <2>3, KeptLocks
<1>10. op \in {"write", "unlink"} => wlock'[pos[c]] = c
  BY <1>0, <1>4 DEF LockType
<1>11. InStage(c)'
  BY <1>0, <1>1, <1>3, <1>8 DEF Sound, InStage, StepsOf, Searches
<1>12. LocksHeld(c)'
  BY <1>1, <1>3, <1>8, <1>9, <1>10 DEF LocksHeld, Walking, Searches
<1>13. FoundStays(c)'
  <2>1. state[pos[c]] \in States \ {"DELETED"} /\ fname[pos[c]] = node[c] /\ parent[pos[c]] = pb[c]
    BY <1>0, <1>1 DEF TypeOK, Matches
  <2>2. InDirectory(c)'
    BY <1>3, <1>8, <2>1 DEF InDirectory, States, Walking, Searches
  <2>3. OnNamed(c)'
    BY <1>3, <1>8, <2>1 DEF OnNamed
  <2>4. KnownUndefined(c)' /\ pc'[c] # "fill"
    BY <1>5, <1>8 DEF KnownUndefined
  <2> QED BY <2>2, <2>3, <2>4 DEF FoundStays
<1> QED BY <1>4, <1>6, <1>7, <1>11, <1>12, <1>13, StepInv DEF Sound

LEMMA NodeNotFoundInv ==
  ASSUME IInv, NEW c \in Clients, NodeNotFound(c)
  PROVE  IInv'
<1> DEFINE toName == req[c].op = "rename" /\ from[c] # NoEntry
           tooLong == node[c] \in LongNames
           L == IF toName /\ tooLong THEN Unlocked(Now, c, from[c]) ELSE Now
           step == IF toName /\ ~tooLong THEN "move" ELSE "reply"
           S == IF toName /\ tooLong THEN {from[c]} ELSE {}
<1> USE TableFacts
<1>0. TypeOK /\ Sound(c) /\ pc[c] = "search_node"
  BY DEF IInv, Sound, NodeNotFound
<1>1. /\ Leave(c, L, step)
      /\ answer' = IF ~toName THEN [answer EXCEPT ![c] = "ENOENT"]
                   ELSE IF tooLong THEN [answer EXCEPT ![c] = "ENAMETOOLONG"] ELSE answer
      /\ UNCHANGED <<table, saved, req, walk, pos, listed, served>>
  BY DEF NodeNotFound, Set
<1>2. /\ req[c] \in Requests /\ listed[c] = {} /\ (from[c] # NoEntry => req[c].op = "rename")
      /\ Holds(c, pb[c]) /\ node[c] \in Names
      /\ from[c] # NoEntry => Holds(c, from[c]) /\ pb[c] # from[c] /\ from[c] \in Entries
  <2>1. req[c].op \in Operations /\ req[c] \in Requests /\ "search_node" \in StepsOf(req[c].op)
    BY <1>0, TableAssumption DEF Sound, InStage
  <2>2. req[c].op # "mkdir"
    BY <2>1 DEF StepsOf
  <2> QED BY <1>0, <2>1, <2>2 DEF Sound, InStage, LocksHeld, Walking, Searches, TypeOK
<1>3. Good(L) /\ Apart(c, S, Now, L) /\ S \in SUBSET Entries /\ pb[c] \notin S
  <2>1. CASE toName /\ tooLong
    <3>1. Has(Now, c, from[c]) /\ from[c] \in Entries /\ pb[c] # from[c]
      BY <1>2, <2>1 DEF Has, Holds, Now
    <3>2. Good(Unlocked(Now, c, from[c])) /\ Apart(c, {from[c]}, Now, Unlocked(Now, c, from[c]))
      BY <3>1, GoodNow, UnlockedGood
    <3> QED BY <2>1, <3>1, <3>2
  <2>2. CASE ~(toName /\ tooLong)
    BY <2>2, GoodNow DEF Apart
  <2> QED BY <2>1, <2>2
<1>4. pc' = [pc EXCEPT ![c] = step] /\ LocksBut(c, S \cup {pb[c]})
  <2> HIDE DEF L, S, step
  <2> QED BY <1>1, <1>2, <1>3, Leaving
<1>5. TypeOK'
  <2>1. wlock' \in [Entries -> Clients \cup {NoClient}] /\ rlock' \in [Entries -> [Clients -> Nat]]
    BY <1>4, GoodLocks DEF LocksBut
  <2>2. pc' \in [Clients -> Steps] /\ answer' \in [Clients -> Answers]
    BY <1>0, <1>1, <1>4 DEF TypeOK, Steps, Answers
  <2> QED BY <1>0, <1>1, <2>1, <2>2 DEF TypeOK, table, walk
<1>6. OthersKept(c) /\ TableKept(c)
  BY <1>0, <1>1, <1>4 DEF TypeOK, OthersKept, TableKept, table, walk
<1>7. pc'[c] = step /\ UNCHANGED <<req, node, pb, from, listed>>
  BY <1>0, <1>1, <1>4 DEF TypeOK, walk
<1>8. Sound(c)'
  <2>1. CASE step = "reply"
    BY <1>0, <1>7, <2>1, AtReply
  <2>2. CASE step = "move"
    <3>1. toName /\ ~tooLong
      BY <2>2
    <3>2. from[c] \notin S \cup {pb[c]}
      BY <1>2, <3>1
    <3>3. Holds(c, from[c])'
      BY <1>2, <1>4, <1>7, <3>1, <3>2, KeptLocks
    <3>4. InStage(c)' /\ LocksHeld(c)'
      BY <1>2, <1>7, <2>2, <3>1, <3>3 DEF InStage, LocksHeld, StepsOf, Walking, Searches
    <3> QED BY <1>7, <2>2, <3>4
        DEF Sound, FoundStays, InDirectory, OnNamed, KnownUndefined, Walking, Searches
  <2> QED BY <2>1, <2>2
<1> QED BY <1>4, <1>5, <1>6, <1>8, StepInv

-----------------------------------------------------------------------------
(* A component that is no directory *)

LEMMA LeaveOnly ==
  ASSUME IInv, NEW c \in Clients, NEW step, Leave(c, Now, step)
  PROVE  \/ /\ Holds(c, pb[c]) /\ pc' = [pc EXCEPT ![c] = step] /\ LocksBut(c, {pb[c]})
         \/ /\ ~Holds(c, pb[c]) /\ pc' = [pc EXCEPT ![c] = "wild"] /\ LocksBut(c, {})
<1>1. Good(Now) /\ Apart(c, {}, Now, Now) /\ {} \cup {pb[c]} = {pb[c]}
  BY GoodNow DEF Apart
<1> QED BY <1>1, Leaving

\* The thread refuses the request and gives up the directory.
LEMMA GiveUp ==
  ASSUME IInv, NEW c \in Clients, pc[c] \in {"missed", "claim"}, Leave(c, Now, "reply"),
         saved' \in Paths, answer' \in [Clients -> Answers],
         UNCHANGED <<table, req, walk, pos, listed, served>>
  PROVE  IInv'
<1>0. TypeOK /\ Sound(c)
  BY DEF IInv, Sound
<1>1. \/ /\ Holds(c, pb[c]) /\ pc' = [pc EXCEPT ![c] = "reply"] /\ LocksBut(c, {pb[c]})
      \/ /\ ~Holds(c, pb[c]) /\ pc' = [pc EXCEPT ![c] = "wild"] /\ LocksBut(c, {})
  BY LeaveOnly
<1>2. PICK S : LocksBut(c, S)
  BY <1>1
<1>3. TypeOK'
  <2>1. wlock' \in [Entries -> Clients \cup {NoClient}] /\ rlock' \in [Entries -> [Clients -> Nat]]
    BY <1>2, GoodLocks DEF LocksBut
  <2>2. pc' \in [Clients -> Steps]
    BY <1>0, <1>1 DEF TypeOK, Steps
  <2> QED BY <1>0, <2>1, <2>2 DEF TypeOK, table, walk
<1>4. OthersKept(c) /\ TableKept(c)
  BY <1>0, <1>1 DEF TypeOK, OthersKept, TableKept, table, walk
<1>5. /\ req'[c] = req[c] /\ pb'[c] = pb[c] /\ from'[c] = from[c]
      /\ ~Holds(c, pb[c]) => req[c].op = "mkdir"
  BY <1>0 DEF walk, Sound, LocksHeld, Walking
<1>6. Sound(c)'
  <2>1. CASE Holds(c, pb[c])
    <3>1. pc'[c] = "reply"
      BY <1>0, <1>1, <2>1 DEF TypeOK
    <3> QED BY <1>5, <3>1, AtReply
  <2>2. CASE ~Holds(c, pb[c])
    <3>1. pc'[c] = "wild"
      BY <1>0, <1>1, <2>2 DEF TypeOK
    <3> QED BY <1>5, <2>2, <3>1, AtWild
  <2> QED BY <2>1, <2>2
<1> QED BY <1>2, <1>3, <1>4, <1>6, StepInv

\* It goes on to look for the name, or for a free entry, in the same directory.
LEMMA SearchOn ==
  ASSUME IInv, NEW c \in Clients, pc[c] = "missed",
         NEW step \in {"claim", "search_node"}, step \in StepsOf(req[c].op),
         pc' = [pc EXCEPT ![c] = step], pos' = [pos EXCEPT ![c] = 0], saved' \in Paths,
         UNCHANGED <<table, locks, req, walk, listed, answer, served>>
  PROVE  IInv'
<1> USE TableFacts
<1>0. TypeOK /\ Sound(c)
  BY DEF IInv, Sound
<1>1. LocksBut(c, {}) /\ \A p : Holds(c, p)' <=> Holds(c, p)
  BY SameLocks
<1>2. TypeOK'
  BY <1>0 DEF TypeOK, table, locks, walk, Steps, Searches
<1>3. OthersKept(c) /\ TableKept(c)
  BY <1>0 DEF TypeOK, OthersKept, TableKept, table, walk
<1>4. pc'[c] = step /\ UNCHANGED <<state, fname, parent, req, node, pb, from, listed>>
  BY <1>0 DEF TypeOK, table, walk
<1>5. InStage(c)'
  BY <1>0, <1>4 DEF Sound, InStage, Searches
<1>6. LocksHeld(c)'
  BY <1>0, <1>1, <1>4 DEF Sound, LocksHeld, Walking, Searches
<1>7. FoundStays(c)'
  BY <1>0, <1>1, <1>4
  DEF Sound, FoundStays, InDirectory, OnNamed, KnownUndefined, Walking, Searches
<1> QED BY <1>1, <1>2, <1>3, <1>5, <1>6, <1>7, StepInv DEF Sound

LEMMA RefuseInv ==
  ASSUME IInv, NEW c \in Clients, Refuse(c)
  PROVE  IInv'
BY GiveUp DEF Refuse, IInv, TypeOK, Set, Answers

LEMMA MakeDirInv ==
  ASSUME IInv, NEW c \in Clients, MakeDir(c)
  PROVE  IInv'
<1>1. TypeOK /\ pc[c] = "missed" /\ req[c].op = "mkdir" /\ saved' \in Paths
      /\ UNCHANGED <<table, req, walk, listed, served>>
  BY DEF IInv, TypeOK, MakeDir
<1>2. CASE /\ Leave(c, Now, "reply") /\ answer' = Set(answer, c, "ENAMETOOLONG")
           /\ UNCHANGED pos
  BY <1>1, <1>2, GiveUp DEF TypeOK, Set, Answers
<1>3. CASE Goto(c, "claim") /\ pos' = Set(pos, c, 0) /\ UNCHANGED <<locks, answer>>
  <2>1. "claim" \in StepsOf(req[c].op)
    BY <1>1 DEF StepsOf
  <2> QED BY <1>1, <1>3, <2>1, SearchOn DEF Set, Goto
<1> QED BY <1>2, <1>3 DEF MakeDir

LEMMA LastNameInv ==
  ASSUME IInv, NEW c \in Clients, LastName(c)
  PROVE  IInv'
<1> DEFINE op == req[c].op
           step == IF op = "mknod" THEN "claim" ELSE "search_node"
<1>1. /\ TypeOK /\ pc[c] = "missed" /\ op \in {"mknod", "write", "unlink", "rename"}
      /\ UNCHANGED <<table, req, walk, listed, served>>
  BY DEF IInv, LastName
<1>2. saved' \in Paths
  BY <1>1 DEF TypeOK, LastName, Rest, Paths
<1>3. CASE Leave(c, Now, "reply") /\ UNCHANGED pos
           /\ \E a \in Answers : answer' = Set(answer, c, a)
  <2>1. answer' \in [Clients -> Answers]
    BY <1>1, <1>3 DEF TypeOK, Set
  <2> QED BY <1>1, <1>2, <1>3, <2>1, GiveUp
<1>4. CASE Goto(c, step) /\ pos' = Set(pos, c, 0) /\ UNCHANGED <<locks, answer>>
  <2>1. step \in StepsOf(op) /\ step \in {"claim", "search_node"}
    BY <1>1 DEF StepsOf
  <2> QED BY <1>1, <1>2, <1>4, <2>1, SearchOn DEF Set, Goto
<1> QED BY <1>3, <1>4 DEF LastName, Answers

-----------------------------------------------------------------------------
(* The creation of an entry *)

LEMMA TakeGood ==
  ASSUME IInv, NEW c \in Clients, Visits(c), Become(Taken(c))
  PROVE  /\ LocksBut(c, {pos[c]})
         /\ \A p : p = pos[c] => Holds(c, p)' /\ (LockType(c) = "write" => wlock'[p] = c)
<1>1. /\ pos[c] \in Entries
      /\ Good(Taken(c)) /\ Apart(c, {pos[c]}, Now, Taken(c)) /\ Has(Taken(c), c, pos[c])
      /\ LockType(c) = "write" => Taken(c).w[pos[c]] = c
  BY VisitGood
<1>2. Now' = Taken(c)
  BY <1>1, Becoming
<1>3. Has(Now', c, pos[c]) /\ (LockType(c) = "write" => wlock'[pos[c]] = c)
  BY <1>1, <1>2 DEF Now
<1>4. \A p : p = pos[c] => Holds(c, p)'
  BY <1>1, <1>3 DEF Has, Now, Holds
<1> QED BY <1>1, <1>2, <1>3, <1>4 DEF LocksBut

LEMMA ClaimEntryInv ==
  ASSUME IInv, NEW c \in Clients, ClaimEntry(c)
  PROVE  IInv'
<1> USE TableFacts
<1>0. TypeOK /\ Sound(c) /\ pc[c] = "claim" /\ state[pos[c]] = "DELETED"
  BY DEF IInv, Sound, ClaimEntry
<1>1. pos[c] \in Entries /\ pos[c] # pb[c]
  BY VisitGood DEF ClaimEntry
<1>2. LocksBut(c, {pos[c]}) /\ wlock'[pos[c]] = c
  BY <1>0, TakeGood DEF ClaimEntry, LockType
<1>3. /\ pc' = [pc EXCEPT ![c] = "fill"]
      /\ UNCHANGED <<table, saved, req, walk, pos, listed, answer, served>>
  BY DEF ClaimEntry, Goto
<1>4. TypeOK'
  <2>1. wlock' \in [Entries -> Clients \cup {NoClient}] /\ rlock' \in [Entries -> [Clients -> Nat]]
    BY <1>2, GoodLocks DEF LocksBut
  <2> QED BY <1>0, <1>3, <2>1 DEF TypeOK, table, walk, Steps
<1>5. OthersKept(c) /\ TableKept(c)
  BY <1>0, <1>3 DEF TypeOK, OthersKept, TableKept, table, walk
<1>6. pc'[c] = "fill" /\ UNCHANGED <<state, fname, parent, req, node, pb, from, pos, listed>>
  BY <1>0, <1>3 DEF TypeOK, table, walk
<1>7. /\ req[c] \in Requests /\ req[c].op \in {"mkdir", "mknod"} /\ from[c] = NoEntry
      /\ "fill" \in StepsOf(req[c].op)
  <2>1. req[c].op \in Operations /\ req[c] \in Requests /\ "claim" \in StepsOf(req[c].op)
    BY <1>0, TableAssumption DEF Sound, InStage
  <2>2. req[c].op \in {"mkdir", "mknod"}
    BY <2>1 DEF StepsOf, Operations
  <2> QED BY <1>0, <2>1, <2>2 DEF Sound, InStage, StepsOf
<1>8. Holds(c, pb[c])' <=> Holds(c, pb[c])
  BY <1>1, <1>2, <1>6, KeptLocks
<1>9. InStage(c)'
  BY <1>0, <1>1, <1>6, <1>7 DEF Sound, InStage, Searches
<1>10. LocksHeld(c)'
  BY <1>0, <1>1, <1>2, <1>6, <1>7, <1>8 DEF Sound, LocksHeld, Walking, Searches
<1>11. FoundStays(c)'
  BY <1>0, <1>6, <1>8 DEF Sound, FoundStays, InDirectory, OnNamed, KnownUndefined, Walking, Searches
<1> QED BY <1>2, <1>4, <1>5, <1>9, <1>10, <1>11, StepInv DEF Sound

LEMMA NoFreeEntryInv ==
  ASSUME IInv, NEW c \in Clients, NoFreeEntry(c)
  PROVE  IInv'
<1> USE TableFacts
<1>0. /\ TypeOK /\ Sound(c) /\ pc[c] = "claim"
      /\ UNCHANGED <<table, saved, req, node, next_dir, from, pos, listed, served>>
  BY DEF IInv, Sound, NoFreeEntry
<1>1. CASE /\ Leave(c, Now, "reply") /\ answer' = Set(answer, c, "ENOSPC") /\ UNCHANGED pb
  <2>1. answer' \in [Clients -> Answers] /\ saved' \in Paths
    BY <1>0, <1>1 DEF TypeOK, Set, Answers
  <2> QED BY <1>0, <1>1, <2>1, GiveUp DEF walk
<1>2. CASE /\ req[c].op = "mkdir" /\ Leave(c, Now, "next") /\ pb' = Set(pb, c, ENOSPC)
           /\ UNCHANGED answer
  <2>1. \/ /\ Holds(c, pb[c]) /\ pc' = [pc EXCEPT ![c] = "next"] /\ LocksBut(c, {pb[c]})
        \/ /\ ~Holds(c, pb[c]) /\ pc' = [pc EXCEPT ![c] = "wild"] /\ LocksBut(c, {})
    BY <1>2, LeaveOnly
  <2>2. PICK S : LocksBut(c, S)
    BY <2>1
  <2>3. TypeOK'
    <3>1. wlock' \in [Entries -> Clients \cup {NoClient}] /\ rlock' \in [Entries -> [Clients -> Nat]]
      BY <2>2, GoodLocks DEF LocksBut
    <3>2. pc' \in [Clients -> Steps] /\ pb' \in [Clients -> Entries \cup {ROOT, ENOSPC}]
      BY <1>0, <1>2, <2>1 DEF TypeOK, Set, Steps
    <3> QED BY <1>0, <1>2, <3>1, <3>2 DEF TypeOK, table
  <2>4. OthersKept(c) /\ TableKept(c)
    BY <1>0, <1>2, <2>1 DEF TypeOK, OthersKept, TableKept, Set, table
  <2>5. /\ req'[c] = req[c] /\ from'[c] = from[c] /\ pb'[c] = ENOSPC /\ listed'[c] = listed[c]
        /\ from[c] = NoEntry /\ req[c] \in Requests /\ listed[c] = {}
    BY <1>0, <1>2 DEF TypeOK, Set, Sound, InStage
  <2>6. CASE pc' = [pc EXCEPT ![c] = "wild"]
    <3>1. Sound(c)'
      BY <1>0, <1>2, <2>5, <2>6, AtWild DEF TypeOK
    <3> QED BY <2>2, <2>3, <2>4, <3>1, StepInv
  <2>7. CASE pc' = [pc EXCEPT ![c] = "next"]
    <3>1. pc'[c] = "next"
      BY <1>0, <2>7 DEF TypeOK
    <3>2. InStage(c)' /\ LocksHeld(c)' /\ FoundStays(c)'
      BY <1>2, <2>5, <3>1 DEF InStage, StepsOf, LocksHeld, FoundStays, InDirectory, OnNamed,
         KnownUndefined, Searches
    <3> QED BY <2>2, <2>3, <2>4, <3>2, StepInv DEF Sound
  <2> QED BY <2>1, <2>6, <2>7
<1> QED BY <1>1, <1>2 DEF NoFreeEntry

LEMMA FillInv ==
  ASSUME IInv, NEW c \in Clients, Fill(c)
  PROVE  IInv'
<1> DEFINE op == req[c].op
           p  == pos[c]
           step == IF op = "mkdir" THEN "next" ELSE "reply"
<1> USE TableFacts
<1>0. TypeOK /\ Sound(c) /\ pc[c] = "fill"
  BY DEF IInv, Sound, Fill
<1>1. /\ p \in Entries /\ wlock[p] = c /\ p # pb[c] /\ node[c] \in Names
      /\ req[c] \in Requests /\ op \in {"mkdir", "mknod"} /\ from[c] = NoEntry /\ listed[c] = {}
      /\ op # "mkdir" => Holds(c, pb[c])
  <2>1. op \in Operations /\ req[c] \in Requests /\ "fill" \in StepsOf(op)
    BY <1>0, TableAssumption DEF Sound, InStage
  <2>2. op \in {"mkdir", "mknod"}
    BY <2>1 DEF StepsOf, Operations
  <2> QED BY <1>0, <2>1, <2>2 DEF Sound, InStage, LocksHeld, Walking
<1>2. /\ state' = [state EXCEPT ![p] = IF op = "mkdir" THEN "DIRECTORY" ELSE "REGULAR"]
      /\ fname' = [fname EXCEPT ![p] = node[c]]
      /\ parent' = [parent EXCEPT ![p] = pb[c]]
      /\ Leave(c, Unlocked(Now, c, p), step)
      /\ pb' = IF op = "mkdir" THEN [pb EXCEPT ![c] = p] ELSE pb
      /\ answer' = IF op = "mkdir" THEN answer ELSE [answer EXCEPT ![c] = "ISREG"]
      /\ UNCHANGED <<saved, req, node, next_dir, from, pos, listed, served>>
  BY DEF Fill, Set
<1>3. \/ Holds(c, pb[c]) /\ pc' = [pc EXCEPT ![c] = step] /\ LocksBut(c, {p} \cup {pb[c]})
      \/ ~Holds(c, pb[c]) /\ pc' = [pc EXCEPT ![c] = "wild"] /\ LocksBut(c, {})
  <2>1. Has(Now, c, p)
    BY <1>1 DEF Has, Now
  <2>2. Good(Unlocked(Now, c, p)) /\ Apart(c, {p}, Now, Unlocked(Now, c, p))
    BY <1>1, <2>1, GoodNow, UnlockedGood
  <2> HIDE DEF step
  <2> QED BY <1>1, <1>2, <2>2, Leaving
<1>4. PICK S : LocksBut(c, S)
  BY <1>3
<1>5. TypeOK'
  <2>1. wlock' \in [Entries -> Clients \cup {NoClient}] /\ rlock' \in [Entries -> [Clients -> Nat]]
    BY <1>4, GoodLocks DEF LocksBut
  <2>2. pc' \in [Clients -> Steps]
    BY <1>0, <1>3 DEF TypeOK, Steps
  <2>3. pb' \in [Clients -> Entries \cup {ROOT, ENOSPC}] /\ answer' \in [Clients -> Answers]
    BY <1>0, <1>1, <1>2 DEF TypeOK, Answers
  <2>4. /\ state' \in [Entries -> States] /\ fname' \in [Entries -> Names]
        /\ parent' \in [Entries -> Entries \cup {ROOT, ENOSPC}]
    <3>1. pb[c] \in Entries \cup {ROOT, ENOSPC}
      BY <1>0 DEF TypeOK
    <3> QED BY <1>0, <1>1, <1>2, <3>1 DEF TypeOK, States
  <2> QED BY <1>0, <1>2, <2>1, <2>2, <2>3, <2>4 DEF TypeOK
<1>6. OthersKept(c)
  BY <1>0, <1>2, <1>3 DEF TypeOK, OthersKept
<1>7. TableKept(c)
  BY <1>0, <1>1, <1>2 DEF TypeOK, TableKept, Holds
<1>8. /\ pb'[c] = (IF op = "mkdir" THEN p ELSE pb[c])
      /\ state'[p] = (IF op = "mkdir" THEN "DIRECTORY" ELSE "REGULAR")
      /\ UNCHANGED <<req, from, listed>>
  BY <1>0, <1>1, <1>2 DEF TypeOK
<1>9. Sound(c)'
  <2>1. CASE ~Holds(c, pb[c])
    <3>1. pc'[c] = "wild"
      BY <1>0, <1>3, <2>1 DEF TypeOK
    <3> QED BY <1>0, <1>1, <1>8, <2>1, <3>1, AtWild
  <2>2. CASE Holds(c, pb[c]) /\ op = "mknod"
    <3>1. pc'[c] = "reply"
      BY <1>0, <1>3, <2>2 DEF TypeOK
    <3> QED BY <1>0, <1>8, <2>2, <3>1, AtReply
  <2>3. CASE Holds(c, pb[c]) /\ op = "mkdir"
    <3>1. pc'[c] = "next"
      BY <1>0, <1>3, <2>3 DEF TypeOK
    <3> QED BY <1>1, <1>8, <2>3, <3>1
        DEF Sound, InStage, StepsOf, LocksHeld, FoundStays, InDirectory, OnNamed,
            KnownUndefined, Searches
  <2> QED BY <1>1, <2>1, <2>2, <2>3
<1> QED BY <1>4, <1>5, <1>6, <1>7, <1>9, StepInv

-----------------------------------------------------------------------------
(* The work on what was found *)

LEMMA GiveBack ==
  ASSUME IInv, NEW c \in Clients, NEW p \in Entries, Holds(c, p),
         Become(Unlocked(Now, c, p))
  PROVE  LocksBut(c, {p})
<1>1. Has(Now, c, p)
  BY TableFacts DEF Holds, Has, Now
<1>2. Good(Unlocked(Now, c, p)) /\ Apart(c, {p}, Now, Unlocked(Now, c, p))
  BY <1>1, GoodNow, UnlockedGood
<1>3. Now' = Unlocked(Now, c, p)
  BY <1>2, Becoming
<1> QED BY <1>2, <1>3 DEF LocksBut

LEMMA HeldInv ==
  ASSUME IInv, NEW c \in Clients, Held(c)
  PROVE  IInv'
<1> DEFINE p == pos[c]
<1> USE TableFacts
<1>0. TypeOK /\ Sound(c) /\ pc[c] = "held"
  BY DEF IInv, Sound, Held
<1>1. p \in Entries /\ Holds(c, p) /\ (req[c].op # "getattr" => wlock[p] = c)
  BY <1>0 DEF Sound, InStage, LocksHeld
<1>2. /\ state' = (IF req[c].op \in {"unlink", "rmdir"} THEN [state EXCEPT ![p] = "DELETED"]
                   ELSE state)
      /\ pc' = [pc EXCEPT ![c] = "reply"]
      /\ UNCHANGED <<fname, parent, saved, req, walk, pos, listed, served>>
  BY DEF Held, Goto
<1>3. LocksBut(c, {p})
  BY <1>1, GiveBack DEF Held
<1>4. TypeOK'
  <2>1. wlock' \in [Entries -> Clients \cup {NoClient}] /\ rlock' \in [Entries -> [Clients -> Nat]]
    BY <1>3, GoodLocks DEF LocksBut
  <2>2. pc' \in [Clients -> Steps] /\ state' \in [Entries -> States]
    BY <1>0, <1>2 DEF TypeOK, Steps, States
  <2>3. answer' \in [Clients -> Answers]
    BY <1>0 DEF Held, TypeOK, Set, Answers
  <2> QED BY <1>0, <1>2, <2>1, <2>2, <2>3 DEF TypeOK, walk
<1>5. OthersKept(c)
  BY <1>0, <1>2 DEF TypeOK, OthersKept, walk
<1>6. TableKept(c)
  BY <1>0, <1>1, <1>2 DEF TypeOK, TableKept
<1>7. Sound(c)'
  BY <1>0, <1>2, AtReply DEF TypeOK, walk
<1> QED BY <1>3, <1>4, <1>5, <1>6, <1>7, StepInv

LEMMA MoveInv ==
  ASSUME IInv, NEW c \in Clients, Move(c)
  PROVE  IInv'
<1> DEFINE p == from[c]
<1> USE TableFacts
<1>0. TypeOK /\ Sound(c) /\ pc[c] = "move"
  BY DEF IInv, Sound, Move
<1>1. p \in Entries /\ Holds(c, p) /\ node[c] \in Names
  BY <1>0 DEF Sound, InStage, LocksHeld, TypeOK
<1>2. /\ parent' = [parent EXCEPT ![p] = pb[c]]
      /\ fname' = [fname EXCEPT ![p] = node[c]]
      /\ pc' = [pc EXCEPT ![c] = "reply"]
      /\ answer' = [answer EXCEPT ![c] = "SEXE"]
      /\ UNCHANGED <<state, saved, req, walk, pos, listed, served>>
  BY DEF Move, Goto, Set
<1>3. LocksBut(c, {p})
  BY <1>1, GiveBack DEF Move
<1>4. TypeOK'
  <2>1. wlock' \in [Entries -> Clients \cup {NoClient}] /\ rlock' \in [Entries -> [Clients -> Nat]]
    BY <1>3, GoodLocks DEF LocksBut
  <2>2. pb[c] \in Entries \cup {ROOT, ENOSPC}
    BY <1>0 DEF TypeOK
  <2>3. /\ pc' \in [Clients -> Steps] /\ answer' \in [Clients -> Answers]
        /\ parent' \in [Entries -> Entries \cup {ROOT, ENOSPC}] /\ fname' \in [Entries -> Names]
    BY <1>0, <1>1, <1>2, <2>2 DEF TypeOK, Steps, Answers
  <2> QED BY <1>0, <1>2, <2>1, <2>3 DEF TypeOK, walk
<1>5. OthersKept(c)
  BY <1>0, <1>2 DEF TypeOK, OthersKept, walk
<1>6. TableKept(c)
  BY <1>0, <1>1, <1>2 DEF TypeOK, TableKept
<1>7. Sound(c)'
  BY <1>0, <1>2, AtReply DEF TypeOK, walk
<1> QED BY <1>3, <1>4, <1>5, <1>6, <1>7, StepInv

LEMMA OntoInv ==
  ASSUME IInv, NEW c \in Clients, Onto(c)
  PROVE  IInv'
<1> DEFINE p == from[c]
           L == Unlocked(Now, c, p)
           M == Unlocked(L, c, pos[c])
<1> USE TableFacts
<1>0. TypeOK /\ Sound(c) /\ pc[c] = "onto"
  BY DEF IInv, Sound, Onto
<1>1. p \in Entries /\ Holds(c, p) /\ pos[c] \in Entries /\ Holds(c, pos[c]) /\ pos[c] # p
  BY <1>0 DEF Sound, InStage, LocksHeld, TypeOK
<1>2. /\ parent' = (IF state[pos[c]] = "DIRECTORY" THEN [parent EXCEPT ![p] = pb[c]] ELSE parent)
      /\ pc' = [pc EXCEPT ![c] = "reply"]
      /\ UNCHANGED <<state, fname, saved, req, walk, pos, listed, served>>
  BY DEF Onto, Goto
<1>3. LocksBut(c, {p, pos[c]})
  <2>1. Has(Now, c, p) /\ Has(Now, c, pos[c])
    BY <1>1 DEF Holds, Has, Now
  <2>2. Good(L) /\ Apart(c, {p}, Now, L)
    BY <1>1, <2>1, GoodNow, UnlockedGood
  <2>3. Has(L, c, pos[c])
    BY <1>1, <2>1, <2>2 DEF Apart, Has
  <2>4. Good(M) /\ Apart(c, {pos[c]}, L, M)
    BY <1>1, <2>2, <2>3, UnlockedGood
  <2>5. Now' = M
    BY <2>4, Becoming DEF Onto
  <2>6. Apart(c, {p, pos[c]}, Now, M)
    BY <2>2, <2>4 DEF Apart
  <2> QED BY <2>4, <2>5, <2>6 DEF LocksBut
<1>4. TypeOK'
  <2>1. wlock' \in [Entries -> Clients \cup {NoClient}] /\ rlock' \in [Entries -> [Clients -> Nat]]
    BY <1>3, GoodLocks DEF LocksBut
  <2>2. pb[c] \in Entries \cup {ROOT, ENOSPC}
    BY <1>0 DEF TypeOK
  <2>3. /\ pc' \in [Clients -> Steps]
        /\ parent' \in [Entries -> Entries \cup {ROOT, ENOSPC}]
    BY <1>0, <1>2, <2>2 DEF TypeOK, Steps
  <2>4. answer' \in [Clients -> Answers]
    BY <1>0 DEF Onto, TypeOK, Set, Answers
  <2> QED BY <1>0, <1>2, <2>1, <2>3, <2>4 DEF TypeOK, walk
<1>5. OthersKept(c)
  BY <1>0, <1>2 DEF TypeOK, OthersKept, walk
<1>6. TableKept(c)
  BY <1>0, <1>1, <1>2 DEF TypeOK, TableKept
<1>7. Sound(c)'
  BY <1>0, <1>2, AtReply DEF TypeOK, walk
<1> QED BY <1>3, <1>4, <1>5, <1>6, <1>7, StepInv

-----------------------------------------------------------------------------
(* The listing of a directory *)

LEMMA ListEntryInv ==
  ASSUME IInv, NEW c \in Clients, ListEntry(c)
  PROVE  IInv'
<1> USE TableFacts
<1>0. TypeOK /\ Sound(c) /\ pc[c] = "list"
  BY DEF IInv, Sound, ListEntry
<1>1. pos[c] \in Entries /\ pos[c] # pb[c] /\ pos[c] # from[c] /\ pos[c] \notin listed[c]
  BY <1>0, VisitGood DEF ListEntry
<1>2. LocksBut(c, {pos[c]}) /\ \A p : p = pos[c] => Holds(c, p)'
  BY TakeGood DEF ListEntry
<1>3. /\ listed' = [listed EXCEPT ![c] = listed[c] \cup {pos[c]}]
      /\ pos' = [pos EXCEPT ![c] = pos[c] + 1]
      /\ UNCHANGED <<table, saved, pc, req, walk, answer, served>>
  BY DEF ListEntry, Set
<1>4. TypeOK'
  <2>1. wlock' \in [Entries -> Clients \cup {NoClient}] /\ rlock' \in [Entries -> [Clients -> Nat]]
    BY <1>2, GoodLocks DEF LocksBut
  <2>2. listed' \in [Clients -> SUBSET Entries] /\ pos' \in [Clients -> 0 .. FileBlocks]
    BY <1>0, <1>1, <1>3 DEF TypeOK
  <2> QED BY <1>0, <1>3, <2>1, <2>2 DEF TypeOK, table, walk
<1>5. OthersKept(c) /\ TableKept(c)
  BY <1>0, <1>3 DEF TypeOK, OthersKept, TableKept, table, walk
<1>6. /\ pos'[c] = pos[c] + 1 /\ listed'[c] = listed[c] \cup {pos[c]}
      /\ UNCHANGED <<state, fname, parent, pc, req, node, pb, from>>
  BY <1>0, <1>3 DEF TypeOK, table, walk
<1>7. \A p : p # pos[c] => (Holds(c, p)' <=> Holds(c, p))
  BY <1>2, KeptLocks
<1>8. InStage(c)'
  BY <1>0, <1>6 DEF Sound, InStage, Searches
<1>9. LocksHeld(c)'
  <2>1. ASSUME NEW p \in listed'[c]
        PROVE  p < pos'[c] /\ p # pb[c] /\ Holds(c, p)'
    <3>1. CASE p = pos[c]
      <4>1. Holds(c, p)'
        BY <1>2, <3>1
      <4>2. pos[c] \in Int
        BY <1>1
      <4> QED BY <1>1, <1>6, <3>1, <4>1, <4>2
    <3>2. CASE p \in listed[c]
      <4>1. p < pos[c] /\ p # pb[c] /\ Holds(c, p)
        BY <1>0, <3>2 DEF Sound, LocksHeld
      <4>2. p \in Int /\ pos[c] \in Int
        <5>1. p \in Entries
          BY <1>0, <3>2 DEF TypeOK
        <5> QED BY <1>1, <5>1
      <4>3. Holds(c, p)'
        BY <1>1, <1>7, <3>2, <4>1
      <4> QED BY <1>6, <4>1, <4>2, <4>3
    <3> QED BY <1>6, <3>1, <3>2
  <2> QED BY <1>0, <1>1, <1>6, <1>7, <2>1 DEF Sound, LocksHeld
<1>10. FoundStays(c)'
  BY <1>0, <1>1, <1>6, <1>7 DEF Sound, FoundStays, InDirectory, OnNamed, KnownUndefined
<1> QED BY <1>2, <1>4, <1>5, <1>8, <1>9, <1>10, StepInv DEF Sound

LEMMA ListEndInv ==
  ASSUME IInv, NEW c \in Clients, ListEnd(c)
  PROVE  IInv'
<1> DEFINE L == [w |-> [p \in Entries |-> IF p \in listed[c] /\ wlock[p] = c
                                          THEN NoClient ELSE wlock[p]],
                 r |-> [p \in Entries |-> IF p \in listed[c] /\ wlock[p] # c
                                          THEN Set(rlock[p], c, rlock[p][c] - 1) ELSE rlock[p]]]
<1> USE TableFacts
<1>0. TypeOK /\ Sound(c) /\ pc[c] = "list"
  BY DEF IInv, Sound, ListEnd
<1>1. /\ listed[c] \in SUBSET Entries /\ pb[c] \notin listed[c] /\ Holds(c, pb[c])
      /\ \A p \in listed[c] : wlock[p] = c \/ rlock[p][c] > 0
  <2>1. req[c].op \in Operations /\ "list" \in StepsOf(req[c].op)
    BY <1>0, TableAssumption DEF Sound, InStage
  <2>2. req[c].op # "mkdir"
    BY <2>1 DEF StepsOf
  <2>3. listed[c] \in SUBSET Entries
    BY <1>0 DEF TypeOK
  <2> QED BY <1>0, <2>2, <2>3 DEF Sound, LocksHeld, Walking, Holds
<1>2. Good(L) /\ Apart(c, listed[c], Now, L)
  <2>1. /\ wlock \in [Entries -> Clients \cup {NoClient}] /\ rlock \in [Entries -> [Clients -> Nat]]
        /\ \A p \in Entries : wlock[p] # NoClient => \A d \in Clients : rlock[p][d] = 0
    BY DEF IInv, TypeOK, Exclusive
  <2>2. L.w \in [Entries -> Clients \cup {NoClient}]
    BY <2>1
  <2>3. ASSUME NEW p \in Entries
        PROVE  L.r[p] = IF p \in listed[c] /\ wlock[p] # c
                        THEN [rlock[p] EXCEPT ![c] = rlock[p][c] - 1] ELSE rlock[p]
    BY DEF Set
  <2>4. \A p \in Entries : L.r[p] \in [Clients -> Nat]
    <3> SUFFICES ASSUME NEW p \in Entries PROVE L.r[p] \in [Clients -> Nat]
      OBVIOUS
    <3>1. CASE p \in listed[c] /\ wlock[p] # c
      <4>1. rlock[p] \in [Clients -> Nat] /\ rlock[p][c] > 0
        BY <1>1, <2>1, <3>1
      <4>2. rlock[p][c] - 1 \in Nat
        BY <4>1
      <4>3. [rlock[p] EXCEPT ![c] = rlock[p][c] - 1] \in [Clients -> Nat]
        BY <4>1, <4>2
      <4> HIDE DEF L
      <4> QED BY <2>3, <3>1, <4>3
    <3>2. CASE ~(p \in listed[c] /\ wlock[p] # c)
      BY <2>1, <2>3, <3>2
    <3> QED BY <3>1, <3>2
  <2>5. L.r \in [Entries -> [Clients -> Nat]]
    BY <2>4
  <2>6. ASSUME NEW p \in Entries, L.w[p] # NoClient, NEW d \in Clients
        PROVE  L.r[p][d] = 0
    <3>1. L.w[p] = (IF p \in listed[c] /\ wlock[p] = c THEN NoClient ELSE wlock[p])
      OBVIOUS
    <3>2. wlock[p] # NoClient /\ ~(p \in listed[c] /\ wlock[p] = c)
      BY <2>6, <3>1
    <3>3. rlock[p][c] = 0 /\ rlock[p][d] = 0
      BY <2>1, <3>2
    <3>4. p \notin listed[c]
      BY <1>1, <3>2, <3>3
    <3> QED BY <2>3, <3>3, <3>4
  <2>7. ASSUME NEW q \in Entries, NEW d \in Clients, q \notin listed[c] \/ d # c
        PROVE  (L.w[q] = d <=> wlock[q] = d) /\ L.r[q][d] = rlock[q][d]
    <3>1. L.w[q] = (IF q \in listed[c] /\ wlock[q] = c THEN NoClient ELSE wlock[q])
      OBVIOUS
    <3>2. L.w[q] = d <=> wlock[q] = d
      BY <2>7, <3>1
    <3>3. CASE q \in listed[c] /\ wlock[q] # c
      <4>1. rlock[q] \in [Clients -> Nat] /\ d # c
        BY <2>1, <2>7, <3>3
      <4>2. [rlock[q] EXCEPT ![c] = rlock[q][c] - 1][d] = rlock[q][d]
        BY <4>1
      <4> HIDE DEF L
      <4> QED BY <2>3, <3>2, <3>3, <4>2
    <3>4. CASE ~(q \in listed[c] /\ wlock[q] # c)
      <4> HIDE DEF L
      <4> QED BY <2>3, <3>2, <3>4
    <3> QED BY <3>3, <3>4
  <2>8. L \in [w : [Entries -> Clients \cup {NoClient}], r : [Entries -> [Clients -> Nat]]]
    BY <2>2, <2>5
  <2>9. Good(L)
    <3> HIDE DEF L
    <3> QED BY <2>6, <2>8 DEF Good
  <2>10. Apart(c, listed[c], Now, L)
    <3> HIDE DEF L
    <3> QED BY <2>7 DEF Apart, Now
  <2> QED BY <2>9, <2>10
<1>3. /\ Leave(c, L, "reply")
      /\ answer' = Set(answer, c, IF listed[c] = {} THEN "EMPTYDIR" ELSE "NOTEMPTYDIR")
      /\ UNCHANGED <<table, saved, req, walk, pos, listed, served>>
  BY DEF ListEnd
<1>4. pc' = [pc EXCEPT ![c] = "reply"] /\ LocksBut(c, listed[c] \cup {pb[c]})
  <2> HIDE DEF L
  <2> QED BY <1>1, <1>2, <1>3, Leaving
<1>5. TypeOK'
  <2>1. wlock' \in [Entries -> Clients \cup {NoClient}] /\ rlock' \in [Entries -> [Clients -> Nat]]
    BY <1>4, GoodLocks DEF LocksBut
  <2>2. pc' \in [Clients -> Steps] /\ answer' \in [Clients -> Answers]
    BY <1>0, <1>3, <1>4 DEF TypeOK, Steps, Answers, Set
  <2> QED BY <1>0, <1>3, <2>1, <2>2 DEF TypeOK, table, walk
<1>6. OthersKept(c) /\ TableKept(c)
  BY <1>0, <1>3, <1>4 DEF TypeOK, OthersKept, TableKept, table, walk
<1>7. Sound(c)'
  BY <1>0, <1>3, <1>4, AtReply DEF TypeOK, walk
<1> QED BY <1>4, <1>5, <1>6, <1>7, StepInv

-----------------------------------------------------------------------------
(* The theorems *)

LEMMA StepOfNext ==
  ASSUME IInv, [Next]_vars
  PROVE  IInv'
<1>1. CASE UNCHANGED vars
  BY <1>1
  DEF vars, table, locks, walk, IInv, TypeOK, Exclusive, InStage, LocksHeld, FoundStays, Holds,
      InDirectory, OnNamed, KnownUndefined
<1>2. ASSUME NEW c \in Clients, Start(c) \/ Continue(c) PROVE IInv'
  BY <1>2, StartInv, ReplyInv, NextInv, LookInv, ToInv, SkipInv, PassByInv, EnterInv,
     NotADirectoryInv, FoundNodeInv, NodeNotFoundInv, RefuseInv, MakeDirInv, LastNameInv,
     ClaimEntryInv, NoFreeEntryInv, FillInv, HeldInv, MoveInv, OntoInv, ListEntryInv, ListEndInv
  DEF Continue
<1> QED BY <1>1, <1>2 DEF Next

\* The inductive invariant holds in every state of the file table.
THEOREM InvariantHolds == Spec => []IInv
BY InitInv, StepOfNext, PTL DEF Spec

\* Every variable of the file table keeps its type: the locks are never
\* unlocked below zero, and the searches stay within the table.
THEOREM TableTypes == Spec => []TypeOK
<1>1. IInv => TypeOK
  BY DEF IInv
<1> QED BY <1>1, InvariantHolds, PTL

\* The directory a thread is inside of, while the thread holds it, is neither
\* removed by osada_rmdir nor reused by another creation.
THEOREM DirectoriesStay == Spec => []DirectoryStays
<1>1. IInv => DirectoryStays
  BY DEF IInv, FoundStays, DirectoryStays
<1> QED BY <1>1, InvariantHolds, PTL

\* get_free_file_block never gives an entry to two threads, nor one in use.
THEOREM CreationsAreExclusive == Spec => []FillIsFree
<1>1. IInv => FillIsFree
  BY DEF IInv, LocksHeld, FoundStays, FillIsFree
<1> QED BY <1>1, InvariantHolds, PTL

\* What osada_write_file, osada_unlink and osada_rmdir change is still the
\* entry of the name they were given.
THEOREM WorkIsOnNamed == Spec => []HeldIsNamed
<1>1. IInv => HeldIsNamed
  BY DEF IInv, FoundStays, HeldIsNamed
<1> QED BY <1>1, InvariantHolds, PTL

\* No handler unlocks an entry its thread has not locked, but for the two known
\* cases: the table's locks are balanced on every other path.
THEOREM UnlocksAreKnown == Spec => []OnlyKnownUndefined
<1>1. IInv => OnlyKnownUndefined
  BY DEF IInv, FoundStays, OnlyKnownUndefined
<1> QED BY <1>1, InvariantHolds, PTL
=============================================================================
