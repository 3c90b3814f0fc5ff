# Verification of pokedex-server, the maps and the trainers

The repository holds a game of several programs. A *map* moves *trainers* around
and lets them capture pokemons; maps and trainers find their files on a volume in
the OSADA format, which *pokedex-server* serves over TCP to *pokedex-client*, a
FUSE file system. *memoria*, a paged memory with a cache, is kept next to them. This
directory models these programs in TLA+; TLC checks the models on small instances,
and TLAPS proves, for every instance, the safety properties of the server's blocks and file
table, of the client, of the map and its deadlock detector, of the trainer and of memoria, and
that the blocks implement an atomic store.
The `README.md` of the repository documents nothing: the models are written from the
source.

## 1. The system

| component | state | operations | talks to | modelled by |
|---|---|---|---|---|
| **pokedex-server** `src/pokedex-server/pokedex-server.c`, `osada.h` | the mapped volume (bitmap, file table, mapping table, data blocks), one rwlock per file-table entry, the mutex `m_lock`, `strtok`'s position | one thread per client (`process_request`): mkdir, readdir, getattr, mknod, write, read, truncate, unlink, rmdir, rename | clients over TCP, one request at a time each; its threads share everything | `OsadaBlocks`, `OsadaTable` |
| **pokedex-client** `src/pokedex-client/pokedex-client.c` | a socket | the FUSE callbacks `pk_*`, run single-threaded (`-s`) | the kernel, pokedex-server | `PokedexClient` |
| **mapas: planner and select thread** `planificacion.c`, `nivel-test.c`, `solicitudes.c` | `entrenadores`, `colaListos`, `colaBloqueados`, `listaPokenests`, `master`, four mutexes | `planificar` (RR, SRDF), `atenderSolicitud`, `bloquearEntrenador`, `liberarRecursos2`, `manejar_select`, `releerConfiguracion` | trainers over TCP; each other through the queues | `Mapa` |
| **mapas: deadlock detector** `deteccionDeadlock.c` | matrices rebuilt at every check | `detectarDeadlock`, `mandarAPelear`, `matarEntrenador` | reads the lists of the map; sends to and receives from blocked trainers | `DeteccionDeadlock` |
| **mapas: window** `dibujarNivel.c` | items | draws | reads the lists | no |
| **entrenador** `src/entrenador/src` | `t_coach`: lives, travel sheet, current objective, connection | connect, locate, move, capture, hang up; signal handlers that give or take lives | maps over TCP; the volume through files | `Entrenador`; the protocol in `Mapa` and `DeteccionDeadlock` |
| **memoria** `src/memoria.c` | frames, page lists, an LRU cache | write, read, assign, finalize, console | a program that is not in the repository | `Memoria` |
| biblioteca-charmander, Servidor-Basico, Cliente-Basico | none | wrappers, teaching samples | | no |

What is hard in this code:

* *concurrency*: pokedex-server searches, appends and frees blocks from one thread
  per client with two levels of locks; a map has two threads (three with the
  detector) on the same queues with mutexes that do not cover them all;
* *refusals*: a request that finds the volume full has to undo what it did;
* *reading twice*: a path is searched once for a directory and again for a file;
  an empty PokeNest is seen in one step and acted upon in another;
* *hanging up* at any moment, which gives pokemons to others that wait for them;
* *old news*: what the kernel checked for one mount is changed by another; the
  detector works on copies of trainers that go on playing;
* *signals* that run a whole journey inside a handler, over what they interrupted;
* *boundaries*: empty files, the last block, a full table, unsigned differences.

What makes each part correct:

* blocks: no block in two chains, nothing in use is free, sizes and chains agree,
  nothing leaks, a refused request leaves no trace, every request happens at once;
* table: a walk keeps the directory it is in, a claimed entry is free, what is
  held is what was looked for, everyone is answered;
* map: no pokemon lost or doubled, a trainer is in one place, who is blocked
  waits for something and is woken when it comes, nobody is passed over;
* detector: no trainer of a real deadlock is taken for one that can go on, a death
  sets another free, at most one trainer is left out of every queue;
* trainer: nobody plays without lives, the title is earned, the trip ends;
* client: answers stay in step with requests, and tell what was done;
* memoria: every frame is in one place, no eviction loses a write, nobody waits for ever.

`PROJECT.json` lists every component and every hazard at its line.

## 2. Modules

### OsadaBlocks: bitmap, chains and sizes

A request starts when its walk has found and locked the entry of a regular file
(`Write`, `Read`, `Truncate`, `Unlink`), or claimed a free one (`CreateNode`). A step
is one iteration of a loop of the source; `TestBit` and the setting of that bit are
two steps, since nothing but `m_lock` makes them one.

| source | model |
|---|---|
| first block of an empty file, 1008-1042 | `FirstLock`, `FirstTest`, `FirstSet`, `FirstNone` |
| walk to the end of the chain, 1043-1052, 1404-1419 | `Walk`, `WalkEndWrite`, `WalkEndTruncate` |
| append, 1053-1070 | `AddLock`, `AddTest`, `AddSet`, `AddDone` |
| no space, 1070-1106, 1433-1475 | `AddNoSpace`, `UndoSeek`, then the release |
| release of a tail, 1085-1099, 1485-1493, 1607-1617 | `ReleaseLock`, `Release`, `ReleaseEnd` |
| copy, 1112-1140, 1246-1278 | `DataSeek`, `CopyBlock`, `CopyEnd` |

`cell` is `aux_map_ptr`: the address of `first_block` (`Head`) or of a map entry.
Data bytes are left out; how many of them were moved (`left`) is not. `owner` is an
auxiliary variable: which file each block was given to. Following `END_OF_FILE`
reads outside the mapped file: the thread goes to `"wild"` and the model stops.

`OsadaStore` is the abstract specification: files with sizes that change atomically
as long as all blocks fit. `StoreView` is the refinement mapping: a growing request
takes effect when it has found all its room, an unlink when it starts.

### OsadaTable: entries, locks, paths

All ten operations as the walk through the entries that each of them is: `search_dir`,
`search_node`, `get_free_file_block` and the listing of readdir visit one entry per
step (`Skip`, `PassBy`, `Enter`, `FoundNode`, `ClaimEntry`, `ListEntry`). truncate walks
as write does and read as getattr, so the two stand for both. `saved` is the one
position `strtok` keeps for the whole process. Names are model values; a path is a
sequence of them. A step that unlocks what its thread does not hold, or uses a
position that was never set, is undefined behaviour: the thread goes to `"wild"` and
the model stops. A rename onto a directory returns without an answer: `"silent"`.

### Mapa: a map and its trainers

Two threads, `plan` and `main`, and one process per session (a connection of a
trainer). A trainer sends a request and waits, so an answer is delivered by the step
that sends it; what a trainer has sent and the map has not read is `out`.

| source | model |
|---|---|
| `completar_mapa`, `zero_lives`, the connection of the next attempt | `Send`, `Close`, `Connect` |
| `ejecutarRafagaRR`, `ejecutarRafagaSRDF` | `TakeFirst`, `TakeUndecided`, `TakeNearest`, `Again`, `Requeue` |
| `atenderSolicitud`, `notificar_captura_pokemon` | `ServeGone`, `ServeLocate`, `ServeMove`, `ServeCatch`, `ServeLast`, `Captured` |
| `bloquearEntrenador` | `Block` |
| `liberarRecursos2`, `desbloquearEntrenador`, `liberarEntrenador` | `Lock`, `Reassign`, `PutBack`, `Count`, `ReleaseEnd`, `Await` |
| `manejar_select` | `Select`, `Accept`, `Handshake`, `Lookup`, `Recv`, `HangUp`, `LoopEnd` |
| `releerConfiguracion` on SIGUSR1 | `Reload` |

Abstractions: a position is the distance to the PokeNest looked for. The handshake is
one step. The order in which `select` results are looked at is open, and that of
descriptors is not kept. `batalla` is 0, so the detector only reads and is left out.

The map has several ways to fail for good, kept in the model as `alive = FALSE`, after
which nothing happens: a race of two threads on one commons-library list (`Race`,
whose outcome is undefined), SRDF following a null PokeNest, a handshake with a trainer
that hung up, and the exit after a last capture, for which the map waits for a request
that no trainer sends. `cantidad` and `master` may lose an update of one thread
(`Count`, `Captured`, `Block`, `HangUp` each have a disjunct for it). The capture of a
last pokemon travels in a message whose length was never assigned, so `Send` leaves any
bytes behind it, and `ServeLast` may use any PokeNest.

`ListaEntrenadores` holds what `Mapa` and `DeteccionDeadlock` share: the search of
`liberarEntrenador`, which takes a trainer's sessions off the list of all trainers and passes
over the one after each that it removes.

### DeteccionDeadlock: the third thread of a map

One check after the other of `detectarDeadlock`, next to a planner (RR) and a select thread
reduced to what they share with it. `dpc` is where the detector is:

| source | model |
|---|---|
| `duplicar_lista`, 33, 330-348 | `DetectDuplicate`, whose copies keep what each trainer looked for and had |
| matrices and reduction, 48-120 | `Matrices`, `Asked`, `Serve`, `Overrun`, `GiveBack`, `Visit`, `Pass`, `Reduce` |
| who is left, and holds what another wants, 121-153 | `Suspects`, in `DetectReduce` |
| the second look, 155-172 | `DetectConfirm` |
| `deadlock_ejecutando`, `mandarAPelear`, 174-192, 217-269 | `DetectLock`, `AskBattle`, `DetectAnswer`, `DetectWild` |
| `matarEntrenador`, 270-286 | `DetectKill`, `DetectRelease` |

`tieneUnPedido` is kept: once a trainer with a request has been visited, one without is
looked up one column past the end (`Overrun`), in the matrix at the first column of the next
row, in `pokemonsDisponibles` at a word that is a choice. What the detector then does with
a trainer that has moved, hung up or been freed is recorded in `undefined`, and the model
stops there. Abstractions: between two reads of what others change the detector's
computation is one step, and so are the searches of `liberarRecursos2` (their interleavings
are `Mapa`); either may lose a battle (`pkmn_battle` is not in the repository).

### PokedexClient: the kernel, the callbacks, the answers

A call of a program is looked up component by component (`getattr`), may be refused
by the kernel (`Midway`, `Refusal`), and then goes through `open` to its callback. `Send` puts
a request on the socket, `Serve` is the whole handler of the server as one step, and `Recv`
takes the fields the callback reads, one to three of them, depending on what the first
ones are: `PkMkdir` ... `PkRename` say of each callback how many it reads and what it returns. `Crash` ends the server at any
moment, and a callback that waits gets nothing (`RecvEnd`). The handlers (`OsadaMkdir` ...)
keep what the clients can tell apart: which code is answered, how many fields, the table
afterwards, and the ways a handler breaks the server: a position that was never set
(`"wild"`), a lock that nobody gives back or an answer that never comes (`"stuck"`).

The kernel is external: modelled by the checks Linux makes before it calls a file system,
on what its last lookups were told (`seen`), with no cache from one call to the next.

### Entrenador: lives, signals and retries

The program is one thread, so its control is a stack (`stack`): `main`, a journey,
`zero_lives`, and the handlers that interrupt any of them between two steps. A frame has
the coach it was called with (`id`) and the life it loaded (`reg`).

| source | model |
|---|---|
| `main`, 186-212 | `MainLoad`, `Advance`, `Begin`, `MainCheck`, `MainReport` |
| `iniciar_ruta_de_viaje`, 121-157 | `Connect`, `Complete`, `Victim`, `MapGone`, `LeaveWon`, `LeaveLost`, `Load`, `Store`, `JourneyTest`, `NextMap` |
| `signal_handler`, 41-61 | `Deliver`, `Load`, `Store`, `HandlerTest`, `GameOver` |
| `zero_lives`, 79-119 | `ZeroDisconnect`, `ZeroDestroy`, `ZeroLoad`, `Advance`, `Begin` |

`signal()` masks a signal while its handler runs, so during a retry inside the handler of
SIGTERM no SIGTERM is delivered, while SIGUSR1 is. A coach used after it was destroyed
(`UseAfterFree`) and a connection destroyed twice may end the process (`"broken"`). What a
retry finds in `medallas` is what was there: `deleteDir` joins path and name with nothing in
between, and the path of `medallas` does not end with a slash (178, helper.c:82), so it
removes nothing.

The exceptions in the properties are what the code does: the second time lives run
out is reported as Maestro, because lives are tested once (195); a SIGUSR1 between the end
of the journey and that test has the same effect; and a SIGTERM between a load and its
journey (187-194, 103-113) whose own retry fails lets that journey go on, from the map after,
without lives (`overtaken`).

### Memoria: frames and a write-back cache

One thread per client. The entries and frames have a rwlock each; `mutex_lock` covers the
search of the table and the counts, and nothing covers the changes of the table, the list
of available frames and that of the processes. Content is abstracted to the set of pages
whose written data is in a frame or an entry, `str_last_used_time` to the order of last
uses.

| source | model |
|---|---|
| `assign_pages_to_process`, 359-396 | `CheckAvailable`, `SearchProcess`, `CreateProcess`, `LoadCount`, `StoreCount`, `ReadCount`, `RecordForgotten` |
| `inicialize_page`, `get_available_frame`, 404-419 | `TakeFrame`, `SetPid`, `SetPage` |
| `cleaning_process_entries`, 710-735 | `ForgetProcess`, `CleanTest`, `CleanFrame` |
| `get_cache_entry`, 454-465 | `Scan`, `ReadHit` |
| `get_frame`, 598-614 | `FindFrame` in `ReadFind` and `FlushFind`, `ReadFrame`, `Flush` |
| `assign_cache_entry`, `least_recently_used`, 467-544 | `Count`, `Pick` |
| `update_cache`, `writing_memory`, 546-577 | `FlushFind`, `Flush`, `Fill` |

`trouble` records what the code lets happen (a frame taken from an empty list, an entry
left locked by a process over its limit, two misses of one page at once ...), so that the
invariants can say what holds until then, and which of these each one depends on. `pages_count++`
is a load and a store, and the number of the page is read again after it: two requests for
pages of one process may give the same number, or give the frames in another order than the
numbers, or add two records of the process, and then two frames say they are one page
(`"crossed"`, without which `CacheIsCoherent` is violated). A client
asks for pages its process has: while a frame is being given (`SetPid` done, `SetPage` not),
its page number is that of whoever had the frame before, and nobody asks for it.

## 3. The runs

| run | instance | shows |
|---|---|---|
| `blocks` | 2 clients, 2 files, 4 positions (1 reserved), blocks of 2 bytes, sizes to 4; 1.0 M states | all safety of the blocks, that a refusal finds the volume full, and that they implement `OsadaStore` |
| `blocks_live` | 2 clients, 2 files, 3 positions, sizes to 3; 0.3 M states | every request ends |
| `table` | 2 clients, 2 requests each, 2 entries, 21 requests on an empty volume and one with a file in a directory; 3.5 M states | walks, claims and held entries |
| `table_flat` | 2 clients, 2 requests each, no directories | every request is answered |
| `table_circular` | 2 mknod in 2 directories | *violated*: two creators wait for each other |
| `mapa` | 3 sessions of 2 trainers, 2 PokeNests of one pokemon, both algorithms, quantum 1; 2.8 M states | conservation, one place |
| `mapa_live` | 2 sessions, quantum 2, distance to 1, one SIGUSR1; 0.4 M states | every move is answered |
| `mapa_wakeup` | 2 sessions with three captures each | *violated*: a wake-up is lost |
| `deteccion` | 3 trainers, 3 PokeNests, one with two pokemons; they want each other's, one of them in two battles, another may hang up; both orders of arrival; 1.5 M states | deadlocks are found, deaths free, checks break for a cause |
| `cliente` | 2 mounts, 3 calls in all, on a table of three entries with a directory and a file, with data or without, room for one file with data; 5.1 M states | answers in step and true, only races do harm |
| `entrenador` | 2 maps, 2 lives, up to 2 SIGTERM and 2 SIGUSR1; 0.9 M states | alive while playing, earned titles, the trip ends |
| `memoria` | 2 clients, 2 processes, 4 frames (1 for the table), 2 cache entries, limit 1 or 2 with 2 assignments and 3 accesses, or none with an end; 3.2 M states | frames conserved, coherent cache, waits have a cause |

Why the bounds are enough. `blocks`: three usable blocks for two files of up to two
blocks are enough to run out in the middle of a request, to append after another file
freed, and to release a chain of two while the other client searches; block size 2 has
whole, partial and empty last blocks. `table`: every kind of request meets every other,
with an entry freed and claimed again by the second request of either client; with
two entries a search visits an entry and the end of the table. `mapa`: two trainers
want each other's pokemon, so each can be blocked while the other hangs up, and the
third session is a trainer that comes back while its first session is being released.
`deteccion`: two trainers make the smallest deadlock, and the third is at times in it, at
times one that could finish, at times gone, on either side of them in the list; each can
die, and the one that wants two pokemons of one PokeNest fights again in the next check, with
what the select thread was told in the first. `cliente`: three calls are a call that one mount makes old for the other,
and one that meets the result; they fill the table and the volume. `entrenador`: two lives and
two SIGTERM give a death by either cause before and after each retry, one retry inside the
other, and both lost updates. `memoria`: two entries fill up, with one process over its limit or two that compete; three
accesses are a write, its eviction and the miss that meets it; with three usable frames a
process has two pages while a frame is half given to it, so that for a moment two frames say
they are its first page.
`MaxSize`, `MaxRequests`, `MaxDistance`, `MaxReloads`, `MaxWild`, `MaxCalls`, `MaxTerms`,
`MaxGifts`, `MaxPages` and the number of sessions are the bounds; sizes come from the
requests, and the other counters are bounded by these.

Deadlock is not checked: a model stops where the program dies, and where the bounded
requests or sessions are used up. Waiting for ever is the subject of `EveryRequestIsAnswered`,
`MovesAreAnswered` and `NoCircularWait` instead.

Fairness. `OsadaBlocks`: weak for a thread's own steps, strong for taking `m_lock`: a
mutex that is released again and again is in the end given to each waiter, as glibc's
normal mutexes do on a machine that schedules all threads. `OsadaTable`: weak only; the
requests that compete are bounded. (glibc's default rwlock lets readers overtake a
waiting writer for ever, so an unbounded run would need more than the code gives.)
`Mapa`: weak for each thread, for a trainer that has something to send, and for one that
has met its objectives; a trainer may hang up at any time but need not. `Entrenador`: weak for the steps of
the process, which the kernel schedules; maps answer, and nothing is assumed of signals.

Behaviours met while modelling that no property excludes, since they are what the code
does: taking the last block of the volume is answered ENOSPC although it was taken
(pokedex-server.c:1070); write and unlink that find a directory where there was a file go on
with a position that was never set (935); `strtok`'s one position for all threads lets a mknod
create the name another client asked for (785); mkdir in a full table reports success (475);
the detector and the select thread may wait for the same answer of a trainer, and if the select
thread gets it both wait for ever (deteccionDeadlock.c:172-178, nivel-test.c:177-183).

Each disagreement found is a run of its own, listed in `PROJECT.json` under `findings`
with the line of the source it contradicts.

## 4. The proofs

Each proof module has the name of the module it is about. Its main lemma is that an
inductive invariant `IInv` (which TLC checked on the run's instance and on neighbouring ones
before it was proved) is preserved by every action, one lemma per action; the theorems
follow from it. `ListFacts` has what they share: the least number with a property, lists, and
functions defined by recursion. The assumptions are those the modules name: the sizes are naturals,
the pokemons of a map are finitely many (for `Mapa` and for `DeteccionDeadlock`), a trainer comes
back with one session after another, and the value that stands for "none" is none of the others.

### The blocks

`OsadaBlocksProofs` proves, for every number of clients, files, blocks, block size and
bound, from the constants' assumptions (`DataAssumption`, `NoClientAssumption`,
`NoFileAssumption`):

* `TypeCorrect`: `Spec => []TypeOK`;
* `Inductive`: `Spec => []IInv`;
* `NoCrossLinkHolds`, `NoDanglingHolds`, `CopiesAreExclusiveHolds` from it;
* `EnospcOnlyWhenFullHolds`: `Spec => EnospcOnlyWhenFull`, an action property. A search keeps the
  position it reached from one block of a request to the next, so that all it has
  passed were busy does not mean that they are. `PassedIsTaken` says what is so under `m_lock`: every
  position a search has passed since it took the mutex is busy. It is inductive with
  `IInv`, and at the end of the bitmap it is the property.

`NoCrossLink` is not inductive: nothing in it says that the block a search has found is
still free when it is linked, or that a thread that frees a tail is on its own chain. `IInv`
adds who holds `m_lock` (`MutexHeld`) and the entries (`EntryHeld`); that a block's owner
tells whether it is busy and that pointers stay with their owner (`OwnersAgree`); that
a block found free stays so under `m_lock` (`FoundIsFree`); and where a thread's map
pointer stands (`CellIsOwn`, and `ReleaseIsOwn` in the middle of a release, where the
block under the pointer is already free and its successor is reached by this thread
only). Each action is a step of the proof; those that touch only the thread's own
variables share `LocalStep`, linking and releasing have a lemma each (`LinkInv`,
`ReleaseInv`).

What relates a chain to a size is in a second invariant, `FilesSound`, inductive together
with `IInv` (`ChainsAreSound`). Of each file it says that its chain is a *row*: `n` different
blocks `s[1]` to `s[n]`, each leading to the next, which with the `m` blocks of a second row,
being given back, are all the file owns (`Sound`). `Works` says what a request knows of that row:

* `Opens`: the file is empty and about to get its first block;
* `Walks`: how many blocks are counted is how far along the row the thread stands;
* `Adds`: what is still missing is the new size less the room of the `n` blocks, in bytes for a
  write and in blocks for a truncate;
* `Shrinks`, `Releases`: the blocks to be kept are at the head of the row, the thread stands on
  the last of them or on the block it has just freed, behind which the rest is still a row;
* `Moves`: the block under the pointer is that of the next byte to copy (`Turn`).

From it follow `ChainMatchesSizeHolds`, `NoLeakHolds`, `RefusedIsUndoneHolds`,
`OnlyEmptyReadIsWildHolds` and `CopyIsCompleteHolds`. The properties see a chain as a recursive
function; `ChainIsRow` shows once, with `ListFacts`, that it is the row. The arithmetic of the
code is in a few lemmas on `NecessaryBlocks` and `BlockSize`: what the last block has left
(`WalkEndWriteSound`), which block a byte is in (`ByteIsInside`), where a copy ends (`CopyArithmetic`).

`RefinesStore` is `Spec => ImplementsStore`. A third invariant, `HoldersWork`, says that who has
an entry for writing is at work on that file. With the rows it gives `Fits`: even in the middle of
requests a file has the blocks of the size that clients see (`ViewFits`), so each block of each
file has a place of its own on the volume (`FilesFit`), which is the room `OsadaStore` asks for.
Then every action is a step of the store or none: `CreateNode`, `Unlink`, `AddDone`, a truncate
that shrinks, and one that finds at the end of its walk that the blocks suffice, change what
clients see; `FirstNone`, `AddNoSpace` and `ReleaseEnd` undo what none of them has seen.

### The file table

`OsadaTableProofs`, for every table, number of clients and set of requests: `TableTypes`,
`DirectoriesStay`, `CreationsAreExclusive`, `WorkIsOnNamed`, `UnlocksAreKnown` (the five
invariants of the run `table`). None is inductive: that an entry stays a directory while a walk
is in it takes that nobody else can write it, and that the thread which could has it locked.
`IInv` adds that a lock held for writing excludes the others (`Exclusive`), which steps each
operation goes through and what it has found by then (`InStage`), and which locks it has
there (`LocksHeld`): the directory it is in, unless mkdir made it, what it has found, and in
readdir what it has listed; all of them different, because a lock is counted for a reader
and not for a writer.

### The map

`MapaProofs`: `MapTypes`, `TrainersInOnePlace`, `PokemonsConserved`, for any number of trainers,
sessions, PokeNests and pokemons, both algorithms and any quantum. The two properties count
(`Occurrences`, `Cardinality`), and sums of counts are what the provers are worst at, so `IInv`
says the same without counting: the lists hold nothing twice, a session in a thread's hands
(`cur`) is on no list and in no other hands (`Placed`), a pokemon of one trainer is of no other
and in no PokeNest (`InOneHand`); the counts are taken once, at the end. What makes it
inductive is the protocol:

* `Requests`: a session has at most one request on its way, and had an objective to send it for;
  without it a capture could be answered to a trainer with none left;
* `Captures`: a trainer in the middle of a capture, or blocked for one, still waits for it or
  has hung up, so that who is woken has an objective to be taken off its list;
* `Busy`, `Greeting`, `Slice`: a thread holds a session exactly where it works on one.

The list that `liberarEntrenador` leaves is given by its k-th element (`Unlisted`), and
`NthExists` says that there is one.

### The detector

`DeteccionProofs`: `TypeCorrect`, `LostIsRead`, `BreaksForItsCause`, `DeadlocksAreFound`,
`DeathFrees`, the five properties of the run `deteccion`, for any trainers, sessions, pokemons,
levels and orders of arrival. None is inductive: where a trainer is depends on what was sent to
it and what it answered, and the detector goes on with copies. `IInv` adds:

* `Journeys`: one session of a trainer at a time, and nothing anywhere of one that has not begun;
* `Requests`: one request and one answer at a time, and who waits for a capture is blocked,
  ready, being read, or dead (`Placed`);
* `Battling`: only the trainer the detector waits for has a battle in its connection;
* `Queues`, `Detector`: who is in which queue, and what each step of the check has found;
* `Unreleased`, `InQuiet`: before the first release the select thread reads only who hung up,
  and while nobody hangs up those who fight are blocked or the one that is read;
* `Picks`: a trainer in its first session has in this map what it chooses from.

The reduction is a loop whose end is a question of its own. Each pass that is not the last
gives a row what it wants or takes from the word after `pokemonsDisponibles`, so there are at most
as many passes as rows that want something and that word together (`Pending`, `Passes`, `Reduces`); with
one row alone that is not so, which is the exception of `BreaksForACause`. `DeadlocksAreFound` rests on what a
pass keeps (`Doomed`): the rows of a deadlock want something from columns of which nothing is
free and nothing is held by the other rows, so that none of them is ever served (`DoomedVisit`).
`DeathFrees`: the loser holds what another of its deadlock waits for, or the deadlock would be
one without it; that pokemon is not free, and `liberarRecursos2` gives it to one of the blocked
(`DeathGives`).

### The client

`PokedexClientProofs`: `ClientTypes`, `ClientInStep`, `ResultsAreTrue`, `HarmTakesRaces`, the last two
of action properties. The client reads one to three fields depending on what the first ones
say, so what must agree is not the number of fields sent and read but the sequence of
answers of each handler with what each callback makes of them. `InOrder` says that the message
on the way is that of the callback that waits for it, and that of the attributes of a path the
second field is its kind.

`ResultsAreTrue` compares the table before and after each handler (`CreatedTable`, `RemovedTable`,
`SizedTable`, `RenamedTable`): how many entries of the name there are, where neither change may
move the directory the path leads through. A rename does not, because the kernel refuses to
move a directory into itself. For `HarmTakesRaces`, `Cleared` keeps with each call what the
kernel let it go on for; if it is still so (`FreshPath`), the handler finds what it takes for
granted. The attempt to prove it showed the property to be too strong as it was stated before: a file
that was empty, is opened while it has data and is truncated again is as the kernel knows it,
and reading it breaks the server (1237). The run had not met it, since it takes four calls
on a file with data; now `Stale` includes what `pk_open` was told, and the run has a volume whose file is empty.

### The trainer

`EntrenadorProofs`, for every sheet, number of lives and of signals: `TrainerTypes`,
`PlaysWithLives`, `MaestrosHaveMedals`, `BreaksOnlyByRetries`. The stack has no bound, since a
retry may run in a handler, and signals interrupt at any step, so `IInv` is about every
frame of the stack:

* `Stacked`: each call stands over the place it returns to, and main under all of them;
* `Allocated`, `Outdated`: how many coaches there were, and who holds one that is gone (a
  journey under a retry, or under another journey);
* `Indexed`: a journey with the present coach is on the sheet, and a retry in a handler
  begins from its start;
* `LivesLeft`: who counts on a life has one, or somebody above is about to look at the lives
  or to replace the coach, and no gift in progress will overwrite it with none;
* `Earned`: the maps before the index have their medals; after the first journey that fell, the
  lives are gone until main's retry, and no store in progress brings them back.

Each action is one of a few kinds of step (`Moves`, `Pushes`, `Pops` say what becomes of the stack),
and the conjuncts are preserved once per kind. `MaestroHasAllMedals` cannot be made
stronger: each of its exceptions is reached in the run.

### Memoria

`MemoriaProofs`: `MemoryTypes`, `FramesAreConserved`, `ThreadsStuckForACause`,
`CacheStaysCoherent`. `IInv` says what
a thread has at each step (`Ready`), which locks it holds (`Locks`) and where each frame is
(`FramesPlaced`). The argument of `ThreadsStuckForACause`: a thread that chooses an entry to
evict holds the best one so far, which is below the one it looks at, so of two threads that
wait for each other each would hold an entry below the other's; `mutex_lock` is held only over a
flush, and a thread that reads holds nothing that a second reader waits for. What is left is
a flush to a frame that is being read, and an entry a process over its limit left locked.

`CacheStaysCoherent` rests on a second invariant, `CInv`, inductive together with `IInv`
(`CoherenceHolds`). It holds while nothing of what the property excludes has happened (`Calm`).
The property is about what `get_frame` finds, the first frame that says it is a page, and a frame
on its way to a process says for a moment that it is another page 0. `FramesAgree` says why the
search is right all the same: the list of available frames is in order, a process has its pages
numbered by one thread at a time, with the number after those it has, so a later frame of a
process has a later page, and the one being given comes after the one with page 0 (`HomeIsFirst`).
`CacheAgrees` says that each thread works on the frame of its page (`WorksAtHome`), holds the
entry it is about to use and, when it fills it, has what the entry held in its frame
(`HasEntry`), that every entry is its page (`EntryIsTrue`) and that every write is where its
page is looked for (`WriteIsKept`). Of the steps only `Flush` and `Fill` need all of it.

### Only model-checked

* Liveness (`EveryRequestIsAnswered`, `MovesAreAnswered`, `TripEnds` and the others): it needs
  fairness and ENABLED.
* The runs that expect a violation: what they refute is not an invariant.

Every other invariant and action property of the runs has a theorem.

## 5. Not modelled

* The bytes of files and messages; the creation, mounting and crash of a volume (there is
  no journal and no recovery to check); requests of zero bytes, which the kernel does not
  send to a file system; sizes beyond 32 bits.
* The window of the map (it only reads, with a library that is not in the repository),
  the wrappers of biblioteca-charmander, the samples Servidor-Basico and Cliente-Basico,
  which no other part uses and which keep no state.
* The parsing of configuration files; the copies of files between the trainers' directories.
* SRDF, quanta longer than one and a change of algorithm while a battle is fought:
  `DeteccionDeadlock` has RR only.
* The commons library's lists: an operation on one is a step, except where `Mapa` says that
  two threads race on it. In memoria, where no lock covers them, a list broken by two
  threads at once is left out, and so is a process with pid 0, which is that of a free frame.
* Ties of `str_last_used_time` within a millisecond, and midnight, which the order of the
  uses does not have.
* What undefined behaviour leads to is not followed any further.

## 6. Plan

Done in this order: the blocks (the data), the table (who may touch it), the map, the
detector, the client, the trainer, memoria; then the proofs of the blocks, the table, the
client, memoria, the trainer, the map, the detector, the chains and the refinement. Left:
`MapaBatalla`, the detector composed with the whole of `Mapa`, instead of with the threads as
`DeteccionDeadlock` reduces them.
