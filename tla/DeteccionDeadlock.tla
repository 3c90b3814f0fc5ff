-------------------------- MODULE DeteccionDeadlock --------------------------
(***************************************************************************)
(* The deadlock detector of a map (mapas/deteccionDeadlock.c) with         *)
(* batalla = 1: it copies the list of trainers, reduces the matrices of    *)
(* what they hold and want, makes those it finds deadlocked fight, and     *)
(* kills the one that loses every fight.                                   *)
(*                                                                         *)
(* It runs beside the planner, the select thread and the trainers, which   *)
(* module Mapa has in full; here they take the steps the detector can see: *)
(* a trainer locates, captures, blocks, answers in battle, hangs up, and   *)
(* comes back when it died; the select thread reads what blocked trainers  *)
(* send.  A trainer is followed until it has located its last objective    *)
(* (its last capture ends the map, see Mapa), and one call of              *)
(* liberarRecursos2 is one step, as is each stretch of the detector        *)
(* between two reads of what others write.                                 *)
(***************************************************************************)
EXTENDS ListaEntrenadores, TLC

CONSTANTS
  Sessions,     \* connections, each used once
  Owner,        \* the trainer (its simbolo) of each session
  NextSession,  \* the session a trainer opens after it dies in one, or NONE
  Goals,        \* the PokeNests each trainer wants, in order
  Previous,     \* the best pokemon each trainer brings from another map, or NONE
  Arrivals,     \* orders in which the first sessions reach the map
  Quitters,     \* the trainers that may hang up
  PokeNests,    \* the PokeNests of the map, in the order of listaPokenests
  Pokemons,
  Nest,         \* the PokeNest of this map each pokemon belongs to
  Level,        \* the level of each pokemon
  MaxWild,      \* bound on the word after pokemonsDisponibles
  NONE

Nests == Range(PokeNests)
Trainers == Range(Owner)

ASSUME DeteccionAssumption ==
  /\ DOMAIN Owner = Sessions
  /\ NextSession \in [Sessions -> Sessions \cup {NONE}]
  /\ \A s, r \in Sessions : NextSession[s] = r =>
       /\ Owner[r] = Owner[s] /\ r # s
       /\ \A q \in Sessions : NextSession[q] = r => q = s
       /\ \A a \in Arrivals : r \notin Range(a)
  /\ PokeNests \in Seq(Nests) /\ PokeNests # <<>> /\ IsInjective(PokeNests)
  /\ Goals \in [Trainers -> Seq(Nests) \ {<<>>}]
  /\ Quitters \subseteq Trainers
  /\ Nest \in [Pokemons -> Nests] /\ IsFiniteSet(Pokemons)
  /\ Previous \in [Trainers -> DOMAIN Level \cup {NONE}]
  /\ Pokemons \subseteq DOMAIN Level /\ Range(Level) \subseteq Nat
  /\ \A a \in Arrivals : /\ a \in Seq(Sessions) /\ IsInjective(a)
                         /\ \A s, r \in Range(a) : Owner[s] = Owner[r] => s = r
  /\ MaxWild \in Nat
  /\ NONE \notin Sessions \cup Nests \cup Pokemons

VARIABLES
  tpc,            \* where the trainer of each session is
  goal,           \* index_current_pokemon of each trainer
  nombres,        \* each trainer's t_pokemon objects: what it caught for each objective
  backlog,        \* connections the map has not accepted, in order
  in, out,        \* messages to and from the trainer of each session
  entrenadores, colaListos, colaBloqueados,
  buscada,        \* t_entrenador.pokenest_buscada
  pokemons,       \* t_entrenador.pokemons
  freed,          \* sessions whose pokemons have been destroyed
  libres,         \* the pokemons left in each PokeNest
  master, lectura, reading,  \* select thread: watched, reported, the socket it reads
  dpc,            \* where the detector is
  filas,          \* its copy of the trainers
  pedida,         \* pokenest_buscada of each copy
  deadlockeados,  \* the copies still to fight
  perdedor,       \* entrenador1, the loser so far
  elegido,        \* entrenador1 has chosen its pokemon
  undefined       \* the first undefined behaviour met, or "no"

trainer  == <<tpc, goal, nombres>>
sockets  == <<in, out>>
selector == <<backlog, master, lectura, reading>>
queues   == <<entrenadores, colaListos, colaBloqueados>>
sessions == <<buscada, pokemons, freed, libres>>
copies   == <<filas, pedida>>
fight    == <<deadlockeados, perdedor, elegido>>
vars == <<trainer, sockets, queues, sessions, selector, dpc, copies, fight, undefined>>

Places == {"new", "backlog", "locate", "walk", "catch", "derailed", "dead", "closed"}
Steps  == {"sleep", "reduce", "spin", "confirm", "lock", "answer", "kill", "release"}
ToTrainer == ({"pokemon"} \X Pokemons)
             \cup ({"ubicacion", "batalla", "gano", "perdio", "victima"} \X {NONE})
ToMap     == ({"pokemon"} \X DOMAIN Level) \cup ({"ubicar", "atrapar"} \X Nests)

TypeOK ==
  /\ tpc \in [Sessions -> Places]
  /\ backlog \in Seq(Sessions)
  /\ goal \in [Trainers -> Nat] /\ \A t \in Trainers : goal[t] \in DOMAIN Goals[t]
  /\ DOMAIN nombres = Trainers
  /\ \A t \in Trainers : nombres[t] \in [DOMAIN Goals[t] -> Pokemons \cup {NONE}]
  /\ in \in [Sessions -> Seq(ToTrainer)] /\ out \in [Sessions -> Seq(ToMap)]
  /\ entrenadores \in Seq(Sessions) /\ colaListos \subseteq Sessions /\ colaBloqueados \in Seq(Sessions)
  /\ buscada \in [Sessions -> Nests \cup {NONE}]
  /\ pokemons \in [Sessions -> Seq(Pokemons)]
  /\ freed \subseteq Sessions
  /\ libres \in [Nests -> SUBSET Pokemons]
  /\ master \subseteq Sessions /\ lectura \subseteq Sessions /\ reading \in Sessions \cup {NONE}
  /\ dpc \in Steps
  /\ filas \in Seq(Sessions) /\ pedida \in Seq(Nests \cup {NONE}) /\ Len(pedida) = Len(filas)
  /\ deadlockeados \in Seq(Sessions) /\ perdedor \in Sessions \cup {NONE} /\ elegido \in BOOLEAN
  /\ undefined \in {"no", "freedCopy", "freedTrainer", "gone", "moved", "stalePick", "doubleFree"}

Msg(kind, what) == <<kind, what>>
Ubicar(t, k) == Msg("ubicar", Goals[t][k])

Init ==
  /\ backlog \in Arrivals
  /\ tpc = [s \in Sessions |-> IF s \in Range(backlog) THEN "backlog" ELSE "new"]
  /\ goal = [t \in Trainers |-> 1]
  /\ nombres = [t \in Trainers |-> [k \in DOMAIN Goals[t] |-> NONE]]
  /\ in = [s \in Sessions |-> <<>>]
  /\ out = [s \in Sessions |-> <<>>]
  /\ entrenadores = <<>> /\ colaListos = {} /\ colaBloqueados = <<>>
  /\ buscada = [s \in Sessions |-> NONE]
  /\ pokemons = [s \in Sessions |-> <<>>]
  /\ freed = {}
  /\ libres = [n \in Nests |-> {p \in Pokemons : Nest[p] = n}]
  /\ master = {} /\ lectura = {} /\ reading = NONE
  /\ dpc = "sleep" /\ filas = <<>> /\ pedida = <<>>
  /\ deadlockeados = <<>> /\ perdedor = NONE /\ elegido = FALSE
  /\ undefined = "no"

Defined == undefined = "no"
Gone(s) == tpc[s] \in {"dead", "closed"}
Readable(s) == out[s] # <<>> \/ Gone(s)

\* What is sent to a trainer that has hung up is lost.
Sent(to, s, m) == IF Gone(s) THEN to ELSE [to EXCEPT ![s] = Append(@, m)]


-----------------------------------------------------------------------------
(* The trainers *)

SendAtrapar(s) ==
  LET t == Owner[s] IN
  /\ tpc[s] = "walk" /\ goal[t] < Len(Goals[t])
  /\ tpc' = [tpc EXCEPT ![s] = "catch"]
  /\ out' = [out EXCEPT ![s] = Append(@, Msg("atrapar", Goals[t][goal[t]]))]
  /\ UNCHANGED <<goal, nombres, in, queues, sessions, selector, dpc, copies, fight, undefined>>

\* map_locate_pokemon and move_to take whatever comes for the answer: the one
\* they asked for, or a message of a battle, which leaves wild coordinates.
RecvLocate(s) ==
  /\ tpc[s] \in {"locate", "walk"} /\ in[s] # <<>>
  /\ tpc' = [tpc EXCEPT ![s] = IF @ = "locate" /\ Head(in[s])[1] = "ubicacion" THEN "walk"
                               ELSE "derailed"]
  /\ in' = [in EXCEPT ![s] = Tail(@)]
  /\ UNCHANGED <<goal, nombres, out, queues, sessions, selector, dpc, copies, fight, undefined>>

\* The best of all the pokemons in its list, which is never emptied: what it
\* caught before it died is there until it catches that objective again.
Best(t) ==
  LET caught == (Range(nombres[t]) \cup {Previous[t]}) \ {NONE} IN
  {p \in caught : \A o \in caught : Level[o] <= Level[p]}

\* The loop of coach_capture_pokemon.
RecvCatch(s) ==
  LET t == Owner[s]
      m == Head(in[s])
  IN
  /\ tpc[s] = "catch" /\ in[s] # <<>>
  /\ in' = [in EXCEPT ![s] = Tail(@)]
  /\ \/ /\ m[1] = "batalla"
        /\ IF Best(t) = {}
           THEN tpc' = [tpc EXCEPT ![s] = "closed"] /\ UNCHANGED out
           ELSE /\ \E p \in Best(t) : out' = [out EXCEPT ![s] = Append(@, Msg("pokemon", p))]
                /\ UNCHANGED tpc
        /\ UNCHANGED <<goal, nombres>>
     \/ /\ m[1] \in {"gano", "perdio", "ubicacion"}
        /\ UNCHANGED <<trainer, out>>
     \/ /\ m[1] = "pokemon"   \* and asks for its next objective
        /\ tpc' = [tpc EXCEPT ![s] = "locate"]
        /\ nombres' = [nombres EXCEPT ![t][goal[t]] = m[2]]
        /\ goal' = [goal EXCEPT ![t] = @ + 1]
        /\ out' = [out EXCEPT ![s] = Append(@, Ubicar(t, goal[t] + 1))]
     \/ /\ m[1] = "victima"   \* it hangs up, and starts the map again if it has lives left
        /\ tpc' = [r \in Sessions |-> IF r = s THEN "dead"
                                      ELSE IF r = NextSession[s] THEN "backlog" ELSE tpc[r]]
        /\ backlog' = IF NextSession[s] = NONE THEN backlog ELSE Append(backlog, NextSession[s])
        /\ goal' = [goal EXCEPT ![t] = 1]
        /\ UNCHANGED <<nombres, out>>
  /\ m[1] # "victima" => UNCHANGED backlog
  /\ UNCHANGED <<queues, sessions, master, lectura, reading, dpc, copies, fight, undefined>>

Quit(s) ==
  /\ Owner[s] \in Quitters /\ tpc[s] \notin {"new", "backlog", "dead", "closed"}
  /\ tpc' = [tpc EXCEPT ![s] = "closed"]
  /\ UNCHANGED <<goal, nombres, sockets, queues, sessions, selector, dpc, copies, fight, undefined>>

-----------------------------------------------------------------------------
(* liberarRecursos2, as one step: each pokemon of s goes to the first blocked  *)
(* trainer that wants one of its PokeNest, which becomes ready, or is put back *)

LiberadosAlMapa(s, bloqueados) ==   \* mutant: nobody who waits is given anything
  [bloqueados |-> bloqueados, listos |-> colaListos, buscada |-> buscada,
   pokemons |-> [pokemons EXCEPT ![s] = <<>>],
   libres |-> [n \in Nests |-> libres[n] \cup {p \in Range(pokemons[s]) : Nest[p] = n}],
   in |-> in, master |-> master]

\* The body of its loop (planificacion.c): what becomes of one pokemon.
GiveOut(a, p) ==
  LET waiting == {k \in DOMAIN a.bloqueados : a.buscada[a.bloqueados[k]] = Nest[p]}
      b == a.bloqueados[Min(waiting)]
  IN IF waiting = {}
     THEN [a EXCEPT !.libres[Nest[p]] = @ \cup {p}]
     ELSE [a EXCEPT !.bloqueados = RemoveAt(@, Min(waiting)),
                    !.listos = @ \cup {b},
                    !.buscada[b] = NONE,
                    !.pokemons[b] = Append(@, p),
                    !.in = Sent(@, b, Msg("pokemon", p)),
                    !.master = @ \ {b}]

Liberados(s, bloqueados) ==
  LET before == [bloqueados |-> bloqueados, listos |-> colaListos, buscada |-> buscada,
                 pokemons |-> [pokemons EXCEPT ![s] = <<>>], libres |-> libres, in |-> in,
                 master |-> master]
      after[i \in 0 .. Len(pokemons[s])] ==
        IF i = 0 THEN before ELSE GiveOut(after[i - 1], pokemons[s][i])
  IN after[Len(pokemons[s])]

\* bloqueados is colaBloqueados and listos what follows of colaListos; the
\* caller may have sent something already.
Liberar(s, bloqueados, unwatched) ==
  LET a == Liberados(s, bloqueados) IN
  /\ colaBloqueados' = a.bloqueados
  /\ buscada' = a.buscada
  /\ pokemons' = a.pokemons
  /\ libres' = a.libres
  /\ in' = a.in
  /\ master' = a.master \ unwatched
  /\ freed' = freed \cup {s}
  /\ entrenadores' = Unlisted(entrenadores, Owner, s)

-----------------------------------------------------------------------------
(* The planner serves some ready trainer: the first, or the nearest *)

\* A trainer that the detector has killed while it was ready is still queued.
PlanFreed(s) ==
  /\ s \in colaListos \cap freed
  /\ undefined' = "freedTrainer"
  /\ UNCHANGED <<trainer, sockets, queues, sessions, selector, dpc, copies, fight>>

Serving(s, kind) ==
  /\ s \in colaListos \ freed /\ out[s] # <<>> /\ Head(out[s])[1] = kind
  /\ out' = [out EXCEPT ![s] = Tail(@)]

PlanUbicar(s) ==
  /\ Serving(s, "ubicar")
  /\ in' = Sent(in, s, Msg("ubicacion", NONE))
  /\ buscada' = [buscada EXCEPT ![s] = Head(out[s])[2]]
  /\ UNCHANGED <<trainer, queues, pokemons, freed, libres, selector, dpc, copies, fight, undefined>>

\* atenderSolicitud captures a pokemon, or bloquearEntrenador follows.
PlanAtrapar(s) ==
  LET n == Head(out[s])[2] IN
  /\ Serving(s, "atrapar")
  /\ IF libres[n] = {}
     THEN /\ colaListos' = colaListos \ {s}
          /\ colaBloqueados' = Append(colaBloqueados, s)
          /\ master' = master \cup {s}
          /\ UNCHANGED <<buscada, pokemons, libres, in>>
     ELSE LET p == CHOOSE x \in libres[n] : TRUE IN
          /\ buscada' = [buscada EXCEPT ![s] = NONE]
          /\ pokemons' = [pokemons EXCEPT ![s] = Append(@, p)]
          /\ libres' = [libres EXCEPT ![n] = @ \ {p}]
          /\ in' = Sent(in, s, Msg("pokemon", p))
          /\ UNCHANGED <<colaListos, colaBloqueados, master>>
  /\ UNCHANGED <<trainer, entrenadores, freed, backlog, lectura, reading, dpc, copies, fight, undefined>>

\* A choice of pokemon that came too late for the detector is ignored.
PlanOther(s) ==
  /\ Serving(s, "pokemon")
  /\ UNCHANGED <<trainer, in, queues, sessions, selector, dpc, copies, fight, undefined>>

PlanGone(s) ==
  /\ s \in colaListos \ freed /\ out[s] = <<>> /\ Gone(s)
  /\ Liberar(s, colaBloqueados, {})
  /\ colaListos' = Liberados(s, colaBloqueados).listos \ {s}
  /\ UNCHANGED <<trainer, out, backlog, lectura, reading, dpc, copies, fight, undefined>>

Plan(s) == PlanFreed(s) \/ PlanUbicar(s) \/ PlanAtrapar(s) \/ PlanOther(s) \/ PlanGone(s)

-----------------------------------------------------------------------------
(* manejar_select *)

BattleUnlocked == FALSE   \* mutant of Battle: manejar_select does not lock deadlock_ejecutando
Battle == dpc \in {"answer", "kill", "release"}   \* deadlock_ejecutando is held

Accept ==
  LET s == Head(backlog) IN
  /\ lectura = {} /\ reading = NONE /\ backlog # <<>>
  /\ backlog' = Tail(backlog)
  /\ tpc' = [tpc EXCEPT ![s] = "locate"]
  /\ out' = [out EXCEPT ![s] = <<Ubicar(Owner[s], 1)>>]
  /\ entrenadores' = Append(entrenadores, s)
  /\ colaListos' = colaListos \cup {s}
  /\ UNCHANGED <<goal, nombres, in, colaBloqueados, sessions, master, lectura, reading, dpc, copies,
                 fight, undefined>>

Select ==
  /\ lectura = {} /\ reading = NONE
  /\ \E s \in master : Readable(s)
  /\ lectura' = {s \in master : Readable(s)}
  /\ UNCHANGED <<trainer, sockets, queues, sessions, backlog, master, reading, dpc, copies, fight, undefined>>

\* buscarEntrenador takes the trainer out of colaBloqueados.
Take(s) ==
  /\ s \in lectura /\ reading = NONE /\ ~Battle
  /\ lectura' = lectura \ {s}
  /\ IF s \in Range(colaBloqueados)
     THEN reading' = s /\ colaBloqueados' = RemoveFirst(colaBloqueados, s)
     ELSE UNCHANGED <<reading, colaBloqueados>>
  /\ UNCHANGED <<trainer, sockets, entrenadores, colaListos, sessions, backlog, master, dpc, copies, fight, undefined>>

\* recv(a, buf, 512) takes all there is, or waits; only the end of the
\* connection is acted upon, and the trainer is in no queue any more.
Read ==
  /\ reading # NONE /\ Readable(reading)
  /\ reading' = NONE
  /\ IF out[reading] # <<>>
     THEN /\ out' = [out EXCEPT ![reading] = <<>>]
          /\ UNCHANGED <<in, queues, sessions, master, undefined>>
     ELSE IF reading \in freed
     THEN /\ undefined' = "freedTrainer"
          /\ UNCHANGED <<sockets, queues, sessions, master>>
     ELSE /\ Liberar(reading, colaBloqueados, {reading})
          /\ colaListos' = Liberados(reading, colaBloqueados).listos
          /\ UNCHANGED <<out, undefined>>
  /\ UNCHANGED <<trainer, backlog, lectura, dpc, copies, fight>>

Main == Accept \/ Select \/ (\E s \in Sessions : Take(s)) \/ Read

-----------------------------------------------------------------------------
(* The reduction of the matrices, lines 88-120 *)

Columns == DOMAIN PokeNests

\* State of the reduction: utilizados and pedidos by row and column, atendido,
\* pokemonsDisponibles by column, the word after it (wild), and the two flags.
Matrices(wild) ==
  [utilizados |-> [i \in DOMAIN filas |-> [c \in Columns |->
                     Cardinality({k \in DOMAIN pokemons[filas[i]] : Nest[pokemons[filas[i]][k]] = PokeNests[c]})]],
   pedidos    |-> [i \in DOMAIN filas |-> [c \in Columns |-> pedida[i] = PokeNests[c]]],
   atendido   |-> [i \in DOMAIN filas |-> FALSE],
   disp       |-> [c \in Columns |-> Cardinality(libres[PokeNests[c]])],
   wild |-> wild, tieneUnPedido |-> FALSE, hayDeadlock |-> FALSE]

Asked(m, i) == {c \in Columns : m.pedidos[i][c]}

\* A row whose request can be met is served: it keeps what it holds.
Serve(m, i, c) ==
  [m EXCEPT !.utilizados[i][c] = @ + 1, !.disp[c] = @ - 1, !.pedidos[i][c] = FALSE,
            !.atendido[i] = TRUE, !.hayDeadlock = FALSE, !.tieneUnPedido = TRUE]

\* tieneUnPedido is never reset.  For a row without a request after one that has
\* one the column is one past the last: what is read there is whatever follows
\* pokemonsDisponibles, and what is written is the first column of the next row,
\* or, after the last row, padding or the variables that follow the matrices.
Overrun(m, i, padded) ==
  LET n == [m EXCEPT !.wild = @ - 1, !.atendido[i] = TRUE, !.hayDeadlock = FALSE] IN
  IF i + 1 \in DOMAIN m.atendido
  THEN [n EXCEPT !.utilizados[i + 1][1] = @ + 1, !.pedidos[i + 1][1] = FALSE]
  ELSE IF padded THEN n
  ELSE [n EXCEPT !.atendido[1] = TRUE, !.utilizados[1][1] = 0]

GiveBack(m, i) ==
  [m EXCEPT !.disp = [c \in Columns |-> @[c] + m.utilizados[i][c]],
            !.utilizados[i] = [c \in Columns |-> 0], !.atendido[i] = TRUE]

VisitAtZero(m, i, padded) ==   \* mutant of Visit: >= for >
  LET asked == Asked(m, i)
      c == Min(asked)
  IN IF asked # {} /\ m.disp[c] >= 0 THEN Serve(m, i, c)
     ELSE IF asked # {} THEN [m EXCEPT !.tieneUnPedido = TRUE]
     ELSE IF m.tieneUnPedido THEN m ELSE GiveBack(m, i)

Visit(m, i, padded) ==
  LET asked == Asked(m, i)
      c == Min(asked)
  IN CASE asked # {} /\ m.disp[c] > 0 -> Serve(m, i, c)
       [] asked # {} /\ m.disp[c] <= 0 -> [m EXCEPT !.tieneUnPedido = TRUE]
       [] asked = {} /\ m.tieneUnPedido -> IF m.wild > 0 THEN Overrun(m, i, padded) ELSE m
       [] asked = {} /\ ~m.tieneUnPedido -> GiveBack(m, i)

Pass(m, padded) ==
  LET rows == Cardinality(DOMAIN m.atendido)
      after[i \in 0 .. rows] ==
        IF i = 0 THEN [m EXCEPT !.hayDeadlock = @ \/ rows >= 2]
                 ELSE Visit(after[i - 1], i, padded)
  IN after[rows]

Stops(m) == m.hayDeadlock \/ \A i \in DOMAIN m.atendido : m.atendido[i]

\* Every pass that does not stop serves a request or takes one off wild, or
\* changes nothing: then there is one row, and it goes on for ever.
Reduce(m, padded) ==
  LET passes == Cardinality(DOMAIN m.atendido) + m.wild + 2
      after[k \in 0 .. passes] ==
        IF k = 0 THEN m
        ELSE LET before == after[k - 1] IN
             IF Stops(before) THEN before ELSE Pass(before, padded)
  IN after[passes]

-----------------------------------------------------------------------------
(* detectarDeadlock *)

DuplicateBlocked ==   \* mutant of DetectDuplicate: what they want is copied from colaBloqueados
  /\ dpc = "sleep"
  /\ filas' = entrenadores
  /\ pedida' = [i \in DOMAIN colaBloqueados |-> buscada[colaBloqueados[i]]]
  /\ dpc' = "reduce"
  /\ UNCHANGED <<trainer, sockets, queues, sessions, selector, fight, undefined>>

DetectDuplicate ==
  /\ dpc = "sleep"
  /\ filas' = entrenadores
  /\ pedida' = [i \in DOMAIN entrenadores |-> buscada[entrenadores[i]]]
  /\ dpc' = "reduce"
  /\ UNCHANGED <<trainer, sockets, queues, sessions, selector, fight, undefined>>

Forget ==
  /\ dpc' = "sleep" /\ filas' = <<>> /\ pedida' = <<>>
  /\ deadlockeados' = <<>> /\ perdedor' = NONE /\ elegido' = FALSE

\* Those not attended to that hold something one of them wants.
Suspects(m) ==
  LET unattended == {i \in DOMAIN filas : ~m.atendido[i]}
      objetivos == {pedida[i] : i \in unattended}
      retiene(i) == \E k \in DOMAIN pokemons[filas[i]] : Nest[pokemons[filas[i]][k]] \in objetivos
      chosen == {i \in unattended : retiene(i)}
  IN [k \in 1 .. Cardinality(chosen) |->
        filas[CHOOSE i \in chosen : Cardinality({j \in chosen : j <= i}) = k]]

\* The copies share their lists of pokemons with the trainers: one released
\* meanwhile has left a destroyed list, which looks empty or breaks the map.
DetectReduce ==
  /\ dpc = "reduce"
  /\ \/ /\ \E wild \in 0 .. MaxWild, padded \in BOOLEAN :
             LET m == Reduce(Matrices(wild), padded)
             IN IF ~Stops(m)
                THEN dpc' = "spin" /\ UNCHANGED <<copies, fight>>
                ELSE IF Len(Suspects(m)) < 2
                THEN Forget
                ELSE /\ deadlockeados' = Suspects(m)
                     /\ dpc' = "confirm"
                     /\ UNCHANGED <<copies, perdedor, elegido>>
        /\ UNCHANGED undefined
     \/ /\ Range(filas) \cap freed # {}
        /\ undefined' = "freedCopy"
        /\ UNCHANGED <<dpc, copies, fight>>
  /\ UNCHANGED <<trainer, sockets, queues, sessions, selector>>

\* estaBloqueado compares symbols.
SinConfirmar(s) == TRUE   \* mutant of EstaBloqueado: the second look at line 159 is left out
EstaBloqueado(s) == \E r \in Range(colaBloqueados) : Owner[r] = Owner[s]

DetectConfirm ==
  /\ dpc = "confirm"
  /\ IF \A s \in Range(deadlockeados) : EstaBloqueado(s)
     THEN dpc' = "lock" /\ UNCHANGED <<copies, fight>>
     ELSE Forget
  /\ UNCHANGED <<trainer, sockets, queues, sessions, selector, undefined>>

\* mandarAPelear asks entrenador1, then entrenador2.
Asking == IF elegido THEN Head(deadlockeados) ELSE perdedor

AskBattle(to, s) == Sent(to, s, Msg("batalla", NONE))

DetectLock ==
  /\ dpc = "lock"
  /\ perdedor' = Head(deadlockeados)
  /\ deadlockeados' = Tail(deadlockeados)
  /\ in' = AskBattle(in, Head(deadlockeados))
  /\ dpc' = "answer"
  /\ UNCHANGED <<trainer, out, queues, sessions, selector, copies, elegido, undefined>>

\* What comes is looked up among the pokemons the trainer has in this map;
\* nothing found, or nothing received, is a pointer that leads nowhere.
Answered == out[Asking] # <<>> /\ Head(out[Asking])[1] = "pokemon"

DetectAnswer ==
  /\ dpc = "answer" /\ Answered
  /\ Head(out[Asking])[2] \in Range(pokemons[Asking])
  /\ out' = [out EXCEPT ![Asking] = Tail(@)]
  /\ IF ~elegido
     THEN /\ elegido' = TRUE
          /\ in' = AskBattle(in, Head(deadlockeados))
          /\ UNCHANGED <<dpc, deadlockeados, perdedor>>
     ELSE \E loser \in {perdedor, Asking} :
          LET winner == IF loser = perdedor THEN Asking ELSE perdedor
              told == Sent(Sent(in, winner, Msg("gano", NONE)), loser, Msg("perdio", NONE))
          IN
          /\ perdedor' = loser
          /\ deadlockeados' = Tail(deadlockeados)
          /\ elegido' = FALSE
          /\ IF Len(deadlockeados) = 1
             THEN dpc' = "kill" /\ in' = told
             ELSE UNCHANGED dpc /\ in' = AskBattle(told, loser)
  /\ UNCHANGED <<trainer, queues, sessions, selector, copies, undefined>>

DetectWild ==
  /\ dpc = "answer"
  /\ \/ /\ Answered /\ Head(out[Asking])[2] \notin Range(pokemons[Asking])
        /\ undefined' = IF Asking \in freed THEN "freedTrainer" ELSE "stalePick"
     \/ /\ out[Asking] # <<>> /\ ~Answered
        /\ undefined' = "moved"
     \/ /\ out[Asking] = <<>> /\ tpc[Asking] \in {"walk", "derailed"}
        /\ undefined' = "moved"
     \/ /\ out[Asking] = <<>> /\ Gone(Asking)
        /\ undefined' = "gone"
  /\ UNCHANGED <<trainer, sockets, queues, sessions, selector, dpc, copies, fight>>

\* matarEntrenador
DetectKill ==
  /\ dpc = "kill"
  /\ in' = Sent(in, perdedor, Msg("victima", NONE))
  /\ master' = master \ {perdedor}
  /\ dpc' = "release"
  /\ UNCHANGED <<trainer, out, queues, sessions, backlog, lectura, reading, copies, fight, undefined>>

\* The copy of the loser is freed by liberarEntrenador and again at the end of
\* the check: the map breaks, or goes on.
DetectRelease ==
  /\ dpc = "release"
  /\ IF perdedor \in freed
     THEN /\ undefined' = "freedTrainer"
          /\ UNCHANGED <<in, queues, sessions, master, dpc, copies, fight>>
     ELSE LET rest == RemoveFirst(colaBloqueados, perdedor) IN
          /\ Liberar(perdedor, rest, {})
          /\ colaListos' = Liberados(perdedor, rest).listos
          /\ Forget
          /\ undefined' \in {"no", "doubleFree"}
  /\ UNCHANGED <<trainer, out, backlog, lectura, reading>>

Detect ==
  \/ DetectDuplicate \/ DetectReduce \/ DetectConfirm \/ DetectLock
  \/ DetectAnswer \/ DetectWild \/ DetectKill \/ DetectRelease

Step(s) == SendAtrapar(s) \/ RecvLocate(s) \/ RecvCatch(s)

Next ==
  /\ Defined
  /\ \/ \E s \in Sessions : Step(s) \/ Quit(s) \/ Plan(s)
     \/ Main \/ Detect

Spec == Init /\ [][Next]_vars

-----------------------------------------------------------------------------
(* Properties *)

HasQuit(t) == \E s \in Sessions : Owner[s] = t /\ tpc[s] = "closed"
HasDied(t) == \E s \in Sessions : Owner[s] = t /\ tpc[s] = "dead"

\* A trainer that waits for a capture and that nobody will serve.
Lost == {s \in Sessions : /\ tpc[s] = "catch" /\ in[s] = <<>> /\ out[s] = <<>>
                          /\ s \notin Range(colaBloqueados) \cup colaListos}

\* manejar_select takes a trainer off colaBloqueados to read it and never puts
\* it back (nivel-test.c:176-191), so that while it reads that one is in no
\* queue.  deadlock_ejecutando keeps it from taking one in a battle; but one
\* that answered in a battle, and was reported by select meanwhile, may be taken
\* just before the next battle locks (deteccionDeadlock.c:172-178).  Both threads
\* then wait for its answer, and if the select thread gets it the detector
\* waits for ever.  Nobody else is lost, and nobody before a first release.
LostIsBeingRead ==
  \/ Lost \subseteq {reading}
  \/ freed # {} /\ dpc = "answer" /\ Lost = {Asking}

\* What can break the map in a check.  A pokemon chosen for a battle that the
\* trainer does not have here (deteccionDeadlock.c:355-356) is one of another
\* map or of a life before.  A trainer that is not where the battle expects it,
\* or copied and destroyed, takes a trainer that hung up: nobody who fights is
\* served in the meantime.  So does one that is used after it is destroyed, but
\* for the second that dies, if it was taken to be read just before the battle.
\* And a check that does not end (91-94) has one trainer only.
BreaksForACause ==
  /\ undefined = "stalePick" =>
       LET t == Owner[Asking] IN HasDied(t) \/ Head(out[Asking])[2] = Previous[t]
  /\ undefined \in {"moved", "gone", "freedCopy"} => \E t \in Trainers : HasQuit(t)
  /\ undefined = "freedTrainer" =>
       \/ \E t \in Trainers : HasQuit(t)
       \/ \E r, s \in freed : r # s /\ tpc[s] = "dead"
  /\ dpc = "spin" => Len(filas) = 1

\* Those of a set of trainers that can never go on unless one is killed or
\* hangs up: nothing they want is free, and only they hold it.
Holders(n) == {s \in Sessions : \E k \in DOMAIN pokemons[s] : Nest[pokemons[s][k]] = n}
Deadlocks(W) ==
  {D \in SUBSET W : \A s \in D : libres[buscada[s]] = {} /\ Holders(buscada[s]) \subseteq D}
Stuck(W) == UNION Deadlocks(W)

\* The copies that were made of blocked trainers.
Copied == {filas[i] : i \in {j \in DOMAIN filas : /\ filas[j] \in Range(colaBloqueados)
                                                  /\ pedida[j] = buscada[filas[j]]}}

\* The reduction finds every deadlock: as long as the word after
\* pokemonsDisponibles is not positive, no trainer of a deadlock that was there
\* when the trainers were copied is attended to (91-120).
DeadlockIsFound ==
  dpc = "reduce" /\ Range(filas) \cap freed = {} =>
    LET m == Reduce(Matrices(0), TRUE)
    IN \A i \in DOMAIN filas : filas[i] \in Stuck(Copied) => ~m.atendido[i]

\* The death of a trainer of a deadlock, if there is none without it, lets
\* another of those blocked go on, however the fights ended and whoever hung up
\* in between (178-191, 270-286).  Who merely waits for one of a deadlock may
\* die for nothing: what it holds may be wanted by nobody who is blocked.
DeathFreesSomeone ==
  [][DetectRelease /\ undefined' # "freedTrainer"
     /\ (\E D \in Deadlocks(Range(colaBloqueados)) :
           perdedor \in D /\ D \ {perdedor} \notin Deadlocks(D)) =>
       \E s \in Range(colaBloqueados) \ {perdedor} : s \notin Range(colaBloqueados')]_vars
-----------------------------------------------------------------------------
(* The inductive invariant *)

Has(q, kind) == \E i \in DOMAIN q : q[i][1] = kind
Once(q, kind) == \A i, j \in DOMAIN q : q[i][1] = kind /\ q[j][1] = kind => i = j
Given(q, X) == \A i \in DOMAIN q : q[i][1] = "pokemon" => q[i][2] \in X

Open(s)  == tpc[s] \in {"locate", "walk", "catch", "derailed"}
Blocked  == Range(colaBloqueados)
Fighters == Range(deadlockeados) \cup {perdedor}

\* One session of a trainer at a time; what has not begun is nowhere.
Outside(s) ==
  /\ in[s] = <<>> /\ out[s] = <<>> /\ pokemons[s] = <<>>
  /\ s \notin Blocked \cup colaListos \cup master \cup lectura \cup {reading} \cup freed
  /\ s \notin Range(entrenadores) \cup Range(filas) \cup Fighters

Journeys ==
  /\ IsInjective(backlog)
  /\ \A s \in Sessions :
       /\ tpc[s] = "backlog" <=> s \in Range(backlog)
       /\ tpc[s] \in {"new", "backlog"} => Outside(s)
       /\ tpc[s] # "dead" /\ NextSession[s] # NONE => tpc[NextSession[s]] = "new"
       /\ tpc[s] = "catch" => goal[Owner[s]] < Len(Goals[Owner[s]])
  /\ \A s, r \in Sessions :
       Owner[s] = Owner[r] /\ tpc[s] \notin {"new", "dead"} /\ tpc[r] \notin {"new", "dead"} =>
         s = r

\* A trainer waits for one answer to one request; without a request on its way
\* it is blocked, or on its way out, or lost.
Eaten(s) ==
  /\ dpc = "answer" /\ s = Asking /\ s \notin Blocked \cup colaListos
  /\ reading = NONE /\ freed # {}
  /\ ~Has(in[s], "batalla") /\ ~Has(out[s], "pokemon")

Placed(s) ==
  \/ s \in Blocked \cup colaListos \cup {reading}
  \/ s \in freed /\ Has(in[s], "victima")
  \/ Eaten(s)

Requests(s) ==
  /\ \A kind \in {"ubicar", "atrapar"} : Once(out[s], kind)
  /\ \A kind \in {"ubicacion", "pokemon"} : Once(in[s], kind)
  /\ ~(Has(out[s], "ubicar") /\ Has(in[s], "ubicacion"))
  /\ Has(out[s], "atrapar") =>
       /\ s \in colaListos /\ buscada[s] \in Nests
       /\ tpc[s] \in {"catch", "dead", "closed"}
  /\ tpc[s] = "locate" =>
       /\ s \in colaListos /\ ~Has(in[s], "pokemon")
       /\ Has(in[s], "ubicacion") => buscada[s] \in Nests
  /\ tpc[s] = "walk" =>
       /\ s \in colaListos /\ ~Has(in[s], "pokemon") /\ ~Has(in[s], "ubicacion")
       /\ ~Has(out[s], "ubicar") /\ buscada[s] \in Nests
  /\ tpc[s] = "derailed" => s \in colaListos
  /\ tpc[s] = "dead" => ~Has(out[s], "ubicar")
  /\ tpc[s] = "catch" =>
       /\ ~Has(out[s], "ubicar") /\ ~Has(in[s], "ubicacion")
       /\ Has(in[s], "pokemon") => s \in colaListos /\ ~Has(out[s], "atrapar")
       /\ Placed(s)

\* The detector waits for what it asked of one trainer.
Battling(s) ==
  /\ Once(in[s], "batalla") /\ Once(out[s], "pokemon")
  /\ ~(Has(in[s], "batalla") /\ Has(out[s], "pokemon"))
  /\ Has(in[s], "batalla") \/ Has(out[s], "pokemon") => dpc = "answer" /\ s = Asking
  /\ Has(in[s], "victima") \/ tpc[s] = "dead" =>
       s \in freed \/ (dpc = "release" /\ s = perdedor)

Queues ==
  /\ IsInjective(colaBloqueados) /\ IsInjective(entrenadores) /\ IsInjective(filas)
  /\ \A s \in Blocked : /\ s \notin colaListos \cup freed \cup {reading}
                        /\ buscada[s] \in Nests
  /\ reading \notin colaListos

Detector ==
  /\ dpc \in {"confirm", "lock"} => Len(deadlockeados) >= 2
  /\ dpc = "answer" => deadlockeados # <<>>
  /\ dpc \in {"answer", "kill", "release"} <=> perdedor # NONE
  /\ dpc # "answer" => elegido = FALSE
  /\ dpc = "release" => \/ tpc[perdedor] \in {"dead", "closed", "derailed"}
                        \/ Has(in[perdedor], "victima")
  /\ dpc = "spin" => Len(filas) = 1

\* What is reported before anybody was released has hung up.
Unreleased ==
  freed = {} =>
    /\ reading # NONE => Gone(reading)
    /\ ~Battle => \A s \in lectura : Gone(s)
    /\ \A s \in master : s \in Blocked \/ Gone(s)

\* While nobody hangs up those who fight are blocked, but for the one that is read.
Quiet == \A s \in Sessions : tpc[s] # "closed"

InQuiet ==
  Quiet =>
    /\ colaListos \cap freed = {} /\ Range(entrenadores) \cap freed = {}
    /\ reading # NONE => \E r \in freed : r # reading
    /\ \A i, j \in DOMAIN entrenadores :
         i < j /\ Owner[entrenadores[i]] = Owner[entrenadores[j]] =>
           dpc = "release" /\ entrenadores[i] = perdedor /\ entrenadores[j] # perdedor
    /\ dpc \in {"reduce", "confirm"} => Range(filas) \cap freed = {}
    /\ dpc \in {"confirm", "lock", "answer", "kill"} => Fighters \cap freed = {}
    /\ dpc = "lock" => \A s \in Range(deadlockeados) : s \in Blocked \cup {reading}
    /\ dpc = "answer" => \A s \in Fighters : s \in Blocked \cup {reading} \/ Eaten(s)
    /\ dpc = "kill" => perdedor \in Blocked \cup {reading}
    /\ dpc = "release" =>
         IF perdedor \in freed
         THEN tpc[perdedor] = "dead" /\ \E r \in freed : r # perdedor
         ELSE perdedor \in Blocked \cup {reading}

\* A trainer in its first session has here what it was given here.
Picks ==
  \A s \in Sessions : s \notin freed =>
    /\ Given(in[s], Range(pokemons[s]))
    /\ ~HasDied(Owner[s]) /\ tpc[s] # "new" =>
         /\ Range(nombres[Owner[s]]) \subseteq Range(pokemons[s]) \cup {NONE}
         /\ Given(out[s], Range(pokemons[s]) \cup {Previous[Owner[s]]})

IInv ==
  /\ TypeOK
  /\ Journeys
  /\ \A s \in Sessions : Requests(s) /\ Battling(s)
  /\ Queues
  /\ Detector
  /\ Unreleased
  /\ InQuiet
  /\ Picks
  /\ BreaksForACause
=============================================================================
