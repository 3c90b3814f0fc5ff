-------------------------------- MODULE Mapa --------------------------------
(***************************************************************************)
(* A map of the game (mapas/) and the trainers that visit it (entrenador/).*)
(*                                                                         *)
(* Two threads of the map share the queues of ready and blocked trainers,  *)
(* the pokemons of every PokeNest and the set of watched sockets:          *)
(*   "plan"  planificar, which serves one ready trainer at a time by RR or *)
(*           by shortest distance first (SRDF);                            *)
(*   "main"  manejar_select, which takes connections and notices that a    *)
(*           blocked trainer has hung up.                                  *)
(* A trainer that hangs up gives its pokemons back (liberarRecursos2): to  *)
(* the first blocked trainer that wants one of that PokeNest, or else to   *)
(* the PokeNest.  The deadlock detector is a module of its own             *)
(* (DeteccionDeadlock); with batalla = 0, as here, it only reads.          *)
(*                                                                         *)
(* A session is one connection of a trainer.  It is synchronous: a trainer *)
(* that has sent a request waits for the answer, so an answer is delivered *)
(* by the step that sends it, and one to a trainer that is gone is lost.   *)
(* Positions are abstracted to the distance from the PokeNest looked for.  *)
(***************************************************************************)
EXTENDS ListaEntrenadores

CONSTANTS
  Sessions,     \* connections, each used once
  Owner,        \* the trainer (its simbolo) of each session
  Goals,        \* the PokeNests each session visits, in order
  PokeNests,
  Pokemons,
  Nest,         \* the PokeNest each pokemon belongs to
  Algorithms,   \* values of algoritmo in the metadata
  Quantum,      \* turns of a round-robin slice
  MaxDistance,  \* bound on the distance to a PokeNest
  MaxReloads,   \* bound on the SIGUSR1 the map receives
  LISTENER,     \* the listening socket
  NONE          \* no session, no PokeNest, no pokemon

Threads == {"plan", "main"}

ASSUME MapaAssumption ==
  /\ Goals \in [Sessions -> Seq(PokeNests) \ {<<>>}]
  /\ Nest \in [Pokemons -> PokeNests]
  /\ DOMAIN Owner = Sessions
  /\ IsFiniteSet(Pokemons)
  /\ Algorithms \subseteq {"RR", "SRDF"}
  /\ Quantum \in Nat \ {0} /\ MaxDistance \in Nat /\ MaxReloads \in Nat
  /\ LISTENER \notin Sessions
  /\ NONE \notin Sessions \cup PokeNests \cup Pokemons

VARIABLES
  tpc,            \* where the trainer of each session is
  goals,          \* its remaining objectives
  out,            \* what it has sent and the map has not read
  entrenadores,   \* the list of all trainers
  colaListos, colaBloqueados,
  buscada,        \* t_entrenador.pokenest_buscada
  distance,       \* from its position to that PokeNest
  pokemons,       \* t_entrenador.pokemons
  ultimo,         \* t_entrenador.ultimo_pokemon
  freed,          \* sessions whose t_entrenador has been freed
  listaPokemons,  \* the pokemons in each PokeNest
  cantidad,       \* PokeNest.cantidad
  master,         \* the sockets select() watches
  lectura,        \* those it reported
  pc,             \* where each thread is
  cur,            \* the session each thread works on
  asked,          \* whose OC_OBTENER_CANTIDAD_DEADLOCK a thread waits for
  hand,           \* the pokemon a thread has just put back
  mode, q,        \* how "plan" serves the current trainer, and its turns so far
  turno, bloqueados,  \* owners of mutex_turno_desbloqueo, mutex_cola_bloqueados
  algoritmo,
  reloads,
  alive           \* FALSE once the map has exited or its behaviour is undefined

trainer   == <<tpc, goals, out>>
queues    == <<entrenadores, colaListos, colaBloqueados>>
sessions  == <<buscada, distance, pokemons, ultimo, freed>>
nests     == <<listaPokemons, cantidad>>
sockets   == <<master, lectura>>
threads   == <<pc, cur, asked, hand, mode, q>>
mutexes   == <<turno, bloqueados>>
config    == <<algoritmo, reloads>>
vars == <<trainer, queues, sessions, nests, sockets, threads, mutexes, config, alive>>

Messages == {"ubicar", "avanzar", "atrapar", "ultimo", "junk"}
Places   == {"new", "connecting", "quit", "connected", "ask", "locating", "walk", "moving", "catching", "closed"}
Steps    == {"idle", "nearest", "serve", "captured", "last", "requeue", "block", "select",
             "loop", "handshake", "recv", "hangup", "lock", "release", "giveback", "await"}

TypeOK ==
  /\ tpc \in [Sessions -> Places]
  /\ goals \in [Sessions -> Seq(PokeNests)]
  /\ out \in [Sessions -> Seq(Messages)]
  /\ entrenadores \in Seq(Sessions) /\ colaListos \in Seq(Sessions) /\ colaBloqueados \in Seq(Sessions)
  /\ buscada \in [Sessions -> PokeNests \cup {NONE}]
  /\ distance \in [Sessions -> 0 .. MaxDistance]
  /\ pokemons \in [Sessions -> Seq(Pokemons)]
  /\ ultimo \in [Sessions -> BOOLEAN]
  /\ freed \subseteq Sessions
  /\ listaPokemons \in [PokeNests -> SUBSET Pokemons]
  /\ cantidad \in [PokeNests -> Int]
  /\ master \subseteq Sessions /\ lectura \subseteq Sessions \cup {LISTENER}
  /\ pc \in [Threads -> Steps]
  /\ cur \in [Threads -> Sessions \cup {NONE}] /\ asked \in [Threads -> Sessions \cup {NONE}]
  /\ hand \in [Threads -> Pokemons \cup {NONE}]
  /\ mode \in {"quantum", "once", "until"} /\ q \in 0 .. Quantum
  /\ turno \in Threads \cup {NONE} /\ bloqueados \in Threads \cup {NONE}
  /\ algoritmo \in Algorithms /\ reloads \in 0 .. MaxReloads
  /\ alive \in BOOLEAN

Init ==
  /\ tpc = [s \in Sessions |-> "new"]
  /\ goals = Goals
  /\ out = [s \in Sessions |-> <<>>]
  /\ entrenadores = <<>> /\ colaListos = <<>> /\ colaBloqueados = <<>>
  /\ buscada = [s \in Sessions |-> NONE]
  /\ distance = [s \in Sessions |-> 0]
  /\ pokemons = [s \in Sessions |-> <<>>]
  /\ ultimo = [s \in Sessions |-> FALSE]
  /\ freed = {}
  /\ listaPokemons = [n \in PokeNests |-> {p \in Pokemons : Nest[p] = n}]
  /\ cantidad = [n \in PokeNests |-> Cardinality({p \in Pokemons : Nest[p] = n})]
  /\ master = {} /\ lectura = {}
  /\ pc = [th \in Threads |-> IF th = "plan" THEN "idle" ELSE "select"]
  /\ cur = [th \in Threads |-> NONE] /\ asked = [th \in Threads |-> NONE]
  /\ hand = [th \in Threads |-> NONE]
  /\ mode = "quantum" /\ q = 0
  /\ turno = NONE /\ bloqueados = NONE
  /\ algoritmo \in Algorithms /\ reloads = 0
  /\ alive = TRUE

Set(v, k, x) == [v EXCEPT ![k] = x]
Goto(th, step) == pc' = Set(pc, th, step)
Gone(s) == tpc[s] = "closed"
Readable(s) == out[s] # <<>> \/ Gone(s)

\* The trainer goes on, unless it has hung up meanwhile.
Proceed(s, place) == tpc' = IF Gone(s) THEN tpc ELSE Set(tpc, s, place)

-----------------------------------------------------------------------------
(* The trainer *)

\* The sessions of one trainer follow each other (zero_lives, next attempt).
Connect(s) ==
  /\ tpc[s] = "new"
  /\ \A r \in Sessions \ {s} : Owner[r] = Owner[s] => tpc[r] \in {"new", "quit", "closed"}
  /\ tpc' = Set(tpc, s, "connecting")
  /\ UNCHANGED <<goals, out, queues, sessions, nests, sockets, threads, mutexes, config, alive>>

SendMovesOnce(s) ==   \* mutant of Send: it moves before it compares the coordinates
  /\ goals[s] # <<>>
  /\ \/ /\ tpc[s] = "ask"
        /\ tpc' = Set(tpc, s, "locating")
        /\ out' = Set(out, s, Append(out[s], "ubicar"))
     \/ /\ tpc[s] = "walk"
        /\ tpc' = Set(tpc, s, "moving")
        /\ out' = Set(out, s, Append(out[s], "avanzar"))
     \/ /\ tpc[s] = "walk" /\ distance[s] = 0
        /\ tpc' = Set(tpc, s, "catching")
        /\ IF Len(goals[s]) > 1
           THEN out' = Set(out, s, Append(out[s], "atrapar"))
           ELSE \E rest \in {<<>>, <<"junk">>} : out' = Set(out, s, out[s] \o <<"ultimo">> \o rest)
  /\ UNCHANGED <<goals, queues, sessions, nests, sockets, threads, mutexes, config, alive>>

\* The next request of completar_mapa.  connection_send has no case for
\* OC_ATRAPAR_ULTIMO_POKEMON: the length it sends was never assigned, so the
\* map, which reads no message for that code, finds any number of bytes.
Send(s) ==
  /\ goals[s] # <<>>
  /\ \/ /\ tpc[s] = "ask"
        /\ tpc' = Set(tpc, s, "locating")
        /\ out' = Set(out, s, Append(out[s], "ubicar"))
     \/ /\ tpc[s] = "walk" /\ distance[s] > 0
        /\ tpc' = Set(tpc, s, "moving")
        /\ out' = Set(out, s, Append(out[s], "avanzar"))
     \/ /\ tpc[s] = "walk" /\ distance[s] = 0
        /\ tpc' = Set(tpc, s, "catching")
        /\ IF Len(goals[s]) > 1
           THEN out' = Set(out, s, Append(out[s], "atrapar"))
           ELSE \E rest \in {<<>>, <<"junk">>} : out' = Set(out, s, out[s] \o <<"ultimo">> \o rest)
  /\ UNCHANGED <<goals, queues, sessions, nests, sockets, threads, mutexes, config, alive>>

\* The trainer hangs up: its objectives are met, or it was interrupted.  A
\* connection that the map has not accepted yet stays in its backlog.
Close(s) ==
  /\ tpc[s] \notin {"new", "quit", "closed"}
  /\ tpc' = Set(tpc, s, IF tpc[s] = "connecting" THEN "quit" ELSE "closed")
  /\ UNCHANGED <<goals, out, queues, sessions, nests, sockets, threads, mutexes, config, alive>>

-----------------------------------------------------------------------------
(* Giving pokemons back: liberarRecursos2, called by both threads *)

\* The positions in colaBloqueados of those who want a pokemon of n.
Waiting(n) == {i \in DOMAIN colaBloqueados : buscada[colaBloqueados[i]] = n}

\* Both mutexes are taken, in the same order by both threads.
Lock(th) ==
  /\ pc[th] = "lock" /\ turno = NONE /\ bloqueados = NONE
  /\ turno' = th /\ bloqueados' = th
  /\ Goto(th, "release")
  /\ UNCHANGED <<trainer, queues, sessions, nests, sockets, cur, asked, hand, mode, q, config, alive>>

ReassignKeeps(th) ==   \* mutant of Reassign: list_get instead of list_remove
  LET s == cur[th]
      p == Head(pokemons[s])
      i == CHOOSE k \in Waiting(Nest[p]) : \A l \in Waiting(Nest[p]) : k <= l
      b == colaBloqueados[i]
  IN
  /\ pc[th] = "release" /\ pokemons[s] # <<>> /\ Waiting(Nest[p]) # {}
  /\ pokemons' = [pokemons EXCEPT ![b] = Append(@, p)]
  /\ buscada' = Set(buscada, b, NONE)
  /\ Proceed(b, "ask")
  /\ goals' = IF Gone(b) THEN goals ELSE Set(goals, b, Tail(goals[b]))
  /\ IF ultimo[b]
     THEN /\ asked' = Set(asked, th, b)
          /\ Goto(th, "await")
          /\ UNCHANGED <<colaBloqueados, colaListos, master>>
     ELSE /\ colaBloqueados' = RemoveAt(colaBloqueados, i)
          /\ colaListos' = Append(colaListos, b)
          /\ master' = master \ {b}
          /\ UNCHANGED <<asked, pc>>
  /\ UNCHANGED <<out, entrenadores, distance, ultimo, freed, nests, lectura, cur, hand, mode, q,
                 mutexes, config, alive>>

ReassignStaysBlocked(th) ==   \* mutant of Reassign: the trainer stays in colaBloqueados
  LET s == cur[th]
      p == Head(pokemons[s])
      i == CHOOSE k \in Waiting(Nest[p]) : \A l \in Waiting(Nest[p]) : k <= l
      b == colaBloqueados[i]
  IN
  /\ pc[th] = "release" /\ pokemons[s] # <<>> /\ Waiting(Nest[p]) # {}
  /\ pokemons' = [pokemons EXCEPT ![s] = Tail(@), ![b] = Append(@, p)]
  /\ buscada' = Set(buscada, b, NONE)
  /\ Proceed(b, "ask")
  /\ goals' = IF Gone(b) THEN goals ELSE Set(goals, b, Tail(goals[b]))
  /\ IF ultimo[b]
     THEN /\ asked' = Set(asked, th, b)
          /\ Goto(th, "await")
          /\ UNCHANGED <<colaBloqueados, colaListos, master>>
     ELSE /\ UNCHANGED colaBloqueados
          /\ colaListos' = Append(colaListos, b)
          /\ master' = master \ {b}
          /\ UNCHANGED <<asked, pc>>
  /\ UNCHANGED <<out, entrenadores, distance, ultimo, freed, nests, lectura, cur, hand, mode, q,
                 mutexes, config, alive>>

\* A pokemon goes to the first blocked trainer that wants it, which becomes
\* ready; or, if this was its last one, is asked for its deadlocks.
Reassign(th) ==
  LET s == cur[th]
      p == Head(pokemons[s])
      i == CHOOSE k \in Waiting(Nest[p]) : \A l \in Waiting(Nest[p]) : k <= l
      b == colaBloqueados[i]
  IN
  /\ pc[th] = "release" /\ pokemons[s] # <<>> /\ Waiting(Nest[p]) # {}
  /\ pokemons' = [pokemons EXCEPT ![s] = Tail(@), ![b] = Append(@, p)]
  /\ buscada' = Set(buscada, b, NONE)
  /\ Proceed(b, "ask")
  /\ goals' = IF Gone(b) THEN goals ELSE Set(goals, b, Tail(goals[b]))
  /\ IF ultimo[b]
     THEN /\ asked' = Set(asked, th, b)
          /\ Goto(th, "await")
          /\ UNCHANGED <<colaBloqueados, colaListos, master>>
     ELSE /\ colaBloqueados' = RemoveAt(colaBloqueados, i)
          /\ colaListos' = Append(colaListos, b)
          /\ master' = master \ {b}
          /\ UNCHANGED <<asked, pc>>
  /\ UNCHANGED <<out, entrenadores, distance, ultimo, freed, nests, lectura, cur, hand, mode, q,
                 mutexes, config, alive>>

\* Or it goes back to its PokeNest, which is counted in a step of its own.
PutBack(th) ==
  LET s == cur[th]
      p == Head(pokemons[s])
  IN
  /\ pc[th] = "release" /\ pokemons[s] # <<>> /\ Waiting(Nest[p]) = {}
  /\ pokemons' = Set(pokemons, s, Tail(pokemons[s]))
  /\ listaPokemons' = Set(listaPokemons, Nest[p], listaPokemons[Nest[p]] \cup {p})
  /\ hand' = Set(hand, th, p)
  /\ Goto(th, "giveback")
  /\ UNCHANGED <<trainer, queues, buscada, distance, ultimo, freed, cantidad, sockets, cur, asked,
                 mode, q, mutexes, config, alive>>

Other(th) == IF th = "plan" THEN "main" ELSE "plan"

\* cantidad++ takes no mutex: it may be overwritten by a cantidad-- of the
\* other thread that is under way.
Count(th) ==
  LET n == Nest[hand[th]] IN
  /\ pc[th] = "giveback"
  /\ \/ cantidad' = Set(cantidad, n, cantidad[n] + 1)
     \/ /\ pc[Other(th)] \in {"captured", "last"}
        /\ Nest[Last(pokemons[cur[Other(th)]])] = n
        /\ UNCHANGED cantidad
  /\ hand' = Set(hand, th, NONE)
  /\ Goto(th, "release")
  /\ UNCHANGED <<trainer, queues, sessions, listaPokemons, sockets, cur, asked, mode, q, mutexes,
                 config, alive>>

ReleaseEnd(th) ==
  LET s == cur[th] IN
  /\ pc[th] = "release" /\ pokemons[s] = <<>>
  /\ entrenadores' = Unlisted(entrenadores, Owner, s)
  /\ freed' = freed \cup {s}
  /\ turno' = NONE /\ bloqueados' = NONE
  /\ cur' = Set(cur, th, NONE)
  /\ Goto(th, IF th = "plan" THEN "idle" ELSE "loop")
  /\ UNCHANGED <<trainer, colaListos, colaBloqueados, buscada, distance, pokemons, ultimo, nests,
                 sockets, asked, hand, mode, q, config, alive>>

\* No trainer ever sends OC_OBTENER_CANTIDAD_DEADLOCK, so whatever is read, or
\* the end of the connection, makes the map exit(1).
Await(th) ==
  /\ pc[th] = "await" /\ Readable(asked[th])
  /\ alive' = FALSE
  /\ UNCHANGED <<trainer, queues, sessions, nests, sockets, threads, mutexes, config>>

-----------------------------------------------------------------------------
(* planificar *)

\* ejecutarRafagaRR takes the first ready trainer.
TakeFirst ==
  /\ pc["plan"] = "idle" /\ algoritmo = "RR" /\ colaListos # <<>>
  /\ cur' = Set(cur, "plan", Head(colaListos))
  /\ colaListos' = Tail(colaListos)
  /\ mode' = "quantum" /\ q' = 0
  /\ Goto("plan", "serve")
  /\ UNCHANGED <<trainer, entrenadores, colaBloqueados, sessions, nests, sockets, asked, hand,
                 mutexes, config, alive>>

Undecided == {i \in DOMAIN colaListos : buscada[colaListos[i]] = NONE}

\* ejecutarRafagaSRDF first serves, once, who has no PokeNest yet.
TakeUndecided ==
  LET i == CHOOSE k \in Undecided : \A l \in Undecided : k <= l IN
  /\ pc["plan"] = "idle" /\ algoritmo = "SRDF"
  /\ \/ /\ Undecided # {}
        /\ cur' = Set(cur, "plan", colaListos[i])
        /\ colaListos' = RemoveAt(colaListos, i)
        /\ mode' = "once" /\ q' = 0
        /\ Goto("plan", "serve")
     \/ /\ Undecided = {} /\ colaListos # <<>>
        /\ Goto("plan", "nearest")
        /\ UNCHANGED <<cur, colaListos, mode, q>>
  /\ UNCHANGED <<trainer, entrenadores, colaBloqueados, sessions, nests, sockets, asked, hand,
                 mutexes, config, alive>>

\* Then whoever is nearest, to the end.  A trainer that became ready meanwhile
\* has no PokeNest, and comparing its distance follows a null pointer.
TakeNearest ==
  /\ pc["plan"] = "nearest"
  /\ \/ /\ Len(colaListos) > 1 /\ Undecided # {}
        /\ alive' = FALSE
        /\ UNCHANGED <<cur, colaListos, mode, q, pc>>
     \/ /\ Len(colaListos) = 1 \/ Undecided = {}
        /\ \E i \in DOMAIN colaListos :
             /\ \A j \in DOMAIN colaListos : distance[colaListos[i]] <= distance[colaListos[j]]
             /\ cur' = Set(cur, "plan", colaListos[i])
             /\ colaListos' = RemoveAt(colaListos, i)
        /\ mode' = "until" /\ q' = 0
        /\ Goto("plan", "serve")
        /\ UNCHANGED alive
  /\ UNCHANGED <<trainer, entrenadores, colaBloqueados, sessions, nests, sockets, asked, hand,
                 mutexes, config>>

\* TURNO_NORMAL: the same trainer again, or the end of its turn.
Again ==
  /\ q' = IF mode = "quantum" THEN q + 1 ELSE q
  /\ Goto("plan", IF mode = "until" \/ (mode = "quantum" /\ q + 1 < Quantum)
                  THEN "serve" ELSE "requeue")

\* atenderSolicitud: the map waits for the trainer, and answers it.
ServeGone ==
  LET s == cur["plan"] IN
  /\ pc["plan"] = "serve" /\ out[s] = <<>> /\ Gone(s)
  /\ Goto("plan", "lock")
  /\ UNCHANGED <<trainer, queues, sessions, nests, sockets, cur, asked, hand, mode, q, mutexes,
                 config, alive>>

ServeLocate ==
  LET s == cur["plan"] IN
  /\ pc["plan"] = "serve" /\ out[s] # <<>> /\ Head(out[s]) = "ubicar"
  /\ buscada' = Set(buscada, s, Head(goals[s]))
  /\ \E d \in 0 .. MaxDistance : distance' = Set(distance, s, d)
  /\ Proceed(s, "walk")
  /\ out' = Set(out, s, Tail(out[s]))
  /\ Again
  /\ UNCHANGED <<goals, queues, pokemons, ultimo, freed, nests, sockets, cur, asked, hand, mode,
                 mutexes, config, alive>>

ServeMove ==
  LET s == cur["plan"] IN
  /\ pc["plan"] = "serve" /\ out[s] # <<>> /\ Head(out[s]) = "avanzar"
  /\ distance' = Set(distance, s, distance[s] - 1)
  /\ Proceed(s, "walk")
  /\ out' = Set(out, s, Tail(out[s]))
  /\ Again
  /\ UNCHANGED <<goals, queues, buscada, pokemons, ultimo, freed, nests, sockets, cur, asked, hand,
                 mode, mutexes, config, alive>>

\* A capture from n: one of its pokemons, or the trainer is to be blocked.
Catch(n, last) ==
  LET s == cur["plan"] IN
  /\ \/ /\ listaPokemons[n] = {}
        /\ Goto("plan", "block")
        /\ ultimo' = IF last THEN Set(ultimo, s, TRUE) ELSE ultimo
        /\ UNCHANGED <<pokemons, listaPokemons>>
     \/ \E p \in listaPokemons[n] :
          /\ listaPokemons' = Set(listaPokemons, n, listaPokemons[n] \ {p})
          /\ pokemons' = Set(pokemons, s, Append(pokemons[s], p))
          /\ Goto("plan", IF last THEN "last" ELSE "captured")
          /\ UNCHANGED ultimo
  /\ out' = Set(out, s, Tail(out[s]))
  /\ UNCHANGED <<tpc, goals, queues, buscada, distance, freed, cantidad, sockets, cur, asked, hand,
                 mode, q, mutexes, config, alive>>

ServeCatch ==
  LET s == cur["plan"] IN
  /\ pc["plan"] = "serve" /\ out[s] # <<>> /\ Head(out[s]) = "atrapar"
  /\ Catch(Head(goals[s]), FALSE)

\* connection_recv does not read the message of a last capture either: the
\* PokeNest is whatever the uninitialised pointer leads to, or a null one.
ServeLast ==
  LET s == cur["plan"] IN
  /\ pc["plan"] = "serve" /\ out[s] # <<>> /\ Head(out[s]) = "ultimo"
  /\ \/ \E n \in PokeNests : Catch(n, TRUE)
     \/ /\ alive' = FALSE
        /\ UNCHANGED <<trainer, queues, sessions, nests, sockets, threads, mutexes, config>>

\* cantidad-- holds a mutex that cantidad++ does not; the trainer is told.
Captured ==
  LET s == cur["plan"]
      n == Nest[Last(pokemons[s])]
  IN
  /\ pc["plan"] \in {"captured", "last"}
  /\ \/ cantidad' = Set(cantidad, n, cantidad[n] - 1)
     \/ pc["main"] = "giveback" /\ Nest[hand["main"]] = n /\ UNCHANGED cantidad
  /\ buscada' = Set(buscada, s, NONE)
  /\ Proceed(s, "ask")
  /\ goals' = IF Gone(s) THEN goals ELSE Set(goals, s, Tail(goals[s]))
  /\ \/ pc["plan"] = "captured" /\ Goto("plan", "requeue") /\ UNCHANGED asked
     \/ pc["plan"] = "last" /\ Goto("plan", "await") /\ asked' = Set(asked, "plan", s)
  /\ UNCHANGED <<out, queues, distance, pokemons, ultimo, freed, listaPokemons, sockets, cur, hand,
                 mode, q, mutexes, config, alive>>

RequeueDrops ==   \* mutant of Requeue: the trainer is not pushed again
  /\ pc["plan"] = "requeue"
  /\ cur' = Set(cur, "plan", NONE)
  /\ Goto("plan", "idle")
  /\ UNCHANGED <<trainer, queues, sessions, nests, sockets, asked, hand, mode, q, mutexes, config, alive>>

Requeue ==
  /\ pc["plan"] = "requeue"
  /\ colaListos' = Append(colaListos, cur["plan"])
  /\ cur' = Set(cur, "plan", NONE)
  /\ Goto("plan", "idle")
  /\ UNCHANGED <<trainer, entrenadores, colaBloqueados, sessions, nests, sockets, asked, hand, mode,
                 q, mutexes, config, alive>>

\* bloquearEntrenador.  FD_SET may be overwritten by the FD_CLR of "main".
Block ==
  LET s == cur["plan"] IN
  /\ pc["plan"] = "block" /\ bloqueados = NONE
  /\ colaBloqueados' = Append(colaBloqueados, s)
  /\ \/ master' = master \cup {s}
     \/ pc["main"] = "hangup" /\ UNCHANGED master
  /\ cur' = Set(cur, "plan", NONE)
  /\ Goto("plan", "idle")
  /\ UNCHANGED <<trainer, entrenadores, colaListos, sessions, nests, lectura, asked, hand, mode, q,
                 mutexes, config, alive>>

-----------------------------------------------------------------------------
(* manejar_select *)

Connecting == {s \in Sessions : tpc[s] \in {"connecting", "quit"}}

Select ==
  /\ pc["main"] = "select"
  /\ lectura' = {s \in master : Readable(s)} \cup (IF Connecting = {} THEN {} ELSE {LISTENER})
  /\ lectura' # {}
  /\ Goto("main", "loop")
  /\ UNCHANGED <<trainer, queues, sessions, nests, master, cur, asked, hand, mode, q, mutexes,
                 config, alive>>

\* SIGUSR1 rereads the metadata.  It makes select() fail, which leaves every
\* watched socket, and the listening one, marked as if it were readable.
Reload ==
  /\ reloads < MaxReloads
  /\ reloads' = reloads + 1
  /\ algoritmo' \in Algorithms
  /\ \/ UNCHANGED <<lectura, pc>>
     \/ /\ pc["main"] = "select"
        /\ lectura' = master \cup {LISTENER}
        /\ Goto("main", "loop")
  /\ UNCHANGED <<trainer, queues, sessions, nests, master, cur, asked, hand, mode, q, mutexes, alive>>

\* accept, which waits for a connection.
Accept ==
  /\ pc["main"] = "loop" /\ LISTENER \in lectura
  /\ \E s \in Connecting :
       /\ cur' = Set(cur, "main", s)
       /\ tpc' = Set(tpc, s, IF tpc[s] = "quit" THEN "closed" ELSE "connected")
  /\ lectura' = lectura \ {LISTENER}
  /\ Goto("main", "handshake")
  /\ UNCHANGED <<goals, out, queues, sessions, nests, master, asked, hand, mode, q, mutexes, config,
                 alive>>

\* handshake, crearEntrenador and the two lists.  If the trainer hangs up
\* before the handshake is over the map exits, or uses what it never received.
Handshake ==
  LET s == cur["main"] IN
  /\ pc["main"] = "handshake"
  /\ \/ /\ Gone(s)
        /\ alive' = FALSE
        /\ UNCHANGED <<tpc, entrenadores, colaListos, cur, pc>>
     \/ /\ Proceed(s, "ask")
        /\ entrenadores' = Append(entrenadores, s)
        /\ colaListos' = Append(colaListos, s)
        /\ cur' = Set(cur, "main", NONE)
        /\ Goto("main", "loop")
        /\ UNCHANGED alive
  /\ UNCHANGED <<goals, out, colaBloqueados, sessions, nests, sockets, asked, hand, mode, q, mutexes,
                 config>>

\* buscarEntrenador: a reported socket whose trainer is still blocked.
Lookup ==
  /\ pc["main"] = "loop" /\ turno = NONE
  /\ \E s \in lectura \ {LISTENER} :
       /\ lectura' = lectura \ {s}
       /\ colaBloqueados' = RemoveFirst(colaBloqueados, s)
       /\ IF Contains(colaBloqueados, s)
          THEN cur' = Set(cur, "main", s) /\ Goto("main", "recv")
          ELSE UNCHANGED <<cur, pc>>
  /\ UNCHANGED <<trainer, entrenadores, colaListos, sessions, nests, master, asked, hand, mode, q,
                 mutexes, config, alive>>

LoopEnd ==
  /\ pc["main"] = "loop" /\ lectura = {}
  /\ Goto("main", "select")
  /\ UNCHANGED <<trainer, queues, sessions, nests, sockets, cur, asked, hand, mode, q, mutexes,
                 config, alive>>

\* The trainer, taken off the queue, is released if recv says that it hung up;
\* what it has sent is thrown away, and the trainer is in no queue any more.
Recv ==
  LET s == cur["main"] IN
  /\ pc["main"] = "recv" /\ Readable(s)
  /\ out' = Set(out, s, <<>>)
  /\ IF out[s] = <<>>
     THEN Goto("main", "hangup") /\ UNCHANGED cur
     ELSE Goto("main", "loop") /\ cur' = Set(cur, "main", NONE)
  /\ UNCHANGED <<tpc, goals, queues, sessions, nests, sockets, asked, hand, mode, q, mutexes, config,
                 alive>>

\* FD_CLR may lose to the FD_SET of "plan".  (To the FD_CLR of Reassign too:
\* a trainer that is watched but not blocked is reported, and Lookup drops it.)
HangUp ==
  LET s == cur["main"] IN
  /\ pc["main"] = "hangup"
  /\ \/ master' = master \ {s}
     \/ pc["plan"] = "block" /\ bloqueados = NONE /\ UNCHANGED master
  /\ Goto("main", "lock")
  /\ UNCHANGED <<trainer, queues, sessions, nests, lectura, cur, asked, hand, mode, q, mutexes,
                 config, alive>>

-----------------------------------------------------------------------------
(* Lists that both threads change at once, without a common mutex *)

Gives(th)    == pc[th] = "release" /\ pokemons[cur[th]] # <<>>
Unblocks(th) == Gives(th) /\ Waiting(Nest[Head(pokemons[cur[th]])]) # {}
PutsIn(th)   == {n \in PokeNests : Gives(th) /\ ~Unblocks(th) /\ Nest[Head(pokemons[cur[th]])] = n}
TakesFrom(n) == /\ pc["plan"] = "serve" /\ out[cur["plan"]] # <<>>
                /\ \/ Head(out[cur["plan"]]) = "atrapar" /\ Head(goals[cur["plan"]]) = n
                   \/ Head(out[cur["plan"]]) = "ultimo"

ReadyRace ==
  LET planTakes  == /\ colaListos # <<>>
                    /\ \/ pc["plan"] = "idle" /\ algoritmo = "SRDF"
                       \/ pc["plan"] = "nearest"
      planLocked == \/ pc["plan"] = "idle" /\ algoritmo = "RR" /\ colaListos # <<>>
                    \/ pc["plan"] = "requeue"
  IN \/ Unblocks("main") /\ (planTakes \/ planLocked)
     \/ pc["main"] = "handshake" /\ (planTakes \/ Unblocks("plan"))
BlockedRace == pc["main"] = "loop" /\ lectura \ {LISTENER} # {} /\ turno = NONE
               /\ pc["plan"] = "block" /\ bloqueados = NONE
NestRace    == \E n \in PutsIn("main") : TakesFrom(n)
ListRace    == /\ pc["main"] = "handshake"
               /\ pc["plan"] = "release" /\ pokemons[cur["plan"]] = <<>>

\* The list may come out broken: the model does not follow the map any further.
Race ==
  /\ ReadyRace \/ BlockedRace \/ NestRace \/ ListRace
  /\ alive' = FALSE
  /\ UNCHANGED <<trainer, queues, sessions, nests, sockets, threads, mutexes, config>>

-----------------------------------------------------------------------------
Trainer(s) == Connect(s) \/ Send(s) \/ Close(s)
Release(th) ==
  Lock(th) \/ Reassign(th) \/ PutBack(th) \/ Count(th) \/ ReleaseEnd(th) \/ Await(th)
Plan ==
  \/ TakeFirst \/ TakeUndecided \/ TakeNearest
  \/ ServeGone \/ ServeLocate \/ ServeMove \/ ServeCatch \/ ServeLast
  \/ Captured \/ Requeue \/ Block \/ Release("plan")
Main ==
  \/ Select \/ Accept \/ Handshake \/ Lookup \/ LoopEnd \/ Recv \/ HangUp \/ Release("main")

Next == alive /\ ((\E s \in Sessions : Trainer(s)) \/ Plan \/ Main \/ Reload \/ Race)

Spec == Init /\ [][Next]_vars

\* Both threads run, and a trainer that is not interrupted keeps playing: it
\* sends its next request, and leaves when its objectives are met.
FairSpec ==
  /\ Spec
  /\ WF_vars(alive /\ Plan) /\ WF_vars(alive /\ Main)
  /\ \A s \in Sessions : WF_vars(alive /\ Send(s)) /\ WF_vars(alive /\ goals[s] = <<>> /\ Close(s))

-----------------------------------------------------------------------------
(* Safety *)

Occurrences(x, seq) == Cardinality({i \in DOMAIN seq : seq[i] = x})
Hits(P) == IF P THEN 1 ELSE 0

\* No pokemon is lost or doubled, whoever hangs up and whatever the threads
\* are doing: each is in its PokeNest or with exactly one trainer.
PokemonConserved ==
  \A p \in Pokemons :
    LET holders == {s \in Sessions : Contains(pokemons[s], p)} IN
    /\ \A n \in PokeNests : p \in listaPokemons[n] => n = Nest[p] /\ holders = {}
    /\ p \notin listaPokemons[Nest[p]] => Cardinality(holders) = 1
    /\ \A s \in holders : Occurrences(p, pokemons[s]) = 1

\* A trainer is in one place at a time: ready, blocked, in the hands of one
\* thread, or gone, when it holds nothing any more.
OnePlace ==
  \A s \in Sessions :
    /\ Occurrences(s, colaListos) + Occurrences(s, colaBloqueados)
         + Hits(cur["plan"] = s) + Hits(cur["main"] = s) + Hits(s \in freed) <= 1
    /\ s \in freed => pokemons[s] = <<>>

\* A pokemon in its PokeNest is not what a blocked trainer is waiting for:
\* liberarRecursos2 gives every pokemon to whoever is blocked for it (line 183
\* of planificacion.c, "notificando a bloqueado que obtuvo pokemon").
NoLostWakeup ==
  \A i \in DOMAIN colaBloqueados :
    LET s == colaBloqueados[i] IN
    turno = NONE /\ ~ultimo[s] => listaPokemons[buscada[s]] = {}

-----------------------------------------------------------------------------
(* The inductive invariant of the proofs *)

Outside == {"new", "connecting", "quit"}                \* the map has not accepted it
Waits   == {"locating", "moving", "catching", "closed"} \* it sends nothing more for now
Quiet   == {<<>>, <<"junk">>}                           \* no request is left to read

\* A thread works on a session except where it looks for the next one.
Busy == \A th \in Threads : cur[th] # NONE <=> pc[th] \notin {"idle", "nearest", "select", "loop"}

\* A session has at most one request on its way, sent when there was reason to:
\* o is what it has sent, g its objectives, d its distance.
MayBeSent(o, g, place, d) ==
  /\ o \in Quiet \cup {<<"ubicar">>, <<"avanzar">>, <<"atrapar">>, <<"ultimo">>, <<"ultimo", "junk">>}
  /\ o \notin Quiet => g # <<>> /\ place \in Waits
  /\ o \in {<<"junk">>, <<"ultimo", "junk">>} => Len(g) <= 1
  /\ o = <<"avanzar">> => d > 0
  /\ place \notin Waits /\ g # <<>> => o = <<>>
Request(s) == MayBeSent(out[s], goals[s], tpc[s], distance[s])
Requests == \A s \in Sessions : Request(s)

\* The trainer that is being greeted has not been answered yet.
Greeting == pc["main"] = "handshake" => tpc[cur["main"]] \in {"connected", "closed"}

\* A trainer whose capture is under way, or blocked for it, still waits for the answer.
Capturing(s) == out[s] \in Quiet /\ goals[s] # <<>> /\ tpc[s] \in Waits
Captures ==
  /\ pc["plan"] \in {"captured", "last", "block"} => Capturing(cur["plan"])
  /\ \A s \in Sessions : Contains(colaBloqueados, s) /\ buscada[s] # NONE => Capturing(s)

\* The turns of a slice are counted up to the quantum.
Slice == pc["plan"] = "serve" /\ mode = "quantum" => q < Quantum

\* OnePlace, without counting.
Unplaced(s) == ~Contains(colaListos, s) /\ ~Contains(colaBloqueados, s)
Placed(s) ==
  /\ ~Contains(colaListos, s) \/ ~Contains(colaBloqueados, s)
  /\ \A th \in Threads : cur[th] = s => Unplaced(s) /\ cur[Other(th)] # s /\ s \notin freed
  /\ s \in freed => Unplaced(s) /\ pokemons[s] = <<>>
  /\ tpc[s] \in Outside => Unplaced(s) /\ s \notin freed /\ \A th \in Threads : cur[th] # s
InOnePlace ==
  IsInjective(colaListos) /\ IsInjective(colaBloqueados) /\ \A s \in Sessions : Placed(s)

\* PokemonConserved, without counting.
InOneHand ==
  /\ \A s \in Sessions : IsInjective(pokemons[s])
  /\ \A p \in Pokemons :
       /\ \A s, r \in Sessions : Contains(pokemons[s], p) /\ Contains(pokemons[r], p) => s = r
       /\ \A n \in PokeNests :
            p \in listaPokemons[n] => n = Nest[p] /\ \A s \in Sessions : ~Contains(pokemons[s], p)
       /\ p \notin listaPokemons[Nest[p]] => \E s \in Sessions : Contains(pokemons[s], p)

IInv == TypeOK /\ Busy /\ Requests /\ Greeting /\ Captures /\ Slice /\ InOnePlace /\ InOneHand

-----------------------------------------------------------------------------
(* Liveness *)

\* Every request to locate a PokeNest or to move is answered, unless the
\* trainer hangs up or the map is no more.
MovesAreAnswered ==
  \A s \in Sessions : tpc[s] \in {"locating", "moving"} ~> tpc[s] \notin {"locating", "moving"} \/ ~alive
=============================================================================
