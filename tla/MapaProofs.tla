----------------------------- MODULE MapaProofs -----------------------------
(***************************************************************************)
(* What is proved of the planner and the select thread of a map.           *)
(***************************************************************************)
EXTENDS Mapa, ListFacts

-----------------------------------------------------------------------------
(* Messages *)

LEMMA Wording ==
  /\ \A m \in Messages : <<m>> \in Seq(Messages) /\ <<>> # <<m>> /\ Head(<<m>>) = m /\ Tail(<<m>>) = <<>>
  /\ <<"ultimo", "junk">> \in Seq(Messages) /\ <<>> # <<"ultimo", "junk">>
  /\ Head(<<"ultimo", "junk">>) = "ultimo" /\ Tail(<<"ultimo", "junk">>) = <<"junk">>
  /\ \A m, l \in Messages : <<m>> = <<l>> => m = l
  /\ \A m \in Messages : <<m>> # <<"ultimo", "junk">>
<1>1. "ultimo" \in Messages /\ "junk" \in Messages
  BY DEF Messages
<1>2. \A m \in Messages : <<m>> \in Seq(Messages) /\ <<>> # <<m>> /\ Head(<<m>>) = m /\ Tail(<<m>>) = <<>>
  OBVIOUS
<1>3. <<"ultimo", "junk">> \in Seq(Messages) /\ <<>> # <<"ultimo", "junk">>
  BY <1>1
<1>4. Head(<<"ultimo", "junk">>) = "ultimo" /\ Tail(<<"ultimo", "junk">>) = <<"junk">>
  OBVIOUS
<1>5. \A m, l \in Messages : <<m>> = <<l>> => m = l
  OBVIOUS
<1>6. \A m \in Messages : <<m>> # <<"ultimo", "junk">>
  OBVIOUS
<1> QED BY <1>2, <1>3, <1>4, <1>5, <1>6

\* What is left of what a trainer sent, once the map has read a request.
LEMMA Spoken ==
  ASSUME NEW o, NEW g, NEW place, NEW d, MayBeSent(o, g, place, d), o # <<>>
  PROVE  /\ Head(o) \in {"ubicar", "avanzar", "atrapar", "ultimo"} => g # <<>> /\ place \in Waits
         /\ Head(o) \in {"ubicar", "avanzar", "atrapar"} => Tail(o) = <<>>
         /\ Head(o) = "avanzar" => d > 0
         /\ Head(o) = "ultimo" => Tail(o) = <<>> \/ (Tail(o) = <<"junk">> /\ Len(g) <= 1)
<1> USE DEF MayBeSent, Quiet
<1>1. {"ubicar", "avanzar", "atrapar", "ultimo", "junk"} = Messages
  BY DEF Messages
<1>2. CASE o = <<"junk">>
  BY <1>1, <1>2, Wording
<1>3. CASE o = <<"ubicar">>
  BY <1>1, <1>3, Wording
<1>4. CASE o = <<"avanzar">>
  BY <1>1, <1>4, Wording
<1>5. CASE o = <<"atrapar">>
  BY <1>1, <1>5, Wording
<1>6. CASE o = <<"ultimo">>
  BY <1>1, <1>6, Wording
<1>7. CASE o = <<"ultimo", "junk">>
  BY <1>1, <1>7, Wording
<1> QED BY <1>2, <1>3, <1>4, <1>5, <1>6, <1>7

\* Nothing to read, or what follows a last capture.
LEMMA Silent ==
  ASSUME NEW o, NEW g, NEW place, NEW d,
         o = <<>> \/ (o = <<"junk">> /\ Len(g) <= 1 /\ (g = <<>> \/ place \in Waits))
  PROVE  MayBeSent(o, g, place, d) /\ o \in Quiet
<1>1. "ultimo" \in Messages /\ "junk" \in Messages /\ "avanzar" \in Messages
  BY DEF Messages
<1>2. o \in Quiet
  BY DEF Quiet
<1>3. o # <<"avanzar">>
  BY <1>1, Wording
<1>4. o = <<"junk">> \/ o = <<"ultimo", "junk">> => Len(g) <= 1
  BY <1>1, Wording
<1> QED BY <1>2, <1>3, <1>4 DEF MayBeSent

\* A quiet session has nothing to read, or what follows a last capture.
LEMMA Quieted ==
  ASSUME NEW o, NEW g, NEW place, NEW d, MayBeSent(o, g, place, d), o \in Quiet
  PROVE  o = <<>> \/ (o = <<"junk">> /\ Len(g) <= 1)
BY DEF MayBeSent, Quiet

-----------------------------------------------------------------------------
(* What a step leaves alone *)

\* Only the types and the step of a thread change.
LEMMA ThreadStep ==
  ASSUME IInv, TypeOK', NEW th \in Threads,
         UNCHANGED <<trainer, colaListos, colaBloqueados, buscada, distance, pokemons, freed,
                     listaPokemons, cur, mode, q>>,
         \/ UNCHANGED pc
         \/ \E step \in Steps :
              /\ Goto(th, step)
              /\ step \notin {"captured", "last", "block", "serve", "handshake"}
              /\ step \in {"idle", "nearest", "select", "loop"} <=>
                   pc[th] \in {"idle", "nearest", "select", "loop"}
  PROVE  IInv'
<1> USE DEF trainer
<1>1. Busy'
  BY DEF IInv, TypeOK, Busy, Goto, Set
<1>2. Requests'
  BY DEF IInv, Requests, Request
<1>3. /\ pc'["plan"] \in {"captured", "last", "block", "serve"} => pc'["plan"] = pc["plan"]
      /\ pc'["main"] = "handshake" => pc["main"] = "handshake"
  BY DEF IInv, TypeOK, Threads, Goto, Set
<1>4. Greeting'
  BY <1>3 DEF IInv, Greeting
<1>5. Captures'
  BY <1>3 DEF IInv, Captures, Capturing
<1>6. Slice'
  BY <1>3 DEF IInv, Slice
<1>7. InOnePlace'
  BY DEF IInv, InOnePlace, Placed, Unplaced
<1>8. InOneHand'
  BY DEF IInv, InOneHand
<1> QED BY <1>1, <1>2, <1>4, <1>5, <1>6, <1>7, <1>8 DEF IInv

\* Only the state of one trainer changes, which takes nothing back.
LEMMA TrainerStep ==
  ASSUME IInv, NEW s \in Sessions, NEW place \in Places, NEW o \in Seq(Messages),
         tpc' = Set(tpc, s, place), out' = Set(out, s, o), MayBeSent(o, goals[s], place, distance[s]),
         place \in Outside => tpc[s] \in Outside,
         tpc[s] \in Waits => place \in Waits /\ o = out[s],
         tpc[s] \in {"connected", "closed"} => place = "closed",
         UNCHANGED <<goals, queues, sessions, nests, sockets, threads, mutexes, config>>,
         alive' \in BOOLEAN
  PROVE  IInv'
<1> USE DEF Set, queues, sessions, nests, sockets, threads, mutexes, config
<1>1. TypeOK'
  BY DEF IInv, TypeOK
<1>2. \A r \in Sessions : r # s => tpc'[r] = tpc[r] /\ out'[r] = out[r]
  BY DEF IInv, TypeOK
<1>3. tpc'[s] = place /\ out'[s] = o
  BY DEF IInv, TypeOK
<1>4. Busy' /\ Slice' /\ InOneHand'
  BY DEF IInv, Busy, Slice, InOneHand
<1>5. Requests'
  <2> SUFFICES ASSUME NEW r \in Sessions PROVE Request(r)'
    BY DEF Requests
  <2> QED BY <1>2, <1>3 DEF IInv, Requests, Request
<1>6. \A r \in Sessions : tpc[r] \in {"connected", "closed"} => tpc'[r] \in {"connected", "closed"}
  BY <1>2, <1>3
<1>7. \A r \in Sessions : Capturing(r) => Capturing(r)'
  BY <1>2, <1>3 DEF Capturing
<1>8. \A th \in Threads : pc[th] \notin {"idle", "nearest", "select", "loop"} => cur[th] \in Sessions
  BY DEF IInv, TypeOK, Busy
<1>9. Greeting'
  BY <1>6, <1>8 DEF IInv, Greeting, Threads
<1>10. Captures'
  BY <1>7, <1>8 DEF IInv, Captures, Threads
<1>11. InOnePlace'
  <2> SUFFICES ASSUME NEW r \in Sessions PROVE Placed(r)'
    BY DEF IInv, InOnePlace
  <2>1. tpc'[r] \in Outside => tpc[r] \in Outside
    BY <1>2, <1>3
  <2> QED BY <2>1 DEF IInv, InOnePlace, Placed, Unplaced
<1> QED BY <1>1, <1>4, <1>5, <1>9, <1>10, <1>11 DEF IInv

-----------------------------------------------------------------------------
(* The trainer *)

\* A connection is only asked for.
LEMMA ConnectInv ==
  ASSUME IInv, NEW s \in Sessions, Connect(s)
  PROVE  IInv'
<1> USE DEF Connect, Set, trainer
<1>1. "connecting" \in Places /\ out[s] \in Seq(Messages) /\ out' = Set(out, s, out[s])
  BY DEF IInv, TypeOK, Places
<1>2. MayBeSent(out[s], goals[s], "connecting", distance[s])
  BY DEF IInv, Requests, Request, MayBeSent, Waits
<1> QED BY <1>1, <1>2, TrainerStep DEF IInv, TypeOK, Outside, Waits

\* A request is sent when the last one has been answered.
LEMMA SendInv ==
  ASSUME IInv, NEW s \in Sessions, Send(s)
  PROVE  IInv'
<1> USE DEF Set
<1>1. goals[s] # <<>> /\ tpc[s] \in {"ask", "walk"} /\ Request(s)
  BY DEF Send, IInv, Requests
<1>2. out[s] = <<>>
  BY <1>1 DEF Request, MayBeSent, Waits
<1>3. PICK place \in {"locating", "moving", "catching"},
           o \in {<<"ubicar">>, <<"avanzar">>, <<"atrapar">>, <<"ultimo">>, <<"ultimo", "junk">>} :
        /\ tpc' = Set(tpc, s, place) /\ out' = Set(out, s, o)
        /\ o = <<"avanzar">> => distance[s] > 0
        /\ o = <<"ultimo", "junk">> => Len(goals[s]) <= 1
  <2>1. CASE tpc[s] = "ask"
    BY <1>1, <1>2, <2>1 DEF Send
  <2>2. CASE tpc[s] = "walk" /\ distance[s] > 0
    BY <1>1, <1>2, <2>2 DEF Send, IInv, TypeOK
  <2>3. CASE tpc[s] = "walk" /\ distance[s] = 0 /\ Len(goals[s]) > 1
    BY <1>1, <1>2, <2>3 DEF Send
  <2>4. CASE tpc[s] = "walk" /\ distance[s] = 0 /\ ~(Len(goals[s]) > 1)
    <3>1. Len(goals[s]) <= 1
      BY <2>4 DEF IInv, TypeOK
    <3>2. PICK rest \in {<<>>, <<"junk">>} : out' = Set(out, s, out[s] \o <<"ultimo">> \o rest)
      BY <1>1, <2>4 DEF Send
    <3>3. out[s] \o <<"ultimo">> = <<"ultimo">>
      BY <1>2
    <3>4. <<"ultimo">> \o rest \in {<<"ultimo">>, <<"ultimo", "junk">>}
      <4>1. CASE rest = <<>>
        BY <4>1
      <4>2. CASE rest = <<"junk">>
        <5>1. "ultimo" \in Messages /\ "junk" \in Messages
          BY DEF Messages
        <5>2. <<"ultimo">> \o <<"junk">> = <<"ultimo", "junk">>
          <6> DEFINE both == <<"ultimo">> \o <<"junk">>
          <6>1. <<"ultimo">> \in Seq(Messages) /\ <<"junk">> \in Seq(Messages)
            BY <5>1, Wording
          <6>2. both \in Seq(Messages) /\ Len(both) = 2 /\ both[1] = "ultimo" /\ both[2] = "junk"
            BY <6>1, ConcatProperties
          <6> DEFINE all == <<"ultimo", "junk">>
          <6>3. all \in Seq(Messages) /\ Len(all) = 2 /\ all[1] = "ultimo" /\ all[2] = "junk"
            BY Wording
          <6> HIDE DEF both, all
          <6>4. Len(both) = Len(all) /\ \A k \in 1 .. Len(both) : both[k] = all[k]
            BY <6>2, <6>3
          <6>5. both = all
            BY <6>2, <6>3, <6>4, SeqEqual
          <6> QED BY <6>5 DEF both, all
        <5> QED BY <4>2, <5>2
      <4> QED BY <3>2, <4>1, <4>2
    <3> QED BY <1>1, <2>4, <3>1, <3>2, <3>3, <3>4 DEF Send
  <2> QED BY <1>1, <2>1, <2>2, <2>3, <2>4 DEF Send
<1>4. /\ UNCHANGED <<goals, queues, sessions, nests, sockets, threads, mutexes, config>>
      /\ alive' \in BOOLEAN
  BY DEF Send, IInv, TypeOK
<1>5. o \in Seq(Messages) /\ place \in Places
  <2>1. {"ubicar", "avanzar", "atrapar", "ultimo"} \subseteq Messages
    BY DEF Messages
  <2> QED BY <1>3, <2>1, Wording DEF Places
<1>6. MayBeSent(o, goals[s], place, distance[s])
  <2>1. place \in Waits
    BY <1>3 DEF Waits
  <2>2. o # <<"junk">>
    <3>1. {"ubicar", "avanzar", "atrapar", "ultimo", "junk"} = Messages
      BY DEF Messages
    <3> QED BY <1>3, <3>1, Wording
  <2> QED BY <1>1, <1>3, <2>1, <2>2 DEF MayBeSent
<1> QED BY <1>1, <1>3, <1>4, <1>5, <1>6, TrainerStep DEF Outside, Waits

\* Hanging up leaves what was sent to be read.
LEMMA CloseInv ==
  ASSUME IInv, NEW s \in Sessions, Close(s)
  PROVE  IInv'
<1> USE DEF Close, Set
<1>1. PICK place \in {"quit", "closed"} :
        tpc' = Set(tpc, s, place) /\ (place = "quit" <=> tpc[s] = "connecting")
  OBVIOUS
<1>2. place \in Places /\ out[s] \in Seq(Messages) /\ out' = Set(out, s, out[s])
  BY <1>1 DEF IInv, TypeOK, Places
<1>3. MayBeSent(out[s], goals[s], place, distance[s])
  BY <1>1 DEF IInv, Requests, Request, MayBeSent, Waits
<1>4. /\ UNCHANGED <<goals, queues, sessions, nests, sockets, threads, mutexes, config>>
      /\ alive' \in BOOLEAN
  BY DEF IInv, TypeOK
<1>5. /\ place \in Outside => tpc[s] \in Outside
      /\ tpc[s] \in Waits => place \in Waits
      /\ tpc[s] \in {"connected", "closed"} => place = "closed"
  BY <1>1 DEF Outside, Waits
<1>6. PICK o : o = out[s]
  OBVIOUS
<1> QED BY <1>1, <1>2, <1>3, <1>4, <1>5, <1>6, TrainerStep

-----------------------------------------------------------------------------
(* Steps of a thread that move no session and no pokemon *)

\* mutex_turno_desbloqueo and mutex_cola_bloqueados.
LEMMA LockInv ==
  ASSUME IInv, NEW th \in Threads, Lock(th)
  PROVE  IInv'
<1> USE DEF Lock, trainer, queues, sessions, nests, sockets, config
<1>1. TypeOK'
  BY DEF IInv, TypeOK, Goto, Set, Steps
<1> QED BY <1>1, ThreadStep DEF Steps

\* cantidad++
LEMMA CountInv ==
  ASSUME IInv, NEW th \in Threads, Count(th)
  PROVE  IInv'
<1> USE DEF Count, trainer, queues, sessions, sockets, mutexes, config
<1>1. cantidad' \in [PokeNests -> Int]
  BY DEF IInv, TypeOK, Set
<1>2. TypeOK'
  BY <1>1 DEF IInv, TypeOK, Goto, Set, Steps
<1> QED BY <1>2, ThreadStep DEF Steps

\* The map exits.
LEMMA ExitInv ==
  ASSUME IInv, alive' = FALSE,
         UNCHANGED <<trainer, queues, sessions, nests, sockets, threads, mutexes, config>>
  PROVE  IInv'
<1> USE DEF trainer, queues, sessions, nests, sockets, threads, mutexes, config
<1>1. TypeOK'
  BY DEF IInv, TypeOK
<1> QED BY <1>1, ThreadStep DEF Threads

\* The planner finds that the trainer has hung up.
LEMMA ServeGoneInv ==
  ASSUME IInv, ServeGone
  PROVE  IInv'
<1> USE DEF ServeGone, trainer, queues, sessions, nests, sockets, mutexes, config
<1>1. TypeOK'
  BY DEF IInv, TypeOK, Goto, Set, Steps, Threads
<1> QED BY <1>1, ThreadStep DEF Steps, Threads

\* select() returns.
LEMMA SelectInv ==
  ASSUME IInv, Select
  PROVE  IInv'
<1> USE DEF Select, trainer, queues, sessions, nests, mutexes, config
<1>1. lectura' \subseteq Sessions \cup {LISTENER}
  BY DEF IInv, TypeOK
<1>2. TypeOK'
  BY <1>1 DEF IInv, TypeOK, Goto, Set, Steps, Threads
<1> QED BY <1>2, ThreadStep DEF Steps, Threads

\* A signal, which may interrupt select().
LEMMA ReloadInv ==
  ASSUME IInv, Reload
  PROVE  IInv'
<1> USE DEF trainer, queues, sessions, nests, mutexes
<1>1. /\ reloads' \in 0 .. MaxReloads /\ algoritmo' \in Algorithms
      /\ lectura' \subseteq Sessions \cup {LISTENER}
      /\ UNCHANGED <<trainer, queues, sessions, nests, master, cur, asked, hand, mode, q, mutexes>>
      /\ UNCHANGED pc \/ (pc["main"] = "select" /\ Goto("main", "loop"))
  BY MapaAssumption DEF Reload, IInv, TypeOK
<1>2. TypeOK'
  <2>1. pc' \in [Threads -> Steps]
    BY <1>1 DEF IInv, TypeOK, Goto, Set, Steps
  <2>2. alive' = alive
    BY DEF Reload
  <2> QED BY <1>1, <2>1, <2>2 DEF IInv, TypeOK
<1> QED BY <1>1, <1>2, ThreadStep DEF Steps, Threads

\* Every socket that was reported has been seen to.
LEMMA LoopEndInv ==
  ASSUME IInv, LoopEnd
  PROVE  IInv'
<1> USE DEF LoopEnd, trainer, queues, sessions, nests, sockets, mutexes, config
<1>1. TypeOK'
  BY DEF IInv, TypeOK, Goto, Set, Steps, Threads
<1> QED BY <1>1, ThreadStep DEF Steps, Threads

\* FD_CLR
LEMMA HangUpInv ==
  ASSUME IInv, HangUp
  PROVE  IInv'
<1> USE DEF HangUp, trainer, queues, sessions, nests, mutexes, config
<1>1. TypeOK'
  BY DEF IInv, TypeOK, Goto, Set, Steps, Threads
<1> QED BY <1>1, ThreadStep DEF Steps, Threads

-----------------------------------------------------------------------------
(* The planner *)

\* What a thread works on while it does.
LEMMA AtWork ==
  ASSUME IInv, NEW th \in Threads, pc[th] \notin {"idle", "nearest", "select", "loop"}
  PROVE  /\ cur[th] \in Sessions /\ Placed(cur[th]) /\ Request(cur[th])
         /\ Unplaced(cur[th]) /\ cur[Other(th)] # cur[th] /\ cur[th] \notin freed
         /\ tpc[cur[th]] \notin Outside
<1>1. cur[th] \in Sessions
  BY DEF IInv, TypeOK, Busy
<1>2. Placed(cur[th]) /\ Request(cur[th])
  BY <1>1 DEF IInv, InOnePlace, Requests
<1> QED BY <1>1, <1>2 DEF Placed

\* A trainer leaves the queue of ready ones for the hands of the planner.
LEMMA TakeInv ==
  ASSUME IInv, NEW i \in 1 .. Len(colaListos), pc["plan"] \in {"idle", "nearest"},
         cur' = Set(cur, "plan", colaListos[i]), colaListos' = RemoveAt(colaListos, i),
         mode' \in {"quantum", "once", "until"}, q' = 0, Goto("plan", "serve"),
         UNCHANGED <<trainer, entrenadores, colaBloqueados, sessions, nests, sockets, asked, hand,
                     mutexes, config, alive>>
  PROVE  IInv'
<1> USE DEF trainer, sessions, nests, sockets, mutexes, config
<1> DEFINE s == colaListos[i]
<1>1. /\ colaListos \in Seq(Sessions) /\ IsInjective(colaListos) /\ s \in Sessions
      /\ Contains(colaListos, s) /\ Placed(s)
  BY DEF IInv, TypeOK, InOnePlace, Contains
<1>2. /\ colaListos' \in Seq(Sessions) /\ IsInjective(colaListos')
      /\ \A r : Contains(colaListos', r) <=> Contains(colaListos, r) /\ r # s
  BY <1>1, TakenOff
<1> HIDE DEF s
<1>3. cur' = [cur EXCEPT !["plan"] = s] /\ pc' = [pc EXCEPT !["plan"] = "serve"]
  BY DEF s, Set, Goto
<1>4. /\ cur'["plan"] = s /\ cur'["main"] = cur["main"]
      /\ pc'["plan"] = "serve" /\ pc'["main"] = pc["main"]
  BY <1>3 DEF IInv, TypeOK, Threads
<1>5. TypeOK'
  <2>1. cur' \in [Threads -> Sessions \cup {NONE}] /\ pc' \in [Threads -> Steps]
    BY <1>1, <1>3 DEF IInv, TypeOK, Steps
  <2>2. q' \in 0 .. Quantum
    BY MapaAssumption
  <2> QED BY <1>2, <2>1, <2>2 DEF IInv, TypeOK
<1>6. Busy'
  BY <1>1, <1>4, MapaAssumption DEF IInv, Busy, Threads
<1>7. Requests' /\ InOneHand'
  BY DEF IInv, Requests, Request, InOneHand
<1>8. Greeting'
  BY <1>4 DEF IInv, Greeting
<1>9. Captures'
  BY <1>4 DEF IInv, Captures, Capturing
<1>10. Slice'
  BY MapaAssumption DEF Slice
<1>11. InOnePlace'
  <2> SUFFICES ASSUME NEW r \in Sessions PROVE Placed(r)'
    BY <1>2 DEF IInv, InOnePlace
  <2>1. Placed(r)
    BY DEF IInv, InOnePlace
  <2>2. CASE r = s
    BY <1>1, <1>2, <1>4, <2>2 DEF Placed, Unplaced, Threads, Other
  <2>3. CASE r # s
    <3>1. \A th \in Threads : cur'[th] = r => cur[th] = r
      BY <1>4, <2>3 DEF Threads
    <3> QED BY <1>2, <1>4, <2>1, <2>3, <3>1 DEF Placed, Unplaced, Threads, Other
  <2> QED BY <2>2, <2>3
<1> QED BY <1>5, <1>6, <1>7, <1>8, <1>9, <1>10, <1>11 DEF IInv

LEMMA TakeFirstInv ==
  ASSUME IInv, TakeFirst
  PROVE  IInv'
<1>1. 1 \in 1 .. Len(colaListos) /\ Head(colaListos) = colaListos[1] /\ Tail(colaListos) = RemoveAt(colaListos, 1)
  BY TailIsRemoveAt DEF TakeFirst, IInv, TypeOK
<1> QED BY <1>1, TakeInv DEF TakeFirst

LEMMA TakeUndecidedInv ==
  ASSUME IInv, TakeUndecided
  PROVE  IInv'
<1> DEFINE i == CHOOSE k \in Undecided : \A l \in Undecided : k <= l
<1>1. Undecided \in SUBSET (1 .. Len(colaListos)) /\ Len(colaListos) \in Nat
  BY DEF Undecided, IInv, TypeOK
<1>2. CASE Undecided # {} /\ Goto("plan", "serve")
  <2>1. i \in 1 .. Len(colaListos)
    <3>1. Undecided \in SUBSET Nat
      BY <1>1
    <3>2. i \in Undecided
      BY <1>2, <3>1, LeastIsOne
    <3> QED BY <1>1, <3>2
  <2>2. /\ cur' = Set(cur, "plan", colaListos[i]) /\ colaListos' = RemoveAt(colaListos, i)
        /\ mode' = "once" /\ q' = 0 /\ pc["plan"] = "idle"
        /\ UNCHANGED <<trainer, entrenadores, colaBloqueados, sessions, nests, sockets, asked, hand,
                       mutexes, config, alive>>
    BY <1>2 DEF TakeUndecided
  <2> HIDE DEF i
  <2> QED BY <1>2, <2>1, <2>2, TakeInv
<1>3. CASE Undecided = {}
  <2> USE DEF trainer, sessions, nests, sockets, mutexes, config
  <2>1. /\ pc["plan"] = "idle" /\ Goto("plan", "nearest") /\ UNCHANGED <<cur, colaListos, mode, q>>
        /\ UNCHANGED <<trainer, entrenadores, colaBloqueados, sessions, nests, sockets, asked, hand,
                       mutexes, config, alive>>
    BY <1>3 DEF TakeUndecided
  <2>2. TypeOK'
    BY <2>1 DEF IInv, TypeOK, Goto, Set, Steps, Threads
  <2> QED BY <2>1, <2>2, ThreadStep DEF Steps, Threads
<1> QED BY <1>2, <1>3 DEF TakeUndecided

LEMMA TakeNearestInv ==
  ASSUME IInv, TakeNearest
  PROVE  IInv'
<1>1. CASE alive' = FALSE /\ UNCHANGED <<cur, colaListos, mode, q, pc>>
  <2>1. UNCHANGED <<trainer, queues, sessions, nests, sockets, threads, mutexes, config>>
    BY <1>1 DEF TakeNearest, queues, threads
  <2> QED BY <1>1, <2>1, ExitInv
<1>2. ASSUME NEW i \in DOMAIN colaListos,
             cur' = Set(cur, "plan", colaListos[i]), colaListos' = RemoveAt(colaListos, i),
             mode' = "until", q' = 0, Goto("plan", "serve"), UNCHANGED alive
      PROVE  IInv'
  <2>1. i \in 1 .. Len(colaListos)
    BY DEF IInv, TypeOK
  <2> QED BY <1>2, <2>1, TakeInv DEF TakeNearest
<1> QED BY <1>1, <1>2 DEF TakeNearest

\* An answer to the trainer that the planner serves: it is read, and there is
\* nothing to read any more.
LEMMA AnswerInv ==
  ASSUME IInv, pc["plan"] = "serve", NEW b, NEW d \in 0 .. MaxDistance,
         b \in PokeNests \cup {NONE}, out[cur["plan"]] # <<>>, Tail(out[cur["plan"]]) = <<>>,
         buscada' = Set(buscada, cur["plan"], b),
         distance' = Set(distance, cur["plan"], d),
         Proceed(cur["plan"], "walk"),
         out' = Set(out, cur["plan"], Tail(out[cur["plan"]])),
         Again,
         UNCHANGED <<goals, queues, pokemons, ultimo, freed, nests, sockets, cur, asked, hand, mode,
                     mutexes, config, alive>>
  PROVE  IInv'
<1> USE DEF queues, nests, sockets, mutexes, config
<1> DEFINE s == cur["plan"]
<1>1. /\ s \in Sessions /\ Placed(s) /\ Unplaced(s) /\ cur["main"] # s /\ tpc[s] \notin Outside
  BY AtWork DEF Threads, Other
<1>2. PICK place \in {"walk", "closed"} : tpc' = [tpc EXCEPT ![s] = place] /\ (place = "closed" <=> Gone(s))
  <2>1. CASE Gone(s)
    BY <2>1 DEF Proceed, Gone, IInv, TypeOK
  <2>2. CASE ~Gone(s)
    BY <2>2 DEF Proceed, Set
  <2> QED BY <2>1, <2>2
<1>3. PICK step \in {"serve", "requeue"} :
        /\ pc' = [pc EXCEPT !["plan"] = step]
        /\ step = "serve" => mode = "until" \/ (mode = "quantum" /\ q + 1 < Quantum)
  BY DEF Again, Goto, Set
<1>4. /\ q' \in 0 .. Quantum
      /\ mode = "quantum" => q' = q + 1
  <2>1. mode = "quantum" => q < Quantum
    BY DEF IInv, Slice
  <2> QED BY <2>1, MapaAssumption DEF Again, IInv, TypeOK
<1>5. /\ buscada' = [buscada EXCEPT ![s] = b] /\ distance' = [distance EXCEPT ![s] = d]
      /\ out' = [out EXCEPT ![s] = <<>>]
  BY DEF Set
<1> HIDE DEF s
<1>6. /\ pc'["plan"] = step /\ pc'["main"] = pc["main"]
      /\ tpc'[s] = place /\ out'[s] = <<>>
      /\ \A r \in Sessions \ {s} : /\ tpc'[r] = tpc[r] /\ out'[r] = out[r]
                                   /\ buscada'[r] = buscada[r] /\ distance'[r] = distance[r]
  BY <1>1, <1>2, <1>3, <1>5 DEF IInv, TypeOK, Threads
<1>7. TypeOK'
  <2>1. tpc' \in [Sessions -> Places]
    BY <1>2 DEF IInv, TypeOK, Places
  <2>2. out' \in [Sessions -> Seq(Messages)]
    <3>1. <<>> \in Seq(Messages)
      OBVIOUS
    <3> QED BY <1>5, <3>1 DEF IInv, TypeOK
  <2>3. /\ buscada' \in [Sessions -> PokeNests \cup {NONE}]
        /\ distance' \in [Sessions -> 0 .. MaxDistance]
    <3>1. /\ buscada \in [Sessions -> PokeNests \cup {NONE}]
          /\ distance \in [Sessions -> 0 .. MaxDistance]
      BY DEF IInv, TypeOK
    <3>2. buscada' \in [Sessions -> PokeNests \cup {NONE}]
      BY <1>1, <1>5, <3>1
    <3> QED BY <1>1, <1>5, <3>1, <3>2
  <2>4. pc' \in [Threads -> Steps]
    BY <1>3 DEF IInv, TypeOK, Steps
  <2> QED BY <1>4, <2>1, <2>2, <2>3, <2>4 DEF IInv, TypeOK
<1>8. Busy'
  BY <1>3, <1>6 DEF IInv, Busy, Threads
<1>9. Requests'
  <2> SUFFICES ASSUME NEW r \in Sessions PROVE Request(r)'
    BY DEF Requests
  <2>1. CASE r = s
    BY <1>6, <2>1, Silent DEF Request
  <2>2. CASE r # s
    BY <1>6, <2>2 DEF IInv, Requests, Request
  <2> QED BY <2>1, <2>2
<1>10. Greeting'
  <2> SUFFICES ASSUME pc["main"] = "handshake" PROVE tpc'[cur["main"]] = tpc[cur["main"]]
    BY <1>6 DEF IInv, Greeting
  <2>1. cur["main"] \in Sessions
    BY AtWork DEF Threads
  <2> QED BY <1>1, <1>6, <2>1 DEF s
<1>11. Captures'
  <2> SUFFICES ASSUME NEW r \in Sessions, Contains(colaBloqueados, r), buscada'[r] # NONE
               PROVE  Capturing(r)'
    BY <1>6 DEF Captures
  <2>1. r # s
    BY <1>1 DEF Unplaced
  <2> QED BY <1>6, <2>1 DEF IInv, Captures, Capturing
<1>12. Slice'
  BY <1>3, <1>4, <1>6 DEF Slice
<1>13. InOnePlace'
  <2> SUFFICES ASSUME NEW r \in Sessions PROVE Placed(r)'
    BY DEF IInv, InOnePlace
  <2>1. tpc'[r] \in Outside => tpc[r] \in Outside
    BY <1>2, <1>6 DEF Outside
  <2> QED BY <2>1 DEF IInv, InOnePlace, Placed, Unplaced
<1>14. InOneHand'
  BY DEF IInv, InOneHand
<1> QED BY <1>7, <1>8, <1>9, <1>10, <1>11, <1>12, <1>13, <1>14 DEF IInv

LEMMA ServeLocateInv ==
  ASSUME IInv, ServeLocate
  PROVE  IInv'
<1> DEFINE s == cur["plan"]
<1>1. pc["plan"] = "serve" /\ out[s] # <<>> /\ Head(out[s]) = "ubicar"
  BY DEF ServeLocate
<1>2. s \in Sessions /\ Request(s)
  BY <1>1, AtWork DEF Threads
<1>3. goals[s] # <<>> /\ Tail(out[s]) = <<>>
  BY <1>1, <1>2, Spoken DEF Request
<1>4. Head(goals[s]) \in PokeNests
  BY <1>2, <1>3 DEF IInv, TypeOK
<1>5. PICK d \in 0 .. MaxDistance : distance' = Set(distance, s, d)
  BY DEF ServeLocate
<1> QED BY <1>1, <1>3, <1>4, <1>5, AnswerInv DEF ServeLocate

LEMMA ServeMoveInv ==
  ASSUME IInv, ServeMove
  PROVE  IInv'
<1> DEFINE s == cur["plan"]
<1>1. pc["plan"] = "serve" /\ out[s] # <<>> /\ Head(out[s]) = "avanzar"
  BY DEF ServeMove
<1>2. s \in Sessions /\ Request(s)
  BY <1>1, AtWork DEF Threads
<1>3. distance[s] > 0 /\ Tail(out[s]) = <<>>
  BY <1>1, <1>2, Spoken DEF Request
<1>4. distance[s] - 1 \in 0 .. MaxDistance /\ buscada[s] \in PokeNests \cup {NONE}
  <2>1. distance[s] \in 0 .. MaxDistance /\ buscada[s] \in PokeNests \cup {NONE}
    BY <1>2 DEF IInv, TypeOK
  <2> HIDE DEF s
  <2> QED BY <1>3, <2>1, MapaAssumption
<1>5. buscada' = Set(buscada, s, buscada[s])
  BY <1>2 DEF ServeMove, IInv, TypeOK, Set
<1> QED BY <1>1, <1>3, <1>4, <1>5, AnswerInv DEF ServeMove

\* A capture: the pokemon goes from its PokeNest to the trainer, or the trainer
\* is about to be blocked; it waits for the answer in both cases.
LEMMA CatchInv ==
  ASSUME IInv, pc["plan"] = "serve", out[cur["plan"]] # <<>>,
         Head(out[cur["plan"]]) \in {"atrapar", "ultimo"},
         NEW n \in PokeNests, NEW last \in BOOLEAN, Catch(n, last)
  PROVE  IInv'
<1> USE DEF queues, sockets, mutexes, config
<1> DEFINE s == cur["plan"]
           rest == Tail(out[s])
<1>1. s \in Sessions /\ Request(s) /\ Placed(s) /\ Unplaced(s) /\ cur["main"] # s /\ s \notin freed
  BY AtWork DEF Threads, Other
<1>2. goals[s] # <<>> /\ tpc[s] \in Waits
  BY <1>1, Spoken DEF Request
<1>3. rest = <<>> \/ (rest = <<"junk">> /\ Len(goals[s]) <= 1)
  <2>1. CASE Head(out[s]) = "atrapar"
    BY <1>1, <2>1, Spoken DEF Request
  <2>2. CASE Head(out[s]) = "ultimo"
    BY <1>1, <2>2, Spoken DEF Request
  <2> QED BY <2>1, <2>2
<1>4. /\ out' = [out EXCEPT ![s] = rest]
      /\ UNCHANGED <<tpc, goals, queues, buscada, distance, freed, cantidad, sockets, cur, asked, hand,
                     mode, q, mutexes, config, alive>>
  BY DEF Catch, Set
<1>5. PICK step \in {"block", "captured", "last"} : pc' = [pc EXCEPT !["plan"] = step]
  BY DEF Catch, Goto, Set
<1>6. \/ UNCHANGED <<pokemons, listaPokemons>>
      \/ \E p \in listaPokemons[n] :
           /\ listaPokemons' = [listaPokemons EXCEPT ![n] = listaPokemons[n] \ {p}]
           /\ pokemons' = [pokemons EXCEPT ![s] = Append(pokemons[s], p)]
  BY DEF Catch, Set
<1>7. ultimo' \in [Sessions -> BOOLEAN]
  BY DEF Catch, Set, IInv, TypeOK
<1> HIDE DEF s, rest
<1>8. /\ pc'["plan"] = step /\ pc'["main"] = pc["main"]
      /\ out'[s] = rest /\ \A r \in Sessions \ {s} : out'[r] = out[r]
  BY <1>1, <1>4, <1>5 DEF IInv, TypeOK, Threads
<1>9. /\ pokemons' \in [Sessions -> Seq(Pokemons)]
      /\ listaPokemons' \in [PokeNests -> SUBSET Pokemons]
      /\ \A r \in Sessions \ {s} : pokemons'[r] = pokemons[r]
  <2>1. CASE UNCHANGED <<pokemons, listaPokemons>>
    BY <2>1 DEF IInv, TypeOK
  <2>2. ASSUME NEW p \in listaPokemons[n],
               listaPokemons' = [listaPokemons EXCEPT ![n] = listaPokemons[n] \ {p}],
               pokemons' = [pokemons EXCEPT ![s] = Append(pokemons[s], p)]
        PROVE  <1>9!1 /\ <1>9!2 /\ <1>9!3
    <3>1. p \in Pokemons /\ pokemons[s] \in Seq(Pokemons)
      BY <1>1 DEF IInv, TypeOK
    <3>2. Append(pokemons[s], p) \in Seq(Pokemons)
      BY <3>1
    <3> QED BY <2>2, <3>2, <1>1 DEF IInv, TypeOK
  <2> QED BY <1>6, <2>1, <2>2
<1>10. TypeOK'
  <2>1. rest \in Seq(Messages)
    <3>1. "junk" \in Messages
      BY DEF Messages
    <3>2. <<>> \in Seq(Messages)
      OBVIOUS
    <3> QED BY <1>3, <3>1, <3>2, Wording
  <2>2. out' \in [Sessions -> Seq(Messages)] /\ pc' \in [Threads -> Steps]
    BY <1>4, <1>5, <2>1 DEF IInv, TypeOK, Steps
  <2> QED BY <1>4, <1>7, <1>9, <2>2 DEF IInv, TypeOK
<1>11. Busy'
  BY <1>4, <1>8 DEF IInv, Busy, Threads
<1>12. MayBeSent(rest, goals[s], tpc[s], distance[s]) /\ rest \in Quiet
  BY <1>2, <1>3, Silent
<1>13. Requests'
  <2> SUFFICES ASSUME NEW r \in Sessions PROVE Request(r)'
    BY DEF Requests
  <2>1. CASE r = s
    BY <1>4, <1>8, <1>12, <2>1 DEF Request
  <2>2. CASE r # s
    BY <1>4, <1>8, <2>2 DEF IInv, Requests, Request
  <2> QED BY <2>1, <2>2
<1>14. Greeting'
  BY <1>4, <1>8 DEF IInv, Greeting
<1>15. Captures'
  <2>1. ASSUME NEW r \in Sessions, Contains(colaBloqueados, r), buscada[r] # NONE
        PROVE  Capturing(r)'
    <3>1. r # s
      BY <1>1, <2>1 DEF Unplaced
    <3> QED BY <1>4, <1>8, <2>1, <3>1 DEF IInv, Captures, Capturing
  <2>2. cur'["plan"] = s
    BY <1>4 DEF s
  <2>3. Capturing(cur["plan"])'
    BY <1>2, <1>4, <1>8, <1>12, <2>2 DEF Capturing
  <2> QED BY <1>4, <2>1, <2>3 DEF Captures
<1>16. Slice'
  BY <1>8 DEF Slice
<1>17. InOnePlace'
  <2> SUFFICES ASSUME NEW r \in Sessions PROVE Placed(r)'
    BY <1>4 DEF IInv, InOnePlace
  <2>1. Placed(r) /\ (r \in freed => pokemons'[r] = pokemons[r])
    BY <1>1, <1>9 DEF IInv, InOnePlace
  <2> QED BY <1>4, <2>1 DEF Placed, Unplaced
<1>18. InOneHand'
  <2>1. CASE UNCHANGED <<pokemons, listaPokemons>>
    BY <2>1 DEF IInv, InOneHand
  <2>2. ASSUME NEW p \in listaPokemons[n],
               listaPokemons' = [listaPokemons EXCEPT ![n] = listaPokemons[n] \ {p}],
               pokemons' = [pokemons EXCEPT ![s] = Append(pokemons[s], p)]
        PROVE  InOneHand'
    <3>0. p \in Pokemons
      BY DEF IInv, TypeOK
    <3>1. p \in Pokemons /\ n = Nest[p] /\ \A r \in Sessions : ~Contains(pokemons[r], p)
      BY <1>1, <3>0 DEF IInv, InOneHand
    <3>2. /\ \A x : Contains(pokemons'[s], x) <=> Contains(pokemons[s], x) \/ x = p
          /\ IsInjective(pokemons'[s])
      <4>1. pokemons'[s] = Append(pokemons[s], p) /\ pokemons[s] \in Seq(Pokemons)
        BY <1>1, <2>2 DEF IInv, TypeOK
      <4>2. IsInjective(pokemons[s]) /\ ~Contains(pokemons[s], p)
        BY <1>1, <3>1 DEF IInv, InOneHand
      <4> QED BY <3>1, <4>1, <4>2, AppendFacts
    <3>3. \A m \in PokeNests : \A x : x \in listaPokemons'[m] <=> x \in listaPokemons[m] /\ ~(m = n /\ x = p)
      BY <2>2 DEF IInv, TypeOK
    <3>4. \A r \in Sessions : IsInjective(pokemons'[r])
      BY <1>9, <3>2 DEF IInv, InOneHand
    <3>5. \A r \in Sessions : \A x : Contains(pokemons'[r], x) <=> Contains(pokemons[r], x) \/ (r = s /\ x = p)
      BY <1>9, <3>2
    <3>6. ASSUME NEW x \in Pokemons
          PROVE  /\ \A r, t \in Sessions : Contains(pokemons'[r], x) /\ Contains(pokemons'[t], x) => r = t
                 /\ \A m \in PokeNests :
                      x \in listaPokemons'[m] => m = Nest[x] /\ \A r \in Sessions : ~Contains(pokemons'[r], x)
                 /\ x \notin listaPokemons'[Nest[x]] => \E r \in Sessions : Contains(pokemons'[r], x)
      <4>1. Nest[x] \in PokeNests
        BY MapaAssumption
      <4>2. CASE x = p
        <5>1. \A r \in Sessions : Contains(pokemons'[r], p) <=> r = s
          BY <3>1, <3>5
        <5>2. \A m \in PokeNests : p \notin listaPokemons'[m]
          BY <1>1, <3>1, <3>3 DEF IInv, InOneHand
        <5> QED BY <1>1, <4>2, <5>1, <5>2
      <4>3. CASE x # p
        BY <3>3, <3>5, <4>1, <4>3 DEF IInv, InOneHand
      <4> QED BY <4>2, <4>3
    <3> QED BY <3>4, <3>6 DEF InOneHand
  <2> QED BY <1>6, <2>1, <2>2
<1> QED BY <1>10, <1>11, <1>13, <1>14, <1>15, <1>16, <1>17, <1>18 DEF IInv

LEMMA ServeCatchInv ==
  ASSUME IInv, ServeCatch
  PROVE  IInv'
<1> DEFINE s == cur["plan"]
<1>1. pc["plan"] = "serve" /\ out[s] # <<>> /\ Head(out[s]) = "atrapar" /\ Catch(Head(goals[s]), FALSE)
  BY DEF ServeCatch
<1>2. s \in Sessions /\ Request(s)
  BY <1>1, AtWork DEF Threads
<1>3. goals[s] # <<>>
  BY <1>1, <1>2, Spoken DEF Request
<1>4. Head(goals[s]) \in PokeNests
  BY <1>2, <1>3 DEF IInv, TypeOK
<1> QED BY <1>1, <1>4, CatchInv

LEMMA ServeLastInv ==
  ASSUME IInv, ServeLast
  PROVE  IInv'
<1>1. pc["plan"] = "serve" /\ out[cur["plan"]] # <<>> /\ Head(out[cur["plan"]]) = "ultimo"
  BY DEF ServeLast
<1>2. ASSUME NEW n \in PokeNests, Catch(n, TRUE) PROVE IInv'
  BY <1>1, <1>2, CatchInv
<1> QED BY <1>2, ExitInv DEF ServeLast

\* The trainer is told of its capture, and goes on to its next objective.
LEMMA CapturedInv ==
  ASSUME IInv, Captured
  PROVE  IInv'
<1> USE DEF queues, sockets, mutexes, config
<1> DEFINE s == cur["plan"]
<1>1. /\ s \in Sessions /\ Request(s) /\ Placed(s) /\ Unplaced(s) /\ cur["main"] # s
      /\ tpc[s] \notin Outside
  BY AtWork DEF Captured, Threads, Other
<1>2. Capturing(s)
  BY DEF Captured, IInv, Captures
<1>3. cantidad' \in [PokeNests -> Int]
  BY DEF Captured, IInv, TypeOK, Set
<1>4. /\ pc["plan"] \in {"captured", "last"}
      /\ buscada' = [buscada EXCEPT ![s] = NONE]
      /\ UNCHANGED <<out, queues, distance, pokemons, ultimo, freed, listaPokemons, sockets, cur, hand,
                     mode, q, mutexes, config, alive>>
  BY DEF Captured, Set
<1>5. PICK place \in Places, g \in Seq(PokeNests) :
        /\ tpc' = [tpc EXCEPT ![s] = place] /\ goals' = [goals EXCEPT ![s] = g]
        /\ \/ place = "closed" /\ g = goals[s]
           \/ place = "ask" /\ g = Tail(goals[s])
  <2>1. goals[s] \in Seq(PokeNests) /\ Tail(goals[s]) \in Seq(PokeNests)
    BY <1>1, <1>2 DEF Capturing, IInv, TypeOK
  <2>2. CASE Gone(s)
    BY <2>1, <2>2 DEF Captured, Proceed, Gone, Places, IInv, TypeOK
  <2>3. CASE ~Gone(s)
    BY <2>1, <2>3 DEF Captured, Proceed, Set, Places
  <2> QED BY <2>2, <2>3
<1>6. /\ asked' \in [Threads -> Sessions \cup {NONE}]
      /\ \E step \in {"requeue", "await"} : pc' = [pc EXCEPT !["plan"] = step]
  BY <1>1 DEF Captured, Goto, Set, IInv, TypeOK
<1>7. Len(goals[s]) <= 1 => Tail(goals[s]) = <<>>
  <2>1. goals[s] \in Seq(PokeNests) /\ goals[s] # <<>>
    BY <1>1, <1>2 DEF Capturing, IInv, TypeOK
  <2> HIDE DEF s
  <2> QED BY <2>1
<1>8. cur["main"] = NONE \/ (cur["main"] \in Sessions /\ cur["main"] # s)
  BY <1>1 DEF IInv, TypeOK, Threads
<1> HIDE DEF s
<1>9. /\ pc'["plan"] \in {"requeue", "await"} /\ pc'["main"] = pc["main"]
      /\ tpc'[s] = place /\ goals'[s] = g /\ buscada'[s] = NONE
      /\ \A r \in Sessions \ {s} : tpc'[r] = tpc[r] /\ goals'[r] = goals[r] /\ buscada'[r] = buscada[r]
  BY <1>1, <1>4, <1>5, <1>6 DEF IInv, TypeOK, Threads
<1>10. TypeOK'
  <2>1. /\ tpc' \in [Sessions -> Places] /\ goals' \in [Sessions -> Seq(PokeNests)]
        /\ buscada' \in [Sessions -> PokeNests \cup {NONE}] /\ pc' \in [Threads -> Steps]
    BY <1>4, <1>5, <1>6 DEF IInv, TypeOK, Steps
  <2> QED BY <1>3, <1>4, <1>6, <2>1 DEF IInv, TypeOK
<1>11. Busy'
  BY <1>4, <1>9 DEF IInv, Busy, Threads
<1>12. MayBeSent(out[s], g, place, distance[s])
  <2>1. out[s] = <<>> \/ (out[s] = <<"junk">> /\ Len(goals[s]) <= 1)
    BY <1>1, <1>2, Quieted DEF Capturing, Request
  <2>2. Len(<<>>) <= 1
    OBVIOUS
  <2>3. CASE place = "closed" /\ g = goals[s]
    BY <2>1, <2>3, Silent DEF Waits
  <2>4. CASE place = "ask" /\ g = Tail(goals[s])
    <3>1. CASE out[s] = <<>>
      BY <3>1, Silent
    <3>2. CASE out[s] = <<"junk">> /\ Len(goals[s]) <= 1
      <4>1. g = <<>>
        BY <1>7, <2>4, <3>2
      <4>2. Len(g) <= 1
        BY <2>2, <4>1
      <4> QED BY <3>2, <4>1, <4>2, Silent
    <3> QED BY <2>1, <3>1, <3>2
  <2> QED BY <1>5, <2>3, <2>4
<1>13. Requests'
  <2> SUFFICES ASSUME NEW r \in Sessions PROVE Request(r)'
    BY DEF Requests
  <2>1. CASE r = s
    BY <1>4, <1>9, <1>12, <2>1 DEF Request
  <2>2. CASE r # s
    BY <1>4, <1>9, <2>2 DEF IInv, Requests, Request
  <2> QED BY <2>1, <2>2
<1>14. Greeting'
  <2> SUFFICES ASSUME pc["main"] = "handshake" PROVE tpc'[cur["main"]] = tpc[cur["main"]]
    BY <1>4, <1>9 DEF IInv, Greeting
  <2>1. cur["main"] \in Sessions
    BY AtWork DEF Threads
  <2> QED BY <1>1, <1>9, <2>1
<1>15. Captures'
  <2> SUFFICES ASSUME NEW r \in Sessions, Contains(colaBloqueados, r), buscada'[r] # NONE
               PROVE  Capturing(r)'
    BY <1>4, <1>9 DEF Captures
  <2>1. r # s
    BY <1>9
  <2> QED BY <1>4, <1>9, <2>1 DEF IInv, Captures, Capturing
<1>16. Slice'
  BY <1>9 DEF Slice
<1>17. InOnePlace'
  <2> SUFFICES ASSUME NEW r \in Sessions PROVE Placed(r)'
    BY <1>4 DEF IInv, InOnePlace
  <2>1. tpc'[r] \in Outside => tpc[r] \in Outside
    BY <1>5, <1>9 DEF Outside
  <2> QED BY <1>4, <2>1 DEF IInv, InOnePlace, Placed, Unplaced
<1>18. InOneHand'
  BY <1>4 DEF IInv, InOneHand
<1> QED BY <1>10, <1>11, <1>13, <1>14, <1>15, <1>16, <1>17, <1>18 DEF IInv

\* The turn is over.
LEMMA RequeueInv ==
  ASSUME IInv, Requeue
  PROVE  IInv'
<1> USE DEF trainer, sessions, nests, sockets, mutexes, config
<1> DEFINE s == cur["plan"]
<1>1. /\ s \in Sessions /\ Placed(s) /\ Unplaced(s) /\ cur["main"] # s /\ s \notin freed
      /\ tpc[s] \notin Outside
  BY AtWork DEF Requeue, Threads, Other
<1>2. /\ cur' = [cur EXCEPT !["plan"] = NONE] /\ pc' = [pc EXCEPT !["plan"] = "idle"]
      /\ colaListos' = Append(colaListos, s)
      /\ UNCHANGED <<trainer, entrenadores, colaBloqueados, sessions, nests, sockets, asked, hand, mode,
                     q, mutexes, config, alive>>
  BY DEF Requeue, Goto, Set
<1>3. /\ colaListos' \in Seq(Sessions) /\ IsInjective(colaListos')
      /\ \A r : Contains(colaListos', r) <=> Contains(colaListos, r) \/ r = s
  <2>1. colaListos \in Seq(Sessions) /\ IsInjective(colaListos) /\ ~Contains(colaListos, s)
    BY <1>1 DEF IInv, TypeOK, InOnePlace, Unplaced
  <2> QED BY <1>1, <1>2, <2>1, AppendFacts
<1> HIDE DEF s
<1>4. /\ cur'["plan"] = NONE /\ cur'["main"] = cur["main"]
      /\ pc'["plan"] = "idle" /\ pc'["main"] = pc["main"]
  BY <1>2 DEF IInv, TypeOK, Threads
<1>5. TypeOK'
  <2>1. cur' \in [Threads -> Sessions \cup {NONE}] /\ pc' \in [Threads -> Steps]
    BY <1>2 DEF IInv, TypeOK, Steps
  <2> QED BY <1>2, <1>3, <2>1 DEF IInv, TypeOK
<1>6. Busy'
  BY <1>4 DEF IInv, Busy, Threads
<1>7. Requests' /\ InOneHand'
  BY <1>2 DEF IInv, Requests, Request, InOneHand
<1>8. Greeting' /\ Slice'
  BY <1>2, <1>4 DEF IInv, Greeting, Slice
<1>9. Captures'
  BY <1>2, <1>4 DEF IInv, Captures, Capturing
<1>10. InOnePlace'
  <2> SUFFICES ASSUME NEW r \in Sessions PROVE Placed(r)'
    BY <1>2, <1>3 DEF IInv, InOnePlace
  <2>1. Placed(r)
    BY DEF IInv, InOnePlace
  <2>2. \A th \in Threads : cur'[th] = r => cur[th] = r /\ r # s
    BY <1>1, <1>4, MapaAssumption DEF Threads
  <2>3. CASE r = s
    BY <1>1, <1>2, <1>3, <2>2, <2>3 DEF Placed, Unplaced
  <2>4. CASE r # s
    <3>1. \A th \in Threads : cur'[Other(th)] = r => cur[Other(th)] = r
      BY <2>2 DEF Threads, Other
    <3> QED BY <1>2, <1>3, <2>1, <2>2, <2>4, <3>1 DEF Placed, Unplaced
  <2> QED BY <2>3, <2>4
<1> QED BY <1>5, <1>6, <1>7, <1>8, <1>9, <1>10 DEF IInv

\* bloquearEntrenador
LEMMA BlockInv ==
  ASSUME IInv, Block
  PROVE  IInv'
<1> USE DEF trainer, sessions, nests, mutexes, config
<1> DEFINE s == cur["plan"]
<1>1. /\ s \in Sessions /\ Placed(s) /\ Unplaced(s) /\ cur["main"] # s /\ s \notin freed
      /\ tpc[s] \notin Outside
  BY AtWork DEF Block, Threads, Other
<1>2. Capturing(s)
  BY DEF Block, IInv, Captures
<1>3. /\ cur' = [cur EXCEPT !["plan"] = NONE] /\ pc' = [pc EXCEPT !["plan"] = "idle"]
      /\ colaBloqueados' = Append(colaBloqueados, s)
      /\ UNCHANGED <<trainer, entrenadores, colaListos, sessions, nests, lectura, asked, hand, mode, q,
                     mutexes, config, alive>>
  BY DEF Block, Goto, Set
<1>4. master' \subseteq Sessions
  BY <1>1 DEF Block, IInv, TypeOK
<1>5. /\ colaBloqueados' \in Seq(Sessions) /\ IsInjective(colaBloqueados')
      /\ \A r : Contains(colaBloqueados', r) <=> Contains(colaBloqueados, r) \/ r = s
  <2>1. colaBloqueados \in Seq(Sessions) /\ IsInjective(colaBloqueados) /\ ~Contains(colaBloqueados, s)
    BY <1>1 DEF IInv, TypeOK, InOnePlace, Unplaced
  <2> QED BY <1>1, <1>3, <2>1, AppendFacts
<1> HIDE DEF s
<1>6. /\ cur'["plan"] = NONE /\ cur'["main"] = cur["main"]
      /\ pc'["plan"] = "idle" /\ pc'["main"] = pc["main"]
  BY <1>3 DEF IInv, TypeOK, Threads
<1>7. TypeOK'
  <2>1. cur' \in [Threads -> Sessions \cup {NONE}] /\ pc' \in [Threads -> Steps]
    BY <1>3 DEF IInv, TypeOK, Steps
  <2> QED BY <1>3, <1>4, <1>5, <2>1 DEF IInv, TypeOK
<1>8. Busy'
  BY <1>6 DEF IInv, Busy, Threads
<1>9. Requests' /\ InOneHand'
  BY <1>3 DEF IInv, Requests, Request, InOneHand
<1>10. Greeting' /\ Slice'
  BY <1>3, <1>6 DEF IInv, Greeting, Slice
<1>11. Captures'
  BY <1>2, <1>3, <1>5, <1>6 DEF IInv, Captures, Capturing
<1>12. InOnePlace'
  <2> SUFFICES ASSUME NEW r \in Sessions PROVE Placed(r)'
    BY <1>3, <1>5 DEF IInv, InOnePlace
  <2>1. Placed(r)
    BY DEF IInv, InOnePlace
  <2>2. \A th \in Threads : cur'[th] = r => cur[th] = r /\ r # s
    BY <1>1, <1>6, MapaAssumption DEF Threads
  <2>3. CASE r = s
    BY <1>1, <1>3, <1>5, <2>2, <2>3 DEF Placed, Unplaced
  <2>4. CASE r # s
    <3>1. \A th \in Threads : cur'[Other(th)] = r => cur[Other(th)] = r
      BY <2>2 DEF Threads, Other
    <3> QED BY <1>3, <1>5, <2>1, <2>2, <2>4, <3>1 DEF Placed, Unplaced
  <2> QED BY <2>3, <2>4
<1> QED BY <1>7, <1>8, <1>9, <1>10, <1>11, <1>12 DEF IInv

-----------------------------------------------------------------------------
(* The select thread *)

\* A connection that nobody worked on yet.
LEMMA AcceptInv ==
  ASSUME IInv, Accept
  PROVE  IInv'
<1> USE DEF queues, sessions, nests, mutexes, config
<1>1. PICK s \in Connecting :
        /\ cur' = [cur EXCEPT !["main"] = s]
        /\ tpc' = [tpc EXCEPT ![s] = IF tpc[s] = "quit" THEN "closed" ELSE "connected"]
  BY DEF Accept, Set
<1>2. /\ pc["main"] = "loop" /\ pc' = [pc EXCEPT !["main"] = "handshake"]
      /\ lectura' = lectura \ {LISTENER}
      /\ UNCHANGED <<goals, out, queues, sessions, nests, master, asked, hand, mode, q, mutexes, config,
                     alive>>
  BY DEF Accept, Goto, Set
<1>3. PICK place \in {"connected", "closed"} : tpc' = [tpc EXCEPT ![s] = place]
  BY <1>1
<1>4. /\ s \in Sessions /\ tpc[s] \in Outside /\ Placed(s) /\ Request(s)
      /\ Unplaced(s) /\ s \notin freed /\ \A th \in Threads : cur[th] # s
  <2>1. s \in Sessions /\ tpc[s] \in Outside
    BY <1>1 DEF Connecting, Outside
  <2>2. Placed(s) /\ Request(s)
    BY <2>1 DEF IInv, InOnePlace, Requests
  <2> QED BY <2>1, <2>2 DEF Placed
<1>5. /\ cur'["main"] = s /\ cur'["plan"] = cur["plan"]
      /\ pc'["main"] = "handshake" /\ pc'["plan"] = pc["plan"]
      /\ tpc'[s] = place /\ \A r \in Sessions \ {s} : tpc'[r] = tpc[r]
  BY <1>1, <1>2, <1>3, <1>4 DEF IInv, TypeOK, Threads
<1>6. TypeOK'
  <2>1. tpc' \in [Sessions -> Places]
    BY <1>3 DEF IInv, TypeOK, Places
  <2>2. cur' \in [Threads -> Sessions \cup {NONE}] /\ pc' \in [Threads -> Steps]
    BY <1>1, <1>2, <1>4 DEF IInv, TypeOK, Steps
  <2> QED BY <1>2, <2>1, <2>2 DEF IInv, TypeOK
<1>7. Busy'
  BY <1>4, <1>5, MapaAssumption DEF IInv, Busy, Threads
<1>8. Requests'
  <2> SUFFICES ASSUME NEW r \in Sessions PROVE Request(r)'
    BY DEF Requests
  <2>1. CASE r = s
    BY <1>2, <1>4, <1>5, <2>1 DEF Request, MayBeSent, Outside, Waits
  <2>2. CASE r # s
    BY <1>2, <1>5, <2>2 DEF IInv, Requests, Request
  <2> QED BY <2>1, <2>2
<1>9. Greeting'
  BY <1>5 DEF Greeting
<1>10. Captures'
  <2>1. ASSUME pc["plan"] \in {"captured", "last", "block"} PROVE Capturing(cur["plan"])'
    <3>1. cur["plan"] \in Sessions \ {s}
      BY <1>4, <2>1, AtWork DEF Threads
    <3> QED BY <1>2, <1>5, <2>1, <3>1 DEF IInv, Captures, Capturing
  <2>2. ASSUME NEW r \in Sessions, Contains(colaBloqueados, r), buscada[r] # NONE
        PROVE  Capturing(r)'
    <3>1. r # s
      BY <1>4, <2>2 DEF Unplaced
    <3> QED BY <1>2, <1>5, <2>2, <3>1 DEF IInv, Captures, Capturing
  <2> QED BY <1>2, <1>5, <2>1, <2>2 DEF Captures
<1>11. Slice'
  BY <1>2, <1>5 DEF IInv, Slice
<1>12. InOnePlace'
  <2> SUFFICES ASSUME NEW r \in Sessions PROVE Placed(r)'
    BY <1>2 DEF IInv, InOnePlace
  <2>1. Placed(r)
    BY DEF IInv, InOnePlace
  <2>2. CASE r = s
    <3>1. tpc'[r] \notin Outside
      BY <1>5, <2>2 DEF Outside
    <3>2. \A th \in Threads : cur'[th] = r => cur'[Other(th)] # r
      BY <1>4, <1>5, <2>2 DEF Threads, Other
    <3> QED BY <1>2, <1>4, <2>2, <3>1, <3>2 DEF Placed, Unplaced
  <2>3. CASE r # s
    <3>1. \A th \in Threads : (cur'[th] = r => cur[th] = r) /\ (cur'[Other(th)] = r => cur[Other(th)] = r)
      BY <1>5, <2>3 DEF Threads, Other
    <3> QED BY <1>2, <1>5, <2>1, <2>3, <3>1 DEF Placed, Unplaced
  <2> QED BY <2>2, <2>3
<1>13. InOneHand'
  BY <1>2 DEF IInv, InOneHand
<1> QED BY <1>6, <1>7, <1>8, <1>9, <1>10, <1>11, <1>12, <1>13 DEF IInv

\* The new trainer is ready.
LEMMA HandshakeInv ==
  ASSUME IInv, Handshake
  PROVE  IInv'
<1> USE DEF sessions, nests, sockets, mutexes, config
<1> DEFINE s == cur["main"]
<1>1. CASE alive' = FALSE /\ UNCHANGED <<tpc, entrenadores, colaListos, cur, pc>>
  <2>1. UNCHANGED <<trainer, queues, sessions, nests, sockets, threads, mutexes, config>>
    BY <1>1 DEF Handshake, trainer, queues, threads
  <2> QED BY <1>1, <2>1, ExitInv
<1>2. CASE Proceed(s, "ask") /\ entrenadores' = Append(entrenadores, s)
           /\ colaListos' = Append(colaListos, s) /\ cur' = Set(cur, "main", NONE)
           /\ Goto("main", "loop") /\ UNCHANGED alive
  <2>1. /\ s \in Sessions /\ Placed(s) /\ Request(s) /\ Unplaced(s) /\ cur["plan"] # s /\ s \notin freed
        /\ tpc[s] \notin Outside
    BY AtWork DEF Handshake, Threads, Other
  <2>2. PICK place \in {"ask", "closed"} :
          /\ tpc' = [tpc EXCEPT ![s] = place]
          /\ tpc[s] = IF place = "ask" THEN "connected" ELSE "closed"
    <3>1. tpc[s] \in {"connected", "closed"}
      BY DEF Handshake, IInv, Greeting
    <3>2. CASE Gone(s)
      BY <1>2, <3>2 DEF Proceed, Gone, IInv, TypeOK
    <3>3. CASE ~Gone(s)
      BY <1>2, <3>1, <3>3 DEF Proceed, Gone, Set
    <3> QED BY <3>2, <3>3
  <2>3. /\ cur' = [cur EXCEPT !["main"] = NONE]
        /\ pc' = [pc EXCEPT !["main"] = "loop"]
        /\ UNCHANGED <<goals, out, colaBloqueados, sessions, nests, sockets, asked, hand, mode, q,
                       mutexes, config, alive>>
    BY <1>2 DEF Handshake, Set, Goto
  <2>4. /\ colaListos' \in Seq(Sessions) /\ IsInjective(colaListos')
        /\ \A r : Contains(colaListos', r) <=> Contains(colaListos, r) \/ r = s
    <3>1. colaListos \in Seq(Sessions) /\ IsInjective(colaListos) /\ ~Contains(colaListos, s)
      BY <2>1 DEF IInv, TypeOK, InOnePlace, Unplaced
    <3> QED BY <1>2, <2>1, <3>1, AppendFacts
  <2>5. entrenadores' \in Seq(Sessions)
    BY <1>2, <2>1 DEF IInv, TypeOK
  <2> HIDE DEF s
  <2>6. /\ cur'["main"] = NONE /\ cur'["plan"] = cur["plan"]
        /\ pc'["main"] = "loop" /\ pc'["plan"] = pc["plan"]
        /\ tpc'[s] = place /\ \A r \in Sessions \ {s} : tpc'[r] = tpc[r]
    BY <2>1, <2>2, <2>3 DEF IInv, TypeOK, Threads
  <2>7. TypeOK'
    <3>1. tpc' \in [Sessions -> Places]
      BY <2>2 DEF IInv, TypeOK, Places
    <3>2. cur' \in [Threads -> Sessions \cup {NONE}] /\ pc' \in [Threads -> Steps]
      BY <2>3 DEF IInv, TypeOK, Steps
    <3> QED BY <2>3, <2>4, <2>5, <3>1, <3>2 DEF IInv, TypeOK
  <2>8. Busy'
    BY <2>6 DEF IInv, Busy, Threads
  <2>9. Requests'
    <3> SUFFICES ASSUME NEW r \in Sessions PROVE Request(r)'
      BY DEF Requests
    <3>1. CASE r = s
      BY <2>1, <2>2, <2>3, <2>6, <3>1 DEF Request, MayBeSent, Waits
    <3>2. CASE r # s
      BY <2>3, <2>6, <3>2 DEF IInv, Requests, Request
    <3> QED BY <3>1, <3>2
  <2>10. Greeting'
    BY <2>6 DEF Greeting
  <2>11. Captures'
    <3>1. ASSUME pc["plan"] \in {"captured", "last", "block"} PROVE Capturing(cur["plan"])'
      <4>1. cur["plan"] \in Sessions \ {s}
        BY <2>1, <3>1, AtWork DEF Threads
      <4> QED BY <2>3, <2>6, <3>1, <4>1 DEF IInv, Captures, Capturing
    <3>2. ASSUME NEW r \in Sessions, Contains(colaBloqueados, r), buscada[r] # NONE
          PROVE  Capturing(r)'
      <4>1. r # s
        BY <2>1, <3>2 DEF Unplaced
      <4> QED BY <2>3, <2>6, <3>2, <4>1 DEF IInv, Captures, Capturing
    <3> QED BY <2>3, <2>6, <3>1, <3>2 DEF Captures
  <2>12. Slice'
    BY <2>3, <2>6 DEF IInv, Slice
  <2>13. InOnePlace'
    <3> SUFFICES ASSUME NEW r \in Sessions PROVE Placed(r)'
      BY <2>3, <2>4 DEF IInv, InOnePlace
    <3>1. Placed(r)
      BY DEF IInv, InOnePlace
    <3>2. \A th \in Threads : cur'[th] = r => cur[th] = r /\ r # s
      BY <2>1, <2>6, MapaAssumption DEF Threads
    <3>3. CASE r = s
      <4>1. tpc'[r] \notin Outside
        BY <2>2, <2>6, <3>3 DEF Outside
      <4> QED BY <2>1, <2>3, <2>4, <3>2, <3>3, <4>1 DEF Placed, Unplaced
    <3>4. CASE r # s
      <4>1. \A th \in Threads : cur'[Other(th)] = r => cur[Other(th)] = r
        BY <3>2 DEF Threads, Other
      <4> QED BY <2>3, <2>4, <2>6, <3>1, <3>2, <3>4, <4>1 DEF Placed, Unplaced
    <3> QED BY <3>3, <3>4
  <2>14. InOneHand'
    BY <2>3 DEF IInv, InOneHand
  <2> QED BY <2>7, <2>8, <2>9, <2>10, <2>11, <2>12, <2>13, <2>14 DEF IInv
<1> QED BY <1>1, <1>2 DEF Handshake

\* buscarEntrenador takes a trainer off the queue of blocked ones.
LEMMA LookupInv ==
  ASSUME IInv, Lookup
  PROVE  IInv'
<1> USE DEF trainer, sessions, nests, mutexes, config
<1>1. PICK s \in lectura \ {LISTENER} :
        /\ lectura' = lectura \ {s}
        /\ colaBloqueados' = RemoveFirst(colaBloqueados, s)
        /\ IF Contains(colaBloqueados, s)
           THEN cur' = Set(cur, "main", s) /\ Goto("main", "recv")
           ELSE UNCHANGED <<cur, pc>>
  BY DEF Lookup
<1>2. /\ pc["main"] = "loop"
      /\ UNCHANGED <<trainer, entrenadores, colaListos, sessions, nests, master, asked, hand, mode, q,
                     mutexes, config, alive>>
  BY DEF Lookup
<1>3. /\ s \in Sessions /\ Placed(s)
      /\ colaBloqueados \in Seq(Sessions) /\ IsInjective(colaBloqueados)
  BY DEF IInv, TypeOK, InOnePlace
<1>4. CASE ~Contains(colaBloqueados, s)
  <2>1. UNCHANGED <<colaBloqueados, cur, pc>>
    BY <1>1, <1>3, <1>4, RemoveFirstFacts
  <2>2. TypeOK'
    BY <1>1, <1>2, <2>1 DEF IInv, TypeOK
  <2> QED BY <1>2, <2>1, <2>2, ThreadStep DEF Threads
<1>5. CASE Contains(colaBloqueados, s)
  <2>1. /\ cur' = [cur EXCEPT !["main"] = s] /\ pc' = [pc EXCEPT !["main"] = "recv"]
    BY <1>1, <1>5 DEF Set, Goto
  <2>2. /\ colaBloqueados' \in Seq(Sessions) /\ IsInjective(colaBloqueados')
        /\ \A r : Contains(colaBloqueados', r) <=> Contains(colaBloqueados, r) /\ r # s
    <3>1. PICK i \in 1 .. Len(colaBloqueados) :
            colaBloqueados[i] = s /\ RemoveFirst(colaBloqueados, s) = RemoveAt(colaBloqueados, i)
      BY <1>3, <1>5, RemoveFirstFacts
    <3>2. /\ RemoveAt(colaBloqueados, i) \in Seq(Sessions) /\ IsInjective(RemoveAt(colaBloqueados, i))
          /\ \A r : Contains(RemoveAt(colaBloqueados, i), r) <=>
                      Contains(colaBloqueados, r) /\ r # colaBloqueados[i]
      BY <1>3, TakenOff
    <3> QED BY <1>1, <3>1, <3>2
  <2>3. /\ cur'["main"] = s /\ cur'["plan"] = cur["plan"]
        /\ pc'["main"] = "recv" /\ pc'["plan"] = pc["plan"]
    BY <2>1 DEF IInv, TypeOK, Threads
  <2>4. TypeOK'
    <3>1. cur' \in [Threads -> Sessions \cup {NONE}] /\ pc' \in [Threads -> Steps]
      BY <1>3, <2>1 DEF IInv, TypeOK, Steps
    <3> QED BY <1>1, <1>2, <2>2, <3>1 DEF IInv, TypeOK
  <2>5. Busy'
    BY <1>3, <2>3, MapaAssumption DEF IInv, Busy, Threads
  <2>6. Requests' /\ InOneHand'
    BY <1>2 DEF IInv, Requests, Request, InOneHand
  <2>7. Greeting' /\ Slice'
    BY <1>2, <2>3 DEF IInv, Greeting, Slice
  <2>8. Captures'
    BY <1>2, <2>2, <2>3 DEF IInv, Captures, Capturing
  <2>9. InOnePlace'
    <3> SUFFICES ASSUME NEW r \in Sessions PROVE Placed(r)'
      BY <1>2, <2>2 DEF IInv, InOnePlace
    <3>1. Placed(r)
      BY DEF IInv, InOnePlace
    <3>2. CASE r = s
      BY <1>2, <1>3, <1>5, <2>2, <2>3, <3>2 DEF Placed, Unplaced, Threads, Other
    <3>3. CASE r # s
      <4>1. \A th \in Threads : (cur'[th] = r => cur[th] = r) /\ (cur'[Other(th)] = r => cur[Other(th)] = r)
        BY <2>3, <3>3 DEF Threads, Other
      <4> QED BY <1>2, <2>2, <3>1, <3>3, <4>1 DEF Placed, Unplaced
    <3> QED BY <3>2, <3>3
  <2> QED BY <2>4, <2>5, <2>6, <2>7, <2>8, <2>9 DEF IInv
<1> QED BY <1>4, <1>5

\* What the trainer sent is thrown away.
LEMMA RecvInv ==
  ASSUME IInv, Recv
  PROVE  IInv'
<1> USE DEF queues, sessions, nests, sockets, mutexes, config
<1> DEFINE s == cur["main"]
<1>1. s \in Sessions /\ Placed(s) /\ Request(s) /\ Unplaced(s) /\ cur["plan"] # s
  BY AtWork DEF Recv, Threads, Other
<1>2. /\ pc["main"] = "recv" /\ out' = [out EXCEPT ![s] = <<>>]
      /\ UNCHANGED <<tpc, goals, queues, sessions, nests, sockets, asked, hand, mode, q, mutexes, config,
                     alive>>
  BY DEF Recv, Set
<1>3. \/ UNCHANGED cur /\ pc' = [pc EXCEPT !["main"] = "hangup"]
      \/ cur' = [cur EXCEPT !["main"] = NONE] /\ pc' = [pc EXCEPT !["main"] = "loop"]
  BY DEF Recv, Set, Goto
<1> HIDE DEF s
<1>4. out'[s] = <<>> /\ \A r \in Sessions \ {s} : out'[r] = out[r]
  BY <1>1, <1>2 DEF IInv, TypeOK
<1>5. /\ cur'["plan"] = cur["plan"] /\ cur'["main"] \in {cur["main"], NONE}
      /\ pc'["plan"] = pc["plan"]
      /\ \/ cur'["main"] = s /\ pc'["main"] = "hangup"
         \/ cur'["main"] = NONE /\ pc'["main"] = "loop"
  BY <1>3 DEF IInv, TypeOK, Threads, s
<1>6. TypeOK'
  <2>1. out' \in [Sessions -> Seq(Messages)]
    <3>1. <<>> \in Seq(Messages)
      OBVIOUS
    <3> QED BY <1>2, <3>1 DEF IInv, TypeOK
  <2>2. cur' \in [Threads -> Sessions \cup {NONE}] /\ pc' \in [Threads -> Steps]
    BY <1>3 DEF IInv, TypeOK, Steps
  <2> QED BY <1>2, <2>1, <2>2 DEF IInv, TypeOK
<1>7. Busy'
  BY <1>1, <1>5, MapaAssumption DEF IInv, Busy, Threads
<1>8. Requests'
  <2> SUFFICES ASSUME NEW r \in Sessions PROVE Request(r)'
    BY DEF Requests
  <2>1. CASE r = s
    BY <1>4, <2>1, Silent DEF Request
  <2>2. CASE r # s
    BY <1>2, <1>4, <2>2 DEF IInv, Requests, Request
  <2> QED BY <2>1, <2>2
<1>9. Greeting'
  BY <1>5 DEF Greeting
<1>10. Captures'
  <2>1. ASSUME pc["plan"] \in {"captured", "last", "block"} PROVE Capturing(cur["plan"])'
    <3>1. cur["plan"] \in Sessions \ {s}
      BY <1>1, <2>1, AtWork DEF Threads
    <3> QED BY <1>2, <1>4, <1>5, <2>1, <3>1 DEF IInv, Captures, Capturing
  <2>2. ASSUME NEW r \in Sessions, Contains(colaBloqueados, r), buscada[r] # NONE
        PROVE  Capturing(r)'
    <3>1. r # s
      BY <1>1, <2>2 DEF Unplaced
    <3> QED BY <1>2, <1>4, <2>2, <3>1 DEF IInv, Captures, Capturing
  <2> QED BY <1>2, <1>5, <2>1, <2>2 DEF Captures
<1>11. Slice'
  BY <1>2, <1>5 DEF IInv, Slice
<1>12. InOnePlace'
  <2> SUFFICES ASSUME NEW r \in Sessions PROVE Placed(r)'
    BY <1>2 DEF IInv, InOnePlace
  <2>1. Placed(r)
    BY DEF IInv, InOnePlace
  <2>2. \A th \in Threads : (cur'[th] = r => cur[th] = r) /\ (cur'[Other(th)] = r => cur[Other(th)] = r)
    BY <1>5, MapaAssumption DEF Threads, Other
  <2> QED BY <1>2, <2>1, <2>2 DEF Placed, Unplaced
<1>13. InOneHand'
  BY <1>2 DEF IInv, InOneHand
<1> QED BY <1>6, <1>7, <1>8, <1>9, <1>10, <1>11, <1>12, <1>13 DEF IInv

-----------------------------------------------------------------------------
(* Giving pokemons back *)

\* A pokemon of a trainer that hung up goes to the first that is blocked for it.
LEMMA ReassignInv ==
  ASSUME IInv, NEW th \in Threads, Reassign(th)
  PROVE  IInv'
<1> USE DEF sessions, nests, mutexes, config
<1> DEFINE s == cur[th]
           p == Head(pokemons[s])
           i == CHOOSE k \in Waiting(Nest[p]) : \A l \in Waiting(Nest[p]) : k <= l
           b == colaBloqueados[i]
<1>1. pc[th] = "release" /\ pokemons[s] # <<>> /\ Waiting(Nest[p]) # {}
  BY DEF Reassign
<1>2. /\ s \in Sessions /\ Placed(s) /\ Unplaced(s)
  BY <1>1, AtWork
<1>3. /\ pokemons[s] \in Seq(Pokemons) /\ IsInjective(pokemons[s])
      /\ colaBloqueados \in Seq(Sessions) /\ IsInjective(colaBloqueados)
      /\ colaListos \in Seq(Sessions) /\ IsInjective(colaListos)
  BY <1>2 DEF IInv, TypeOK, InOnePlace, InOneHand
<1>4. /\ p \in Pokemons /\ Contains(pokemons[s], p)
      /\ Tail(pokemons[s]) \in Seq(Pokemons) /\ IsInjective(Tail(pokemons[s]))
      /\ \A x : Contains(Tail(pokemons[s]), x) <=> Contains(pokemons[s], x) /\ x # p
  BY <1>1, <1>3, TailFacts
<1>5. i \in 1 .. Len(colaBloqueados) /\ buscada[b] = Nest[p]
  <2>1. Waiting(Nest[p]) \in SUBSET Nat
    BY <1>3 DEF Waiting
  <2>2. i \in Waiting(Nest[p])
    BY <1>1, <2>1, LeastIsOne
  <2>3. DOMAIN colaBloqueados = 1 .. Len(colaBloqueados)
    BY <1>3
  <2>4. \A j \in Waiting(Nest[p]) : j \in DOMAIN colaBloqueados /\ buscada[colaBloqueados[j]] = Nest[p]
    BY Zenon DEF Waiting
  <2> QED BY ONLY <2>2, <2>3, <2>4
<1>6. /\ pokemons' = [pokemons EXCEPT ![s] = Tail(pokemons[s]), ![b] = Append(@, p)]
      /\ buscada' = [buscada EXCEPT ![b] = NONE]
      /\ Proceed(b, "ask")
      /\ goals' = IF Gone(b) THEN goals ELSE [goals EXCEPT ![b] = Tail(goals[b])]
      /\ \/ /\ asked' = [asked EXCEPT ![th] = b] /\ pc' = [pc EXCEPT ![th] = "await"]
            /\ UNCHANGED <<colaBloqueados, colaListos, master>>
         \/ /\ colaBloqueados' = RemoveAt(colaBloqueados, i)
            /\ colaListos' = Append(colaListos, b)
            /\ master' = master \ {b}
            /\ UNCHANGED <<asked, pc>>
      /\ UNCHANGED <<out, entrenadores, distance, ultimo, freed, nests, lectura, cur, hand, mode, q,
                     mutexes, config, alive>>
  BY DEF Reassign, Set, Goto
<1> HIDE DEF i, s, p
<1>7. /\ b \in Sessions /\ Contains(colaBloqueados, b) /\ Placed(b) /\ Request(b)
      /\ buscada[b] # NONE
  <2>1. b \in Sessions /\ Contains(colaBloqueados, b)
    BY <1>3, <1>5 DEF Contains
  <2>2. Nest[p] # NONE
    BY <1>4, MapaAssumption
  <2> QED BY <1>5, <2>1, <2>2 DEF IInv, InOnePlace, Requests
<1>8. /\ Capturing(b) /\ b # s /\ b \notin freed /\ ~Contains(colaListos, b)
      /\ tpc[b] \notin Outside /\ \A t \in Threads : cur[t] # b
  BY <1>2, <1>7 DEF IInv, Captures, Placed, Unplaced
<1>9. /\ RemoveAt(colaBloqueados, i) \in Seq(Sessions) /\ IsInjective(RemoveAt(colaBloqueados, i))
      /\ \A x : Contains(RemoveAt(colaBloqueados, i), x) <=> Contains(colaBloqueados, x) /\ x # b
  BY <1>3, <1>5, TakenOff
<1>10. /\ Append(colaListos, b) \in Seq(Sessions) /\ IsInjective(Append(colaListos, b))
       /\ \A x : Contains(Append(colaListos, b), x) <=> Contains(colaListos, x) \/ x = b
  BY <1>3, <1>7, <1>8, AppendFacts
<1> HIDE DEF b
<1>11. /\ colaBloqueados' \in Seq(Sessions) /\ IsInjective(colaBloqueados')
       /\ colaListos' \in Seq(Sessions) /\ IsInjective(colaListos')
       /\ \A x : x # b => /\ Contains(colaBloqueados', x) <=> Contains(colaBloqueados, x)
                          /\ Contains(colaListos', x) <=> Contains(colaListos, x)
       /\ ~Contains(colaBloqueados', b) \/ ~Contains(colaListos', b)
  BY <1>3, <1>6, <1>8, <1>9, <1>10
<1>12. PICK place \in Places, g \in Seq(PokeNests) :
         /\ tpc' = [tpc EXCEPT ![b] = place] /\ goals' = [goals EXCEPT ![b] = g]
         /\ \/ place = "closed" /\ g = goals[b]
            \/ place = "ask" /\ g = Tail(goals[b])
  <2>1. goals[b] \in Seq(PokeNests) /\ Tail(goals[b]) \in Seq(PokeNests)
    BY <1>7, <1>8 DEF Capturing, IInv, TypeOK
  <2>2. CASE Gone(b)
    BY <1>6, <2>1, <2>2 DEF Proceed, Gone, Places, IInv, TypeOK
  <2>3. CASE ~Gone(b)
    BY <1>6, <2>1, <2>3 DEF Proceed, Set, Places
  <2> QED BY <2>2, <2>3
<1>13. Len(goals[b]) <= 1 => Tail(goals[b]) = <<>>
  <2>1. goals[b] \in Seq(PokeNests) /\ goals[b] # <<>>
    BY <1>7, <1>8 DEF Capturing, IInv, TypeOK
  <2> QED BY <2>1
<1>14. /\ tpc'[b] = place /\ goals'[b] = g /\ buscada'[b] = NONE
       /\ \A r \in Sessions \ {b} : tpc'[r] = tpc[r] /\ goals'[r] = goals[r] /\ buscada'[r] = buscada[r]
  BY <1>6, <1>7, <1>12 DEF IInv, TypeOK
<1>15. \A t \in Threads : pc'[t] = pc[t] \/ (t = th /\ pc[t] = "release" /\ pc'[t] = "await")
  BY <1>1, <1>6 DEF IInv, TypeOK
<1>16. /\ pokemons'[s] = Tail(pokemons[s]) /\ pokemons'[b] = Append(pokemons[b], p)
       /\ \A r \in Sessions \ {b, s} : pokemons'[r] = pokemons[r]
       /\ pokemons' \in [Sessions -> Seq(Pokemons)]
  <2>1. Append(pokemons[b], p) \in Seq(Pokemons)
    BY <1>4, <1>7 DEF IInv, TypeOK
  <2>2. pokemons \in [Sessions -> Seq(Pokemons)]
    BY DEF IInv, TypeOK
  <2> QED BY <1>2, <1>4, <1>6, <1>7, <1>8, <2>1, <2>2
<1>17. TypeOK'
  <2>1. /\ tpc' \in [Sessions -> Places] /\ goals' \in [Sessions -> Seq(PokeNests)]
        /\ buscada' \in [Sessions -> PokeNests \cup {NONE}] /\ pc' \in [Threads -> Steps]
    BY <1>6, <1>12 DEF IInv, TypeOK, Steps
  <2>2. asked' \in [Threads -> Sessions \cup {NONE}] /\ master' \subseteq Sessions
    BY <1>6, <1>7 DEF IInv, TypeOK
  <2> QED BY <1>6, <1>11, <1>16, <2>1, <2>2 DEF IInv, TypeOK
<1>18. Busy'
  BY <1>6, <1>15 DEF IInv, Busy
<1>19. MayBeSent(out[b], g, place, distance[b])
  <2>1. out[b] = <<>> \/ (out[b] = <<"junk">> /\ Len(goals[b]) <= 1)
    BY <1>7, <1>8, Quieted DEF Capturing, Request
  <2>2. Len(<<>>) <= 1
    OBVIOUS
  <2>3. CASE place = "closed" /\ g = goals[b]
    BY <2>1, <2>3, Silent DEF Waits
  <2>4. CASE place = "ask" /\ g = Tail(goals[b])
    <3>1. CASE out[b] = <<>>
      BY <3>1, Silent
    <3>2. CASE out[b] = <<"junk">> /\ Len(goals[b]) <= 1
      <4>1. g = <<>>
        BY <1>13, <2>4, <3>2
      <4>2. Len(g) <= 1
        BY <2>2, <4>1
      <4> QED BY <3>2, <4>1, <4>2, Silent
    <3> QED BY <2>1, <3>1, <3>2
  <2> QED BY <1>12, <2>3, <2>4
<1>20. Requests'
  <2> SUFFICES ASSUME NEW r \in Sessions PROVE Request(r)'
    BY DEF Requests
  <2>1. CASE r = b
    BY <1>6, <1>14, <1>19, <2>1 DEF Request
  <2>2. CASE r # b
    BY <1>6, <1>14, <2>2 DEF IInv, Requests, Request
  <2> QED BY <2>1, <2>2
<1>21. Greeting'
  <2> SUFFICES ASSUME pc["main"] = "handshake" PROVE tpc'[cur["main"]] = tpc[cur["main"]]
    BY <1>6, <1>15 DEF IInv, Greeting, Threads
  <2>1. cur["main"] \in Sessions
    BY AtWork DEF Threads
  <2> QED BY <1>8, <1>14, <2>1 DEF Threads
<1>22. Captures'
  <2>1. ASSUME pc'["plan"] \in {"captured", "last", "block"} PROVE Capturing(cur["plan"])'
    <3>1. pc["plan"] = pc'["plan"]
      BY <1>15, <2>1 DEF Threads
    <3>2. cur["plan"] \in Sessions \ {b}
      BY <1>8, <2>1, <3>1, AtWork DEF Threads
    <3> QED BY <1>6, <1>14, <2>1, <3>1, <3>2 DEF IInv, Captures, Capturing
  <2>2. ASSUME NEW r \in Sessions, Contains(colaBloqueados', r), buscada'[r] # NONE
        PROVE  Capturing(r)'
    <3>1. r # b
      BY <1>14, <2>2
    <3> QED BY <1>6, <1>11, <1>14, <2>2, <3>1 DEF IInv, Captures, Capturing
  <2> QED BY <1>6, <2>1, <2>2 DEF Captures
<1>23. Slice'
  BY <1>6, <1>15 DEF IInv, Slice, Threads
<1>24. InOnePlace'
  <2> SUFFICES ASSUME NEW r \in Sessions PROVE Placed(r)'
    BY <1>11 DEF InOnePlace
  <2>1. Placed(r)
    BY DEF IInv, InOnePlace
  <2>2. CASE r = b
    <3>1. tpc'[b] \notin Outside
      BY <1>12, <1>14 DEF Outside
    <3> QED BY <1>6, <1>8, <1>11, <2>2, <3>1 DEF Placed
  <2>3. CASE r # b
    <3>1. r \in freed => pokemons'[r] = pokemons[r]
      <4>1. s \notin freed
        BY <1>1, AtWork DEF s
      <4> QED BY <1>16, <2>3, <4>1
    <3> QED BY <1>6, <1>11, <1>14, <2>1, <2>3, <3>1 DEF Placed, Unplaced
  <2> QED BY <2>2, <2>3
<1>25. InOneHand'
  <2>1. ~Contains(pokemons[b], p) /\ pokemons[b] \in Seq(Pokemons) /\ IsInjective(pokemons[b])
    BY <1>2, <1>4, <1>7, <1>8 DEF IInv, TypeOK, InOneHand
  <2>2. /\ \A x : Contains(pokemons'[b], x) <=> Contains(pokemons[b], x) \/ x = p
        /\ IsInjective(pokemons'[b])
    BY <1>4, <1>16, <2>1, AppendFacts
  <2>3. \A r \in Sessions : IsInjective(pokemons'[r])
    BY <1>4, <1>16, <2>2 DEF IInv, InOneHand
  <2>4. ASSUME NEW r \in Sessions, NEW x
        PROVE  Contains(pokemons'[r], x) <=>
                 (Contains(pokemons[r], x) /\ ~(r = s /\ x = p)) \/ (r = b /\ x = p)
    BY <1>4, <1>8, <1>16, <2>2
  <2>5. ASSUME NEW x \in Pokemons
        PROVE  /\ \A r, t \in Sessions : Contains(pokemons'[r], x) /\ Contains(pokemons'[t], x) => r = t
               /\ \A m \in PokeNests :
                    x \in listaPokemons'[m] => m = Nest[x] /\ \A r \in Sessions : ~Contains(pokemons'[r], x)
               /\ x \notin listaPokemons'[Nest[x]] => \E r \in Sessions : Contains(pokemons'[r], x)
    <3>1. CASE x = p
      <4>1. \A r \in Sessions : Contains(pokemons[r], p) => r = s
        BY <1>2, <1>4 DEF IInv, InOneHand
      <4>2. \A r \in Sessions : Contains(pokemons'[r], p) <=> r = b
        BY <1>8, <2>4, <4>1
      <4>3. \A m \in PokeNests : p \notin listaPokemons'[m]
        BY <1>2, <1>4, <1>6 DEF IInv, InOneHand
      <4> QED BY <1>7, <3>1, <4>2, <4>3
    <3>2. CASE x # p
      BY <1>6, <2>4, <3>2 DEF IInv, InOneHand
    <3> QED BY <3>1, <3>2
  <2> QED BY <2>3, <2>5 DEF InOneHand
<1> QED BY <1>17, <1>18, <1>20, <1>21, <1>22, <1>23, <1>24, <1>25 DEF IInv

\* Or back to its PokeNest.
LEMMA PutBackInv ==
  ASSUME IInv, NEW th \in Threads, PutBack(th)
  PROVE  IInv'
<1> USE DEF trainer, queues, sockets, mutexes, config
<1> DEFINE s == cur[th]
           p == Head(pokemons[s])
           n == Nest[p]
<1>1. pc[th] = "release" /\ pokemons[s] # <<>>
  BY DEF PutBack
<1>2. s \in Sessions /\ s \notin freed
  BY <1>1, AtWork
<1>3. pokemons[s] \in Seq(Pokemons) /\ IsInjective(pokemons[s])
  BY <1>2 DEF IInv, TypeOK, InOneHand
<1>4. /\ p \in Pokemons /\ Contains(pokemons[s], p)
      /\ Tail(pokemons[s]) \in Seq(Pokemons) /\ IsInjective(Tail(pokemons[s]))
      /\ \A x : Contains(Tail(pokemons[s]), x) <=> Contains(pokemons[s], x) /\ x # p
  BY <1>1, <1>3, TailFacts
<1>5. /\ pokemons' = [pokemons EXCEPT ![s] = Tail(pokemons[s])]
      /\ listaPokemons' = [listaPokemons EXCEPT ![n] = listaPokemons[n] \cup {p}]
      /\ hand' = [hand EXCEPT ![th] = p] /\ pc' = [pc EXCEPT ![th] = "giveback"]
      /\ UNCHANGED <<trainer, queues, buscada, distance, ultimo, freed, cantidad, sockets, cur, asked,
                     mode, q, mutexes, config, alive>>
  BY DEF PutBack, Set, Goto
<1> HIDE DEF s, p
<1>6. n \in PokeNests
  BY <1>4, MapaAssumption
<1>7. \A t \in Threads : pc'[t] = pc[t] \/ (t = th /\ pc[t] = "release" /\ pc'[t] = "giveback")
  BY <1>1, <1>5 DEF IInv, TypeOK
<1>8. /\ pokemons'[s] = Tail(pokemons[s]) /\ \A r \in Sessions \ {s} : pokemons'[r] = pokemons[r]
      /\ \A m \in PokeNests : \A x : x \in listaPokemons'[m] <=> x \in listaPokemons[m] \/ (m = n /\ x = p)
  BY <1>2, <1>5, <1>6 DEF IInv, TypeOK
<1>9. TypeOK'
  <2>1. pokemons' \in [Sessions -> Seq(Pokemons)] /\ hand' \in [Threads -> Pokemons \cup {NONE}]
    BY <1>2, <1>4, <1>5 DEF IInv, TypeOK
  <2>2. listaPokemons' \in [PokeNests -> SUBSET Pokemons] /\ pc' \in [Threads -> Steps]
    BY <1>4, <1>5, <1>6 DEF IInv, TypeOK, Steps
  <2> QED BY <1>5, <2>1, <2>2 DEF IInv, TypeOK
<1>10. Busy'
  BY <1>5, <1>7 DEF IInv, Busy
<1>11. Requests'
  BY <1>5 DEF IInv, Requests, Request
<1>12. Greeting' /\ Slice'
  BY <1>5, <1>7 DEF IInv, Greeting, Slice, Threads
<1>13. Captures'
  <2>1. pc'["plan"] \in {"captured", "last", "block"} => pc["plan"] = pc'["plan"]
    BY <1>7 DEF Threads
  <2> QED BY <1>5, <2>1 DEF IInv, Captures, Capturing
<1>14. InOnePlace'
  <2> SUFFICES ASSUME NEW r \in Sessions PROVE Placed(r)'
    BY <1>5 DEF IInv, InOnePlace
  <2>1. Placed(r) /\ (r \in freed => pokemons'[r] = pokemons[r])
    BY <1>2, <1>8 DEF IInv, InOnePlace
  <2> QED BY <1>5, <2>1 DEF Placed, Unplaced
<1>15. InOneHand'
  <2>1. \A r \in Sessions : IsInjective(pokemons'[r])
    BY <1>4, <1>8 DEF IInv, InOneHand
  <2>2. \A r \in Sessions : \A x : Contains(pokemons'[r], x) <=> Contains(pokemons[r], x) /\ ~(r = s /\ x = p)
    BY <1>4, <1>8
  <2>3. ASSUME NEW x \in Pokemons
        PROVE  /\ \A r, t \in Sessions : Contains(pokemons'[r], x) /\ Contains(pokemons'[t], x) => r = t
               /\ \A m \in PokeNests :
                    x \in listaPokemons'[m] => m = Nest[x] /\ \A r \in Sessions : ~Contains(pokemons'[r], x)
               /\ x \notin listaPokemons'[Nest[x]] => \E r \in Sessions : Contains(pokemons'[r], x)
    <3>1. Nest[x] \in PokeNests
      BY MapaAssumption
    <3>2. CASE x = p
      <4>1. \A r \in Sessions : Contains(pokemons[r], p) => r = s
        BY <1>2, <1>4 DEF IInv, InOneHand
      <4>2. \A r \in Sessions : ~Contains(pokemons'[r], p)
        BY <2>2, <4>1
      <4>3. \A m \in PokeNests : p \notin listaPokemons[m]
        BY <1>2, <1>4 DEF IInv, InOneHand
      <4> QED BY <1>6, <1>8, <3>1, <3>2, <4>2, <4>3
    <3>3. CASE x # p
      BY <1>8, <2>2, <3>1, <3>3 DEF IInv, InOneHand
    <3> QED BY <3>2, <3>3
  <2> QED BY <2>1, <2>3 DEF InOneHand
<1> QED BY <1>9, <1>10, <1>11, <1>12, <1>13, <1>14, <1>15 DEF IInv

\* The trainer that hung up is freed with nothing left to give back.
LEMMA ReleaseEndInv ==
  ASSUME IInv, NEW th \in Threads, ReleaseEnd(th)
  PROVE  IInv'
<1> USE DEF trainer, nests, sockets, config
<1> DEFINE s == cur[th]
<1>1. pc[th] = "release" /\ pokemons[s] = <<>>
  BY DEF ReleaseEnd
<1>2. s \in Sessions /\ Placed(s) /\ Unplaced(s) /\ cur[Other(th)] # s /\ tpc[s] \notin Outside
  BY <1>1, AtWork
<1>3. PICK step \in {"idle", "loop"} : pc' = [pc EXCEPT ![th] = step]
  BY DEF ReleaseEnd, Goto, Set
<1>4. /\ cur' = [cur EXCEPT ![th] = NONE] /\ freed' = freed \cup {s}
      /\ turno' = NONE /\ bloqueados' = NONE
      /\ UNCHANGED <<trainer, colaListos, colaBloqueados, buscada, distance, pokemons, ultimo, nests,
                     sockets, asked, hand, mode, q, config, alive>>
  BY DEF ReleaseEnd, Set
<1>5. entrenadores' \in Seq(Sessions)
  <2>1. PICK list \in Seq(Sessions) : list = entrenadores
    BY DEF IInv, TypeOK
  <2>2. PICK left, who : left = Unlisted(list, Owner, who) /\ who = s
    OBVIOUS
  <2>3. left \in Seq(Sessions)
    BY <2>2, UnlistedFacts
  <2>4. entrenadores' = left
    BY <2>1, <2>2 DEF ReleaseEnd
  <2> QED BY <2>3, <2>4
<1> HIDE DEF s
<1>6. /\ pc'[th] = step /\ cur'[th] = NONE
      /\ \A t \in Threads \ {th} : pc'[t] = pc[t] /\ cur'[t] = cur[t]
  BY <1>3, <1>4 DEF IInv, TypeOK
<1>7. TypeOK'
  <2>1. cur' \in [Threads -> Sessions \cup {NONE}] /\ pc' \in [Threads -> Steps]
    BY <1>3, <1>4 DEF IInv, TypeOK, Steps
  <2>2. freed' \subseteq Sessions
    BY <1>2, <1>4 DEF IInv, TypeOK
  <2> QED BY <1>4, <1>5, <2>1, <2>2 DEF IInv, TypeOK
<1>8. Busy'
  BY <1>6 DEF IInv, Busy
<1>9. Requests' /\ InOneHand'
  BY <1>4 DEF IInv, Requests, Request, InOneHand
<1>10. Greeting' /\ Slice'
  <2>1. /\ pc'["main"] = "handshake" => pc["main"] = "handshake" /\ cur'["main"] = cur["main"]
        /\ pc'["plan"] = "serve" => pc["plan"] = "serve"
    BY <1>6 DEF Threads
  <2> QED BY <1>4, <2>1 DEF IInv, Greeting, Slice
<1>11. Captures'
  <2>1. pc'["plan"] \in {"captured", "last", "block"} =>
          pc["plan"] = pc'["plan"] /\ cur'["plan"] = cur["plan"]
    BY <1>6 DEF Threads
  <2> QED BY <1>4, <2>1 DEF IInv, Captures, Capturing
<1>12. InOnePlace'
  <2> SUFFICES ASSUME NEW r \in Sessions PROVE Placed(r)'
    BY <1>4 DEF IInv, InOnePlace
  <2>1. Placed(r)
    BY DEF IInv, InOnePlace
  <2>2. \A t \in Threads : cur[t] = s => t = th
    BY <1>2 DEF Threads, Other
  <2>3. \A t \in Threads : cur'[t] = r => cur[t] = r /\ r # s
    BY <1>6, <2>2, MapaAssumption
  <2>4. CASE r = s
    BY <1>1, <1>2, <1>4, <2>3, <2>4 DEF Placed, Unplaced, s
  <2>5. CASE r # s
    <3>1. \A t \in Threads : cur'[Other(t)] = r => cur[Other(t)] = r
      BY <2>3 DEF Threads, Other
    <3> QED BY <1>4, <2>1, <2>3, <2>5, <3>1 DEF Placed, Unplaced
  <2> QED BY <2>4, <2>5
<1> QED BY <1>7, <1>8, <1>9, <1>10, <1>11, <1>12 DEF IInv

-----------------------------------------------------------------------------
(* The theorems *)

LEMMA InitInv == Init => IInv
<1> SUFFICES ASSUME Init PROVE IInv
  OBVIOUS
<1>1. TypeOK
  <2>1. \A n \in PokeNests : Cardinality({p \in Pokemons : Nest[p] = n}) \in Int
    <3> TAKE n \in PokeNests
    <3>1. IsFiniteSet({p \in Pokemons : Nest[p] = n})
      BY MapaAssumption, FS_Subset
    <3> QED BY <3>1, FS_CardinalityType
  <2>2. cantidad \in [PokeNests -> Int]
    BY <2>1 DEF Init
  <2>3. /\ goals \in [Sessions -> Seq(PokeNests)]
        /\ q \in 0 .. Quantum /\ reloads \in 0 .. MaxReloads
        /\ distance \in [Sessions -> 0 .. MaxDistance]
    BY MapaAssumption DEF Init
  <2>4. /\ tpc \in [Sessions -> Places] /\ pc \in [Threads -> Steps]
        /\ listaPokemons \in [PokeNests -> SUBSET Pokemons]
    BY DEF Init, Places, Steps
  <2> QED BY <2>2, <2>3, <2>4 DEF Init, TypeOK
<1>2. Busy
  BY DEF Init, Busy, Threads
<1>3. Requests
  BY Silent DEF Init, Requests, Request
<1>4. ASSUME NEW x PROVE ~Contains(<<>>, x)
  BY DEF Contains
<1>5. IsInjective(<<>>)
  BY DEF IsInjective
<1>6. Greeting /\ Captures /\ Slice
  BY <1>4 DEF Init, Greeting, Captures, Slice, Threads
<1>7. InOnePlace
  <2>1. \A th \in Threads : cur[th] = NONE
    BY DEF Init
  <2> QED BY <1>4, <1>5, <2>1, MapaAssumption DEF Init, InOnePlace, Placed, Unplaced
<1>8. InOneHand
  <2>1. \A s \in Sessions : pokemons[s] = <<>>
    BY DEF Init
  <2>2. \A n \in PokeNests, p \in Pokemons : p \in listaPokemons[n] <=> Nest[p] = n
    BY DEF Init
  <2>3. \A p \in Pokemons : Nest[p] \in PokeNests
    BY MapaAssumption
  <2> QED BY <1>4, <1>5, <2>1, <2>2, <2>3 DEF InOneHand
<1> QED BY <1>1, <1>2, <1>3, <1>6, <1>7, <1>8 DEF IInv

LEMMA StutterInv ==
  ASSUME IInv, UNCHANGED vars
  PROVE  IInv'
<1> USE DEF vars, trainer, queues, sessions, nests, sockets, threads, mutexes, config
<1>1. TypeOK'
  BY DEF IInv, TypeOK
<1> QED BY <1>1, ThreadStep DEF Threads

LEMMA ReleaseInv ==
  ASSUME IInv, NEW th \in Threads, Release(th)
  PROVE  IInv'
<1>1. CASE Await(th)
  BY <1>1, ExitInv DEF Await
<1> QED BY <1>1, LockInv, ReassignInv, PutBackInv, CountInv, ReleaseEndInv DEF Release

LEMMA NextInv ==
  ASSUME IInv, [Next]_vars
  PROVE  IInv'
<1>1. ASSUME NEW s \in Sessions, Trainer(s) PROVE IInv'
  BY <1>1, ConnectInv, SendInv, CloseInv DEF Trainer
<1>2. CASE Plan
  <2>1. CASE Release("plan")
    BY <2>1, ReleaseInv DEF Threads
  <2> QED BY <1>2, <2>1, TakeFirstInv, TakeUndecidedInv, TakeNearestInv, ServeGoneInv, ServeLocateInv,
             ServeMoveInv, ServeCatchInv, ServeLastInv, CapturedInv, RequeueInv, BlockInv DEF Plan
<1>3. CASE Main
  <2>1. CASE Release("main")
    BY <2>1, ReleaseInv DEF Threads
  <2> QED BY <1>3, <2>1, SelectInv, AcceptInv, HandshakeInv, LookupInv, LoopEndInv, RecvInv,
             HangUpInv DEF Main
<1>4. CASE Race
  BY <1>4, ExitInv DEF Race
<1> QED BY <1>1, <1>2, <1>3, <1>4, ReloadInv, StutterInv DEF Next

\* The inductive invariant: the two threads and the trainers keep to the
\* protocol whatever the order of their steps.
THEOREM InvariantHolds == Spec => []IInv
<1>1. IInv /\ [Next]_vars => IInv'
  BY NextInv
<1> QED BY InitInv, <1>1, PTL DEF Spec

\* Every variable of the map keeps its type: no distance below zero, no
\* objective taken from an empty list.
THEOREM MapTypes == Spec => []TypeOK
<1>1. IInv => TypeOK
  BY DEF IInv
<1> QED BY <1>1, InvariantHolds, PTL

\* How often something is on a list that holds nothing twice.
LEMMA OccursOnce ==
  ASSUME NEW S, NEW list \in Seq(S), IsInjective(list), NEW x
  PROVE  Occurrences(x, list) = IF Contains(list, x) THEN 1 ELSE 0
<1> DEFINE places == {i \in DOMAIN list : list[i] = x}
<1>1. DOMAIN list = 1 .. Len(list)
  OBVIOUS
<1>2. CASE Contains(list, x)
  <2>1. PICK i \in 1 .. Len(list) : list[i] = x
    BY <1>2 DEF Contains
  <2>2. places = {i}
    BY <1>1, <2>1 DEF IsInjective
  <2> QED BY <1>2, <2>2, FS_Singleton DEF Occurrences
<1>3. CASE ~Contains(list, x)
  <2>1. places = {}
    BY <1>1, <1>3 DEF Contains
  <2> QED BY <1>3, <2>1, FS_EmptySet DEF Occurrences
<1> QED BY <1>2, <1>3

\* A trainer is ready, blocked, in the hands of one thread or freed, never two
\* of these: planificar and manejar_select cannot both work on it, and it is not
\* pushed twice.
THEOREM TrainersInOnePlace == Spec => []OnePlace
<1>1. IInv => OnePlace
  <2> SUFFICES ASSUME IInv, NEW s \in Sessions
               PROVE  /\ Occurrences(s, colaListos) + Occurrences(s, colaBloqueados)
                           + Hits(cur["plan"] = s) + Hits(cur["main"] = s) + Hits(s \in freed) <= 1
                      /\ s \in freed => pokemons[s] = <<>>
    BY DEF OnePlace
  <2>1. Placed(s)
    BY DEF IInv, InOnePlace
  <2>2. /\ Occurrences(s, colaListos) = IF Contains(colaListos, s) THEN 1 ELSE 0
        /\ Occurrences(s, colaBloqueados) = IF Contains(colaBloqueados, s) THEN 1 ELSE 0
    BY OccursOnce DEF IInv, TypeOK, InOnePlace
  <2>3. /\ ~Contains(colaListos, s) \/ ~Contains(colaBloqueados, s)
        /\ cur["plan"] = s \/ cur["main"] = s \/ s \in freed => Unplaced(s)
        /\ ~(cur["plan"] = s /\ cur["main"] = s)
        /\ cur["plan"] = s \/ cur["main"] = s => s \notin freed
    BY <2>1 DEF Placed, Threads, Other
  <2>4. s \in freed => pokemons[s] = <<>>
    BY <2>1 DEF Placed
  <2> QED BY <2>2, <2>3, <2>4 DEF Unplaced, Hits
<1> QED BY <1>1, InvariantHolds, PTL

\* liberarRecursos2 and the captures neither lose nor double a pokemon: it is in
\* its PokeNest, or one trainer has it, once.
THEOREM PokemonsConserved == Spec => []PokemonConserved
<1>1. IInv => PokemonConserved
  <2> SUFFICES ASSUME IInv, NEW p \in Pokemons,
                      NEW holders, holders = {s \in Sessions : Contains(pokemons[s], p)}
               PROVE  /\ \A n \in PokeNests : p \in listaPokemons[n] => n = Nest[p] /\ holders = {}
                      /\ p \notin listaPokemons[Nest[p]] => Cardinality(holders) = 1
                      /\ \A s \in holders : Occurrences(p, pokemons[s]) = 1
    BY DEF PokemonConserved
  <2>1. ASSUME NEW n \in PokeNests, p \in listaPokemons[n] PROVE n = Nest[p] /\ holders = {}
    <3>1. n = Nest[p] /\ \A s \in Sessions : ~Contains(pokemons[s], p)
      BY <2>1 DEF IInv, InOneHand
    <3>2. \A s : s \notin holders
      BY <3>1
    <3> QED BY <3>1, <3>2
  <2>2. ASSUME p \notin listaPokemons[Nest[p]] PROVE Cardinality(holders) = 1
    <3>1. PICK s \in Sessions : Contains(pokemons[s], p)
      BY <2>2 DEF IInv, InOneHand
    <3>2. holders = {s}
      BY <3>1 DEF IInv, InOneHand
    <3> QED BY <3>2, FS_Singleton
  <2>3. ASSUME NEW s \in holders PROVE Occurrences(p, pokemons[s]) = 1
    <3>1. s \in Sessions /\ Contains(pokemons[s], p)
      OBVIOUS
    <3>2. pokemons[s] \in Seq(Pokemons) /\ IsInjective(pokemons[s])
      BY <3>1 DEF IInv, TypeOK, InOneHand
    <3> QED BY <3>1, <3>2, OccursOnce
  <2> QED BY <2>1, <2>2, <2>3
<1> QED BY <1>1, InvariantHolds, PTL

=============================================================================
