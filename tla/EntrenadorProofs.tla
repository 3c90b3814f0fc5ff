--------------------------- MODULE EntrenadorProofs ---------------------------
(***************************************************************************)
(* Proofs about Entrenador, for any sheet, any number of lives and of      *)
(* signals.                                                                *)
(***************************************************************************)
EXTENDS Entrenador, TLAPS

Functions == {"main", "journey", "zero"} \cup Signals
Places == {"load", "advance", "begin", "check", "report", "connect", "play", "won",
           "lost", "next", "store", "test", "disconnect", "destroy", "end"}
Frames == [fn : Functions, at : Places, id : 0 .. retries + 1, reg : Int]

\* The stacks a step may leave: T is the stack with its last frame at another
\* place, with one more frame, or with one less.
Moves(T, at) ==
  /\ DOMAIN T = DOMAIN stack /\ Len(T) = Len(stack)
  /\ \A k \in Depths : k # Len(stack) => T[k] = stack[k]
  /\ T[Len(stack)].fn = stack[Len(stack)].fn /\ T[Len(stack)].at = at

Kept(T) == \A k \in Depths : T[k].id = stack[k].id /\ T[k].reg = stack[k].reg

Pushes(T, at, f) ==
  /\ DOMAIN T = 1 .. Len(stack) + 1 /\ Len(T) = Len(stack) + 1
  /\ \A k \in Depths : k # Len(stack) => T[k] = stack[k]
  /\ T[Len(stack)].fn = stack[Len(stack)].fn /\ T[Len(stack)].at = at
  /\ Kept(T)
  /\ T[Len(stack) + 1] = f

Pops(T) ==
  /\ DOMAIN T = 1 .. Len(stack) - 1 /\ Len(T) = Len(stack) - 1
  /\ \A k \in 1 .. Len(stack) - 1 : T[k] = stack[k]

LEMMA StackFacts ==
  ASSUME TypeOK, Len(stack) > 0
  PROVE  /\ stack \in Seq(Frames) /\ Len(stack) \in Nat \ {0} /\ Depths = 1 .. Len(stack)
         /\ \A k \in Depths : stack[k] \in Frames
         /\ Top = stack[Len(stack)]
<1>1. stack \in Seq(Frames)
  BY DEF TypeOK, Frames, Functions, Places
<1>2. Len(stack) \in Nat \ {0} /\ Depths = 1 .. Len(stack)
  BY <1>1 DEF Depths
<1>3. \A k \in Depths : stack[k] \in Frames
  BY <1>1, <1>2
<1> QED BY <1>1, <1>2, <1>3 DEF Top, Last

LEMMA CoachFacts ==
  ASSUME TypeOK
  PROVE  /\ coach \in [id : Int, live : BOOLEAN, life : Int, index : Nat,
                       conn : {"none", "open", "closed"}]
         /\ coach.id \in 0 .. retries + 1 /\ coach.index \in 0 .. Maps + 2 /\ retries \in Nat
<1>1. coach \in [id : 0 .. retries + 1, live : BOOLEAN, life : Int, index : 0 .. Maps + 2,
                conn : {"none", "open", "closed"}] /\ retries \in Nat
  BY DEF TypeOK
<1> QED BY <1>1

LEMMA GoToMoves ==
  ASSUME TypeOK, Len(stack) > 0, NEW at \in Places, GoTo(at)
  PROVE  Moves(stack', at) /\ Kept(stack') /\ stack' \in Seq(Frames)
<1>1. stack \in Seq(Frames) /\ Len(stack) \in Depths /\ stack[Len(stack)] \in Frames
  BY StackFacts
<1>2. [stack[Len(stack)] EXCEPT !.at = at] \in Frames
  BY <1>1 DEF Frames
<1>3. stack' = [stack EXCEPT ![Len(stack)] = [stack[Len(stack)] EXCEPT !.at = at]]
  BY <1>1 DEF GoTo
<1> QED BY StackFacts, <1>1, <1>2, <1>3 DEF Moves, Kept, Frames

LEMMA CallPushes ==
  ASSUME TypeOK, Len(stack) > 0, NEW fn \in Functions, NEW at \in Places,
         NEW id \in 0 .. retries + 1, NEW back \in Places, Call(fn, at, id, back)
  PROVE  /\ Pushes(stack', back, [fn |-> fn, at |-> at, id |-> id, reg |-> 0])
         /\ stack' \in Seq(Frames)
<1> DEFINE S == [stack EXCEPT ![Len(stack)].at = back]
           f == [fn |-> fn, at |-> at, id |-> id, reg |-> 0]
<1>1. stack \in Seq(Frames) /\ Len(stack) \in Depths /\ stack[Len(stack)] \in Frames
  BY StackFacts
<1>2. [stack[Len(stack)] EXCEPT !.at = back] \in Frames
  BY <1>1 DEF Frames
<1>3. S = [stack EXCEPT ![Len(stack)] = [stack[Len(stack)] EXCEPT !.at = back]]
  BY <1>1
<1>4. S \in Seq(Frames) /\ Len(S) = Len(stack) /\ DOMAIN S = Depths
  BY StackFacts, <1>1, <1>2, <1>3
<1>5. /\ \A k \in Depths : k # Len(stack) => S[k] = stack[k]
      /\ S[Len(stack)] = [stack[Len(stack)] EXCEPT !.at = back]
  BY StackFacts, <1>1, <1>3
<1>6. f \in Frames
  BY DEF Frames
<1>7. stack' = Append(S, f)
  BY DEF Call, Frame
<1> HIDE DEF S, f
<1>8. stack' \in Seq(Frames) /\ Len(stack') = Len(stack) + 1 /\ DOMAIN stack' = 1 .. Len(stack) + 1
  BY <1>4, <1>6, <1>7, StackFacts
<1>9. (\A k \in Depths : stack'[k] = S[k]) /\ stack'[Len(stack) + 1] = f
  BY <1>4, <1>6, <1>7, StackFacts
<1>10. Kept(stack')
  BY <1>1, <1>5, <1>9, StackFacts DEF Kept, Frames
<1> QED BY <1>1, <1>5, <1>8, <1>9, <1>10, StackFacts DEF Pushes, Frames, f

LEMMA ReturnPops ==
  ASSUME TypeOK, Len(stack) > 0, Return
  PROVE  Pops(stack') /\ stack' \in Seq(Frames)
<1>1. stack' = [k \in 1 .. Len(stack) - 1 |-> stack[k]]
  BY StackFacts DEF Return, Front
<1> QED BY <1>1, StackFacts DEF Pops

-----------------------------------------------------------------------------
(* What a step needs to keep the shape of the stack. *)

Unique == \A i, j \in Depths : i < j /\ stack[i].fn = stack[j].fn => stack[i].fn \in {"journey", "zero"}
Shape == Unique /\ Stacked /\ Delivered

LEMMA ShapeFacts ==
  ASSUME TypeOK, Stacked
  PROVE  /\ Unique
         /\ Len(stack) \in Nat \ {0} /\ Depths = 1 .. Len(stack) /\ Len(stack) \in Depths
         /\ Top = stack[Len(stack)] /\ Top \in Frames
         /\ \A k \in Depths : stack[k] \in Frames /\ stack[k].fn \in Functions
                              /\ stack[k].at \in Sites[stack[k].fn]
         /\ \A k \in Depths : stack[k].fn = "main" <=> k = 1
<1>1. Len(stack) \in Nat \ {0} /\ Depths = 1 .. Len(stack) /\ Len(stack) \in Depths
  BY StackFacts DEF Stacked
<1>2. Unique
  BY DEF TypeOK, Unique, Depths
<1>3. \A k \in Depths : stack[k] \in Frames /\ stack[k].fn \in Functions
  BY StackFacts, <1>1 DEF Frames
<1> QED BY <1>1, <1>2, <1>3, StackFacts DEF Stacked

LEMMA MovesShape ==
  ASSUME TypeOK, Stacked, Delivered, NEW at, at \in Sites[Top.fn],
         Moves(stack', at), stack' \in Seq(Frames), UNCHANGED <<pending, sent>>
  PROVE  Shape'
<1> USE ShapeFacts
<1>1. Depths' = Depths /\ Len(stack') = Len(stack)
  BY DEF Moves, Depths
<1>2. \A k \in Depths : stack'[k].fn = stack[k].fn
  BY DEF Moves
<1>3. \A k \in Depths : k # Len(stack) => stack'[k] = stack[k]
  BY DEF Moves
<1>4. Unique'
  BY <1>1, <1>2 DEF Unique
<1>5. \A k \in Depths : stack'[k].at \in Sites[stack'[k].fn]
  BY <1>2, <1>3 DEF Moves
<1>6. \A k \in Depths \ {1} : stack'[k - 1] = stack[k - 1]
  BY <1>3
<1>7. ASSUME NEW k \in Depths \ {1}
      PROVE  /\ stack'[k].fn # "main"
             /\ stack'[k].fn = "journey" => Is(k - 1, "main", {"check"})' \/ Is(k - 1, "zero", {"end"})'
             /\ stack'[k].fn = "zero" => Is(k - 1, "main", {"report"})' \/ Is(k - 1, "term", {"end"})'
  <2>1. stack'[k].fn = stack[k].fn /\ stack'[k - 1] = stack[k - 1]
    BY <1>2, <1>6
  <2>2. /\ stack[k].fn # "main"
        /\ stack[k].fn = "journey" => Is(k - 1, "main", {"check"}) \/ Is(k - 1, "zero", {"end"})
        /\ stack[k].fn = "zero" => Is(k - 1, "main", {"report"}) \/ Is(k - 1, "term", {"end"})
    BY DEF Stacked
  <2> QED BY ONLY <2>1, <2>2 DEF Is
<1>8. Len(stack') > 0 /\ stack'[1].fn = "main"
  BY <1>1, <1>2 DEF Stacked
<1>9. Stacked'
  BY ONLY <1>1, <1>5, <1>7, <1>8 DEF Stacked
<1>10. Delivered'
  BY <1>1, <1>2 DEF Delivered
<1> QED BY <1>4, <1>9, <1>10 DEF Shape

LEMMA PushesShape ==
  ASSUME TypeOK, Stacked, Delivered, NEW back, back \in Sites[Top.fn],
         NEW f \in Frames, f.at \in Sites[f.fn], f.fn # "main",
         f.fn = "journey" => (Top.fn = "main" /\ back = "check") \/ (Top.fn = "zero" /\ back = "end"),
         f.fn = "zero" => (Top.fn = "main" /\ back = "report") \/ (Top.fn = "term" /\ back = "end"),
         f.fn \in Signals => f.fn \in pending /\ ~Masked(f.fn),
         Pushes(stack', back, f), stack' \in Seq(Frames), sent' = sent, pending' \subseteq pending
  PROVE  Shape'
<1> USE ShapeFacts
<1>1. Depths' = 1 .. Len(stack) + 1 /\ Len(stack') = Len(stack) + 1
  BY DEF Pushes, Depths
<1>2. (\A k \in Depths : stack'[k].fn = stack[k].fn) /\ stack'[Len(stack) + 1] = f
  BY DEF Pushes
<1>3. \A k \in Depths : k # Len(stack) => stack'[k] = stack[k]
  BY DEF Pushes
<1>4. \A k \in Depths : f.fn \in Signals => stack[k].fn # f.fn
  BY DEF Masked, Depths
<1>5. Unique'
  <2> SUFFICES ASSUME NEW i \in Depths', NEW j \in Depths', i < j, stack'[i].fn = stack'[j].fn
               PROVE  stack'[i].fn \in {"journey", "zero"}
    BY DEF Unique
  <2>1. CASE j \in Depths
    BY <1>1, <1>2, <2>1 DEF Unique
  <2>2. CASE j = Len(stack) + 1
    <3>1. i \in Depths /\ stack'[j] = f /\ stack[i].fn = f.fn
      BY <1>1, <1>2, <2>2
    <3>2. f.fn \notin Signals /\ f.fn \in Functions
      BY <1>4, <3>1 DEF Frames
    <3> QED BY <3>1, <3>2, <1>2 DEF Functions
  <2> QED BY <1>1, <2>1, <2>2
<1>6. \A k \in Depths' : stack'[k].at \in Sites[stack'[k].fn]
  BY <1>1, <1>2, <1>3 DEF Pushes
<1>7. \A k \in Depths \ {1} : stack'[k - 1] = stack[k - 1]
  <2>1. \A k \in Depths \ {1} : k - 1 \in Depths /\ k - 1 # Len(stack)
    OBVIOUS
  <2> QED BY <1>3, <2>1
<1>8. stack'[Len(stack)].fn = Top.fn /\ stack'[Len(stack)].at = back
  BY DEF Pushes
<1>9. ASSUME NEW k \in Depths' \ {1}
      PROVE  /\ stack'[k].fn # "main"
             /\ stack'[k].fn = "journey" => Is(k - 1, "main", {"check"})' \/ Is(k - 1, "zero", {"end"})'
             /\ stack'[k].fn = "zero" => Is(k - 1, "main", {"report"})' \/ Is(k - 1, "term", {"end"})'
  <2>1. CASE k \in Depths
    <3>1. stack'[k].fn = stack[k].fn /\ stack'[k - 1] = stack[k - 1]
      BY <1>2, <1>7, <2>1
    <3>2. /\ stack[k].fn # "main"
          /\ stack[k].fn = "journey" => Is(k - 1, "main", {"check"}) \/ Is(k - 1, "zero", {"end"})
          /\ stack[k].fn = "zero" => Is(k - 1, "main", {"report"}) \/ Is(k - 1, "term", {"end"})
      BY <2>1 DEF Stacked
    <3> QED BY ONLY <3>1, <3>2 DEF Is
  <2>2. CASE k = Len(stack) + 1
    BY <1>2, <1>8, <2>2 DEF Is
  <2> QED BY <1>1, <2>1, <2>2
<1>10. Stacked'
  BY <1>1, <1>2, <1>6, <1>9 DEF Stacked
<1>11. Delivered'
  <2> SUFFICES ASSUME NEW s \in Signals, s \in pending' \/ \E k \in Depths' : stack'[k].fn = s
               PROVE  sent'[s] > 0
    BY DEF Delivered
  <2>1. s \in pending \/ (\E k \in Depths : stack[k].fn = s) \/ f.fn = s
    BY <1>1, <1>2
  <2> QED BY <2>1 DEF Delivered
<1> QED BY <1>5, <1>10, <1>11 DEF Shape

LEMMA PopsShape ==
  ASSUME TypeOK, Stacked, Delivered, Top.fn # "main",
         Pops(stack'), UNCHANGED <<pending, sent>>
  PROVE  Shape'
<1> USE ShapeFacts
<1>1. Len(stack) > 1 /\ Depths' = 1 .. Len(stack) - 1 /\ Len(stack') = Len(stack) - 1
  BY DEF Pops, Depths
<1>2. \A k \in Depths' : k \in Depths /\ stack'[k] = stack[k]
  BY <1>1 DEF Pops
<1>3. Unique'
  BY <1>2 DEF Unique
<1>4. \A k \in Depths' \ {1} : k - 1 \in Depths'
  BY <1>1
<1>5. Stacked'
  <2>1. Len(stack') > 0 /\ stack'[1].fn = "main"
    BY <1>1, <1>2
  <2>2. \A k \in Depths' : stack'[k].at \in Sites[stack'[k].fn]
    BY <1>2
  <2>3. \A k \in Depths' \ {1} : /\ k \in Depths \ {1}
                                /\ stack'[k] = stack[k] /\ stack'[k - 1] = stack[k - 1]
    BY <1>2, <1>4
  <2> QED BY <2>1, <2>2, <2>3 DEF Stacked, Is
<1>6. Delivered'
  BY <1>2 DEF Delivered
<1> QED BY <1>3, <1>5, <1>6 DEF Shape

-----------------------------------------------------------------------------
(* The steps of the running call that change no coach, but for its          *)
(* connection: from Top.at to at.                                           *)

Walks(at) ==
  /\ Moves(stack', at) /\ Kept(stack')
  /\ coach'.id = coach.id /\ coach'.live = coach.live
  /\ coach'.life = coach.life /\ coach'.index = coach.index
  /\ medals \subseteq medals' /\ retries' = retries /\ overtaken' = overtaken
  /\ Top.at \notin {"load", "advance", "store"} /\ at \notin {"store", "advance", "begin"}
  /\ at = "load" => Top.fn = "journey"
  /\ Top.fn = "zero" => Top.at = "begin" \/ at = "destroy"
  /\ \/ Top.fn = "zero"
     \/ Top.fn = "journey" /\ at \notin {"play", "won", "lost"}
     \/ Top.fn = "journey" /\ coach'.conn = "open"
     \/ coach'.conn = coach.conn /\ (Top.fn = "journey" => Top.at \in {"play", "won", "lost"})
  /\ Is(Len(stack), "journey", {"won", "next"})' => coach.index \in medals'
  /\ Top.at = "test" => coach.life > 0

LEMMA WalksKeep ==
  ASSUME IInv, NEW at, Walks(at)
  PROVE  Allocated' /\ Connected' /\ Outdated' /\ Indexed' /\ LivesLeft'
<1> DEFINE n == Len(stack)
<1>0. TypeOK /\ Stacked /\ Allocated /\ Connected /\ Outdated /\ Indexed /\ LivesLeft
  BY DEF IInv
<1> USE ShapeFacts, <1>0
<1>1. /\ Depths' = Depths /\ Len(stack') = n
      /\ \A k \in Depths : /\ stack'[k].fn = stack[k].fn
                           /\ stack'[k].id = stack[k].id /\ stack'[k].reg = stack[k].reg
                           /\ k # n => stack'[k].at = stack[k].at
      /\ stack[n].at = Top.at /\ stack[n].fn = Top.fn /\ stack'[n].at = at
  BY DEF Walks, Moves, Kept, Depths
<1>2. \A k \in Depths : k \in 1 .. n
  OBVIOUS
<1>3. /\ coach'.id = coach.id /\ coach'.live = coach.live
      /\ coach'.life = coach.life /\ coach'.index = coach.index
      /\ medals \subseteq medals' /\ retries' = retries /\ overtaken' = overtaken
      /\ Top.at \notin {"load", "advance", "store"} /\ at \notin {"store", "advance", "begin"}
      /\ at = "load" => Top.fn = "journey"
      /\ Top.fn = "zero" => Top.at = "begin" \/ at = "destroy"
  BY DEF Walks
<1> HIDE DEF n
<1>4. Allocated'
  <2>1. \A k \in Depths : Unloaded(k)' => Unloaded(k) /\ k # n
    BY <1>1, <1>3 DEF Unloaded
  <2>2. \A k \in Depths : ~Unloaded(k)
    BY <1>1, <1>2, <1>3 DEF Allocated, Unloaded, n
  <2>3. \A k \in Depths : stack'[k].fn = "journey" \/ stack'[k].at = "store"
                            => stack[k].fn = "journey" \/ stack[k].at = "store"
    BY <1>1, <1>3
  <2>4. \A k \in Depths : Is(k, "zero", {"load", "advance", "begin", "end"})'
                            => Is(k, "zero", {"load", "advance", "begin", "end"})
    BY <1>1, <1>3 DEF Is
  <2> QED BY <1>1, <1>3, <2>1, <2>2, <2>3, <2>4 DEF Allocated
<1>5. Connected'
  <2> SUFFICES ASSUME retries' = 0, \A k \in Depths' : stack'[k].fn # "zero",
                      NEW k \in Depths', Is(k, "journey", {"play", "won", "lost"})'
               PROVE  coach'.conn = "open"
    BY DEF Connected
  <2>1. retries = 0 /\ (\A j \in Depths : stack[j].fn # "zero") /\ stack[k].fn = "journey"
    BY <1>1, <1>3 DEF Is
  <2>2. k = n \/ Is(k, "journey", {"play", "won", "lost"})
    BY <1>1 DEF Is
  <2>3. k = 2 /\ n > 1
    BY <1>2, <2>1, <1>1 DEF Stacked, Is, n
  <2>4. Top.fn # "zero"
    BY <2>1, <1>1 DEF n
  <2>5. k # n => Top.fn # "journey"
    <3>1. n # 2 => stack[n].fn # "journey"
      <4>1. n # 2 => n \in Depths \ {1} /\ n - 1 \in Depths /\ n - 1 # 1
        BY <2>3 DEF n
      <4> QED BY <4>1, <2>1 DEF Stacked, Is
    <3> QED BY <3>1, <2>3, <1>1
  <2>6. CASE k = n
    BY <1>1, <1>3, <2>1, <2>4, <2>6 DEF Walks, Connected, Is
  <2>7. CASE k # n
    BY <1>1, <1>3, <2>1, <2>2, <2>4, <2>5, <2>7 DEF Walks, Connected
  <2> QED BY <2>6, <2>7
<1>6. Outdated'
  <2>1. \A k \in Depths : Own(k)' = Own(k)
    BY <1>1, <1>3 DEF Own
  <2>2. \A k \in Depths : stack[k].fn = "zero" /\ Retrying(k) => Retrying(k)'
    BY <1>1, <1>3 DEF Retrying, Is
  <2>3. \A i, j \in Depths : i > j => stack'[j].at = stack[j].at
    BY <1>1, <1>2 DEF n
  <2> QED BY <1>1, <2>1, <2>2, <2>3 DEF Outdated
<1>7. Indexed'
  <2>1. \A k \in Depths : (Own(k)' = Own(k)) /\ (stack'[k].at = "advance" <=> stack[k].at = "advance")
                          /\ (stack'[k].at = "begin" => stack[k].at = "begin")
    BY <1>1, <1>3 DEF Own
  <2>2. \A k \in Depths : Is(k, "journey", {"won", "next"})' =>
                            Is(k, "journey", {"won", "next"}) \/ coach.index \in medals'
    BY <1>1, <1>3 DEF Is, Walks, n
  <2>3. \A k \in Depths : stack[k].fn = "journey" /\ Own(k) => coach'.index \in 1 .. Maps
    BY <1>3 DEF Indexed
  <2>4. \A k \in Depths : Is(k, "journey", {"won", "next"})' /\ Own(k) => coach'.index \in medals'
    BY <1>3, <2>2 DEF Indexed
  <2>5. \A k \in Depths : stack'[k].at = "begin" =>
                            coach'.index > 0 \/ \E j \in Depths : j > k /\ stack'[j].at = "advance"
    BY <1>3, <2>1 DEF Indexed
  <2>6. \A k \in Depths : stack'[k].at = "advance" => coach'.index <= Maps + 1
    BY <1>3, <2>1 DEF Indexed
  <2>7. \A k, j \in Depths : j < k /\ stack'[j].fn = "term" =>
          /\ stack'[k].at = "advance" => coach'.index = 0
          /\ stack'[k].at = "begin" => coach'.index = 1
    BY <1>1, <1>3, <2>1 DEF Indexed
  <2> QED BY <1>1, <2>1, <2>3, <2>4, <2>5, <2>6, <2>7 DEF Indexed
<1>8. LivesLeft'
  <2> SUFFICES ASSUME ~overtaken', NEW k \in Depths', Counts(k)'
               PROVE  /\ coach'.life > 0 \/ Excused(k, Len(stack))'
                      /\ \A g \in Depths' : k < g /\ Is(g, "gift", {"store"})' /\ Own(g)' =>
                           stack'[g].reg > 0 \/ Excused(k, g)'
    BY DEF LivesLeft
  <2>1. ~overtaken /\ k \in Depths
    BY <1>1, <1>3
  <2>2. Counts(k) \/ (k = n /\ Top.at = "test")
    BY <1>1, <1>3 DEF Counts, Own
  <2>3. \A j \in Depths : Retrying(j) \/ stack[j].at = "test" =>
                            (Retrying(j) \/ stack[j].at = "test")' \/ coach.life > 0
    BY <1>1, <1>3 DEF Retrying, Is, Walks
  <2>4. \A j \in Depths : j # n /\ (Retrying(j) \/ stack[j].at = "test") => (Retrying(j) \/ stack[j].at = "test")'
    BY <1>1, <1>3 DEF Retrying, Is
  <2>5. coach.life > 0 \/ Excused(k, Len(stack))'
    <3>1. CASE Counts(k)
      <4>1. coach.life > 0 \/ Excused(k, n)
        BY <2>1, <3>1 DEF LivesLeft, n
      <4>2. ASSUME NEW j \in Depths, k < j, Retrying(j) \/ stack[j].at = "test"
            PROVE  coach.life > 0 \/ Excused(k, Len(stack))'
        <5>1. (Retrying(j) \/ stack[j].at = "test")' \/ coach.life > 0
          BY <2>3, <4>2
        <5>2. j \in Depths' /\ j <= Len(stack')
          BY <1>1, <1>2
        <5> QED BY <4>2, <5>1, <5>2 DEF Excused
      <4> QED BY <4>1, <4>2 DEF Excused
    <3>2. CASE k = n /\ Top.at = "test"
      BY <3>2 DEF Walks
    <3> QED BY <2>2, <3>1, <3>2
  <2>6. ASSUME NEW g \in Depths', k < g, Is(g, "gift", {"store"})', Own(g)'
        PROVE  stack'[g].reg > 0 \/ Excused(k, g)'
    <3>1. g \in Depths /\ g # n /\ Is(g, "gift", {"store"}) /\ Own(g)
      BY <1>1, <1>3, <2>6 DEF Is, Own
    <3>2. k # n /\ Counts(k)
      BY <1>2, <2>1, <2>2, <2>6, <3>1
    <3>3. stack[g].reg > 0 \/ Excused(k, g)
      BY <2>1, <2>6, <3>1, <3>2 DEF LivesLeft
    <3>4. \A j \in Depths : j <= g => j # n
      BY <1>2, <3>1 DEF n
    <3>5. ASSUME NEW j \in Depths, k < j, j <= g, Retrying(j) \/ stack[j].at = "test"
          PROVE  Excused(k, g)'
      <4>1. (Retrying(j) \/ stack[j].at = "test")' /\ j \in Depths'
        BY <1>1, <2>4, <3>4, <3>5
      <4> QED BY <3>5, <4>1 DEF Excused
    <3>6. Excused(k, g) => Excused(k, g)'
      BY <3>5 DEF Excused
    <3> QED BY <1>1, <3>1, <3>3, <3>6
  <2> QED BY <1>1, <1>3, <2>5, <2>6
<1> QED BY <1>4, <1>5, <1>6, <1>7, <1>8

-----------------------------------------------------------------------------
(* The steps that put a frame on the stack: a signal, a journey, a retry. *)

Enters(back, f) ==
  /\ f \in Frames /\ f.id = coach.id
  /\ Pushes(stack', back, f)
  /\ UNCHANGED <<coach, medals, retries, overtaken>>
  /\ \/ /\ f.fn \in Signals /\ ~Masked(f.fn) /\ f.at = "load" /\ back = Top.at
     \/ /\ f.fn = "journey" /\ f.at = "connect"
        /\ Top.fn \in {"main", "zero"} /\ Top.at = "begin"
        /\ back = IF Top.fn = "main" THEN "check" ELSE "end"
        /\ coach.live /\ coach.index <= Maps
     \/ /\ f.fn = "zero" /\ f.at = "disconnect"
        /\ Top.fn \in {"main", "term"} /\ Top.at \in {"check", "test"}
        /\ back \in {"report", "end"} /\ coach.live

LEMMA EntersKeep ==
  ASSUME IInv, NEW back, NEW f, Enters(back, f)
  PROVE  Allocated' /\ Connected' /\ Outdated' /\ Indexed' /\ LivesLeft'
<1> DEFINE n == Len(stack)
<1>0. TypeOK /\ Stacked /\ Allocated /\ Connected /\ Outdated /\ Indexed /\ LivesLeft
  BY DEF IInv
<1> USE ShapeFacts, <1>0
<1>m. PICK m \in Nat : m = n + 1
  OBVIOUS
<1>1. /\ Depths' = 1 .. n + 1 /\ Len(stack') = n + 1 /\ stack'[n + 1] = f
      /\ \A k \in Depths : /\ stack'[k].fn = stack[k].fn
                           /\ stack'[k].id = stack[k].id /\ stack'[k].reg = stack[k].reg
                           /\ k # n => stack'[k].at = stack[k].at
      /\ stack[n].at = Top.at /\ stack[n].fn = Top.fn /\ stack'[n].at = back
  BY DEF Enters, Pushes, Kept, Depths
<1>2. \A k \in Depths' : k \in Depths \/ k = n + 1
  BY <1>1
<1>3. /\ coach' = coach /\ medals' = medals /\ retries' = retries /\ overtaken' = overtaken
      /\ f \in Frames /\ f.id = coach.id
  BY DEF Enters
<1>s. CASE f.fn \in Signals
  <2>0. /\ ~Masked(f.fn) /\ f.at = "load" /\ back = Top.at
        /\ f.fn \notin {"main", "journey", "zero"}
    BY <1>s DEF Enters, Signals
  <2>1. \A k \in Depths : stack'[k].at = stack[k].at /\ stack[k].fn # f.fn
    BY <1>1, <2>0 DEF Masked, Depths
  <2>2. Allocated'
    <3>1. \A k \in Depths : (Unloaded(k)' = Unloaded(k)) /\ ~Unloaded(m)'
      BY <1>1, <1>m, <2>0, <2>1 DEF Unloaded
    <3>2. \A k \in Depths : Is(k, "zero", {"load", "advance", "begin", "end"})'
                              = Is(k, "zero", {"load", "advance", "begin", "end"})
      BY <1>1, <2>1 DEF Is
    <3>3. ~Is(m, "zero", {"load", "advance", "begin", "end"})'
      BY <1>1, <1>m, <2>0 DEF Is
    <3>4. coach'.id = retries' + (IF coach'.live THEN 1 ELSE 0)
      BY <1>3 DEF Allocated
    <3>5. ASSUME NEW k \in Depths'
          PROVE  /\ stack'[k].id <= coach'.id
                 /\ stack'[k].fn = "journey" \/ stack'[k].at = "store" => stack'[k].id > 0
                 /\ Is(k, "zero", {"load", "advance", "begin", "end"})' => retries' > 0
                 /\ Unloaded(k)' => /\ ~coach'.live
                                    /\ \A j \in Depths' : j > k => stack'[j].fn \in Signals /\ stack'[j].at = "load"
      <4>1. CASE k \in Depths
        <5>1. /\ stack'[k].id <= coach'.id
              /\ stack'[k].fn = "journey" \/ stack'[k].at = "store" => stack'[k].id > 0
              /\ Is(k, "zero", {"load", "advance", "begin", "end"})' => retries' > 0
          BY <1>1, <1>3, <2>1, <3>2, <4>1 DEF Allocated
        <5>2. Unloaded(k)' => /\ ~coach'.live
                              /\ \A j \in Depths : j > k => stack'[j].fn \in Signals /\ stack'[j].at = "load"
          BY <1>1, <1>3, <2>1, <3>1, <4>1 DEF Allocated
        <5> QED BY <1>1, <1>2, <1>s, <2>0, <5>1, <5>2
      <4>2. CASE k = n + 1
        BY <1>1, <1>m, <1>3, <2>0, <3>1, <3>3, <4>2 DEF Frames, TypeOK
      <4> QED BY <1>2, <4>1, <4>2
    <3> QED BY <3>4, <3>5 DEF Allocated
  <2>3. Connected'
    <3>1. \A k \in Depths' : Is(k, "journey", {"play", "won", "lost"})' =>
                               k \in Depths /\ Is(k, "journey", {"play", "won", "lost"})
      BY <1>1, <1>2, <2>0, <2>1 DEF Is
    <3>2. (\A k \in Depths' : stack'[k].fn # "zero") => \A k \in Depths : stack[k].fn # "zero"
      BY <1>1
    <3> QED BY <1>3, <3>1, <3>2 DEF Connected
  <2>4. Outdated'
    <3>1. \A k \in Depths : /\ Own(k)' = Own(k) /\ Retrying(k)' = Retrying(k)
                            /\ stack'[k].fn = stack[k].fn /\ stack'[k].at = stack[k].at
      BY <1>1, <1>3, <2>1 DEF Own, Retrying, Is
    <3>2. stack'[n + 1].fn \in Signals /\ \A k \in Depths : stack[k].fn = "term" => stack'[n + 1].fn = "gift"
      BY <1>1, <1>s, <2>1 DEF Signals
    <3>3. "journey" \notin Signals /\ "zero" \notin Signals
      BY DEF Signals
    <3>4. \A k, j \in Depths' : k < j => k \in Depths /\ (j \in Depths \/ j = n + 1)
      BY <1>1
    <3> HIDE DEF n
    <3> QED BY <1>2, <3>1, <3>2, <3>3, <3>4 DEF Outdated
  <2>5. Indexed'
    <3>1. \A k \in Depths : /\ Own(k)' = Own(k) /\ Is(k, "journey", {"won", "next"})' = Is(k, "journey", {"won", "next"})
                            /\ stack'[k].fn = stack[k].fn /\ stack'[k].at = stack[k].at
      BY <1>1, <1>3, <2>1 DEF Own, Is
    <3>2. /\ stack'[n + 1].fn \notin {"main", "journey", "zero"} /\ stack'[n + 1].at = "load"
          /\ ~Is(m, "journey", {"won", "next"})'
      BY <1>1, <1>m, <2>0 DEF Is
    <3>3. \A k, j \in Depths' : j < k => j \in Depths
      BY <1>1
    <3>4. Depths \subseteq Depths'
      BY <1>1
    <3> HIDE DEF n
    <3>5. ASSUME NEW k \in Depths'
          PROVE  /\ stack'[k].fn = "journey" /\ Own(k)' => coach'.index \in 1 .. Maps
                 /\ Is(k, "journey", {"won", "next"})' /\ Own(k)' => coach'.index \in medals'
                 /\ stack'[k].at = "advance" => coach'.index <= Maps + 1
                 /\ \A j \in Depths' : j < k /\ stack'[j].fn = "term" =>
                      /\ stack'[k].at = "advance" => coach'.index = 0
                      /\ stack'[k].at = "begin" => coach'.index = 1
                 /\ stack'[k].at = "begin" =>
                      coach'.index > 0 \/ \E j \in Depths' : j > k /\ stack'[j].at = "advance"
      <4>1. CASE k \in Depths
        BY <1>3, <3>1, <3>3, <3>4, <4>1 DEF Indexed
      <4>2. CASE k = n + 1
        BY <1>m, <3>2, <4>2
      <4> QED BY <1>2, <4>1, <4>2
    <3> QED BY <3>5 DEF Indexed
  <2>6. LivesLeft'
    <3> SUFFICES ASSUME ~overtaken', NEW k \in Depths', Counts(k)'
                 PROVE  /\ coach'.life > 0 \/ Excused(k, Len(stack))'
                        /\ \A g \in Depths' : k < g /\ Is(g, "gift", {"store"})' /\ Own(g)' =>
                             stack'[g].reg > 0 \/ Excused(k, g)'
      BY DEF LivesLeft
    <3>1. k \in Depths /\ Counts(k)
      BY <1>1, <1>2, <1>3, <2>0, <2>1 DEF Counts, Own
    <3>2. \A j \in Depths : (Retrying(j) \/ stack[j].at = "test") = (Retrying(j) \/ stack[j].at = "test")'
      BY <1>1, <2>1 DEF Retrying, Is
    <3>3. \A g \in Depths' : Is(g, "gift", {"store"})' /\ Own(g)' => g \in Depths /\ Is(g, "gift", {"store"}) /\ Own(g)
      BY <1>1, <1>2, <1>3, <2>0, <2>1 DEF Is, Own
    <3>4. \A g \in Depths : Excused(k, g) => Excused(k, g)'
      BY <1>1, <3>2 DEF Excused
    <3>5. Excused(k, n) => Excused(k, Len(stack))'
      BY <1>1, <3>2 DEF Excused
    <3> QED BY <1>1, <1>3, <3>1, <3>3, <3>4, <3>5 DEF LivesLeft
  <2> QED BY <2>2, <2>3, <2>4, <2>5, <2>6
<1>c. CASE f.fn \in {"journey", "zero"}
  <2>0. /\ coach.live /\ f.at \in {"connect", "disconnect"} /\ back \in {"check", "report", "end"}
        /\ Top.at \in {"begin", "check", "test"} /\ Top.fn \in {"main", "zero", "term"}
        /\ f.fn = "journey" => /\ f.at = "connect" /\ Top.fn \in {"main", "zero"} /\ Top.at = "begin"
                               /\ (Top.fn = "zero" => back = "end") /\ coach.index <= Maps
        /\ f.fn = "zero" => f.at = "disconnect" /\ Top.fn \in {"main", "term"} /\ Top.at # "begin"
    BY <1>c DEF Enters, Signals
  <2>1. coach.id > 0 /\ \A k \in Depths : ~Unloaded(k)
    BY <2>0 DEF Allocated, TypeOK
  <2>2. Allocated'
    <3>1. \A k \in Depths' : ~Unloaded(k)'
      BY <1>1, <1>2, <2>0, <2>1 DEF Unloaded
    <3>2. \A k \in Depths' : Is(k, "zero", {"load", "advance", "begin", "end"})' =>
                               k \in Depths /\ Is(k, "zero", {"load", "advance", "begin", "end"})
      <4>1. \A k \in Depths : k # n => stack'[k].at = stack[k].at
        BY <1>1
      <4>2. stack[n].fn = "zero" => stack[n].at = "begin"
        BY <1>1, <1>c, <2>0
      <4>3. ~Is(m, "zero", {"load", "advance", "begin", "end"})'
        BY <1>1, <1>m, <2>0 DEF Is
      <4> QED BY <1>1, <1>m, <1>2, <4>1, <4>2, <4>3 DEF Is
    <3>3. \A k \in Depths' : /\ stack'[k].id <= coach'.id
                             /\ stack'[k].fn = "journey" \/ stack'[k].at = "store" => stack'[k].id > 0
      <4> SUFFICES ASSUME NEW k \in Depths'
                   PROVE  /\ stack'[k].id <= coach'.id
                          /\ stack'[k].fn = "journey" \/ stack'[k].at = "store" => stack'[k].id > 0
        OBVIOUS
      <4>1. CASE k \in Depths
        BY <1>1, <1>3, <2>0, <4>1 DEF Allocated
      <4>2. CASE k = n + 1
        BY <1>1, <1>3, <2>1, <4>2 DEF TypeOK
      <4> QED BY <1>2, <4>1, <4>2
    <3> QED BY <1>3, <3>1, <3>2, <3>3 DEF Allocated
  <2>3. Connected'
    <3>1. \A k \in Depths' : Is(k, "journey", {"play", "won", "lost"})' =>
                               k \in Depths /\ Is(k, "journey", {"play", "won", "lost"})
      BY <1>1, <1>2, <2>0 DEF Is
    <3>2. (\A k \in Depths' : stack'[k].fn # "zero") => \A k \in Depths : stack[k].fn # "zero"
      BY <1>1
    <3> QED BY <1>3, <3>1, <3>2 DEF Connected
  <2>4. Outdated'
    <3>1. \A k \in Depths : Own(k)' = Own(k) /\ (Retrying(k) => Retrying(k)')
      BY <1>1, <1>3, <2>0 DEF Own, Retrying, Is
    <3>2. f.fn = "zero" => Retrying(m)'
      BY <1>1, <1>m, <2>0 DEF Retrying, Is
    <3>3. \A k \in Depths : stack[k].fn = "journey" /\ f.fn = "journey" => ~Own(k)
      <4>1. Top.fn = "main" => \A k \in Depths : stack[k].fn # "journey"
        BY <1>1
      <4>2. Top.fn = "zero" /\ f.fn = "journey" => ~Retrying(n)
        BY <1>1, <2>0 DEF Retrying, Is
      <4>3. \A k \in Depths : k # n => k < n
        OBVIOUS
      <4> QED BY <1>1, <2>0, <4>1, <4>2, <4>3 DEF Outdated
    <3>4. ASSUME NEW k \in Depths', NEW j \in Depths', k < j
          PROVE  /\ stack'[k].fn = "journey" /\ stack'[j].fn = "zero" /\ ~Retrying(j)' => ~Own(k)'
                 /\ stack'[k].fn = "journey" /\ stack'[j].fn = "journey" => ~Own(k)'
                 /\ stack'[k].fn = "term" /\ stack'[j].fn = "zero" /\ stack'[j].at # "end" =>
                      \A i \in Depths' : i > j => stack'[i].fn = "gift"
      <4>1. CASE j \in Depths
        <5>1. k \in Depths
          BY <1>1, <3>4, <4>1
        <5>2. /\ stack'[k].fn = "journey" /\ stack'[j].fn = "zero" /\ ~Retrying(j)' => ~Own(k)'
              /\ stack'[k].fn = "journey" /\ stack'[j].fn = "journey" => ~Own(k)'
          BY <1>1, <3>1, <3>4, <4>1, <5>1 DEF Outdated
        <5>3. ASSUME stack'[k].fn = "term", stack'[j].fn = "zero", stack'[j].at # "end", NEW i \in Depths', i > j
              PROVE  FALSE
          <6>1. CASE j = n
            BY <1>1, <1>c, <2>0, <5>3, <6>1
          <6>2. CASE j # n
            BY <1>1, <2>0, <3>4, <4>1, <5>1, <5>3, <6>2 DEF Outdated
          <6> QED BY <6>1, <6>2
        <5> QED BY <5>2, <5>3
      <4>2. CASE j = n + 1
        BY <1>1, <1>m, <1>2, <3>1, <3>2, <3>3, <3>4, <4>2
      <4> QED BY <1>2, <4>1, <4>2
    <3> QED BY <3>4 DEF Outdated
  <2>5. Indexed'
    <3>1. \A k \in Depths' : /\ stack'[k].at = "advance" => k \in Depths /\ k # n /\ stack[k].at = "advance"
                             /\ stack'[k].at = "begin" => k \in Depths /\ k # n /\ stack[k].at = "begin"
                             /\ Is(k, "journey", {"won", "next"})' => k \in Depths /\ Is(k, "journey", {"won", "next"})
      BY <1>1, <1>2, <2>0 DEF Is
    <3>2. \A k \in Depths : /\ Own(k)' = Own(k) /\ stack'[k].fn = stack[k].fn
                            /\ stack[k].at = "advance" => k # n /\ stack'[k].at = "advance"
      BY <1>1, <1>3, <2>0 DEF Own
    <3>3. \A k, j \in Depths' : j < k => j \in Depths
      BY <1>1
    <3>4. Depths \subseteq Depths'
      BY <1>1
    <3>5. f.fn = "journey" => coach.index \in 1 .. Maps
      <4>1. \A j \in Depths : ~(j > n)
        OBVIOUS
      <4>2. f.fn = "journey" => coach.index > 0
        BY <1>1, <2>0, <4>1 DEF Indexed
      <4> QED BY <2>0, <4>2 DEF TypeOK
    <3> HIDE DEF n
    <3>6. ASSUME NEW k \in Depths'
          PROVE  /\ stack'[k].fn = "journey" /\ Own(k)' => coach'.index \in 1 .. Maps
                 /\ Is(k, "journey", {"won", "next"})' /\ Own(k)' => coach'.index \in medals'
                 /\ stack'[k].at = "advance" => coach'.index <= Maps + 1
                 /\ \A j \in Depths' : j < k /\ stack'[j].fn = "term" =>
                      /\ stack'[k].at = "advance" => coach'.index = 0
                      /\ stack'[k].at = "begin" => coach'.index = 1
                 /\ stack'[k].at = "begin" =>
                      coach'.index > 0 \/ \E j \in Depths' : j > k /\ stack'[j].at = "advance"
      <4>1. CASE k \in Depths
        BY <1>3, <3>1, <3>2, <3>3, <3>4, <4>1 DEF Indexed
      <4>2. CASE k = n + 1
        BY <1>1, <1>3, <2>0, <3>5, <4>2 DEF Is
      <4> QED BY <1>2, <4>1, <4>2
    <3> QED BY <3>6 DEF Indexed
  <2>6. LivesLeft'
    <3> SUFFICES ASSUME ~overtaken', NEW k \in Depths', Counts(k)'
                 PROVE  /\ coach'.life > 0 \/ Excused(k, Len(stack))'
                        /\ \A g \in Depths' : k < g /\ Is(g, "gift", {"store"})' /\ Own(g)' =>
                             stack'[g].reg > 0 \/ Excused(k, g)'
      BY DEF LivesLeft
    <3>1. (k \in Depths /\ k # n /\ Counts(k)) \/ (k = n + 1 /\ f.fn = "journey")
      BY <1>1, <1>2, <1>3, <2>0 DEF Counts, Own
    <3>2. \A j \in Depths : j # n /\ (Retrying(j) \/ stack[j].at = "test") => (Retrying(j) \/ stack[j].at = "test")'
      BY <1>1 DEF Retrying, Is
    <3>3. \A g \in Depths' : Is(g, "gift", {"store"})' /\ Own(g)' =>
                               g \in Depths /\ g # n /\ Is(g, "gift", {"store"}) /\ Own(g)
      BY <1>1, <1>2, <1>3, <2>0 DEF Is, Own
    <3>4. ASSUME NEW g \in Depths, g # n, Excused(k, g)
          PROVE  Excused(k, g)'
      BY <1>1, <3>2, <3>4 DEF Excused
    <3>5. k \in Depths /\ Excused(k, n) => Excused(k, Len(stack))' \/ coach.life > 0
      <4>1. CASE f.fn = "zero"
        <5>1. Retrying(m)'
          BY <1>1, <1>m, <2>0, <4>1 DEF Retrying, Is
        <5> QED BY <1>1, <1>m, <5>1 DEF Excused
      <4>2. CASE f.fn = "journey"
        <5>1. ~(Retrying(n) \/ stack[n].at = "test")
          BY <1>1, <2>0, <4>2 DEF Retrying, Is
        <5> QED BY <1>1, <3>2, <5>1 DEF Excused
      <4> QED BY <1>c, <4>1, <4>2
    <3>6. f.fn = "journey" => coach.life > 0
      <4>1. ~Excused(n, n)
        BY DEF Excused
      <4>2. f.fn = "journey" => Counts(n)
        BY <1>1, <2>0 DEF Counts
      <4> QED BY <1>3, <4>1, <4>2 DEF LivesLeft
    <3>7. coach.life > 0 \/ Excused(k, Len(stack))'
      BY <1>3, <3>1, <3>5, <3>6 DEF LivesLeft
    <3>8. ASSUME NEW g \in Depths', k < g, Is(g, "gift", {"store"})', Own(g)'
          PROVE  stack'[g].reg > 0 \/ Excused(k, g)'
      <4>1. g \in Depths /\ g # n /\ Is(g, "gift", {"store"}) /\ Own(g) /\ k \in Depths /\ Counts(k)
        BY <3>1, <3>3, <3>8
      <4>2. stack[g].reg > 0 \/ Excused(k, g)
        BY <1>3, <3>8, <4>1 DEF LivesLeft
      <4> QED BY <1>1, <3>4, <4>1, <4>2
    <3> QED BY <1>3, <3>7, <3>8
  <2> QED BY <2>2, <2>3, <2>4, <2>5, <2>6
<1> QED BY <1>s, <1>c DEF Enters

-----------------------------------------------------------------------------
(* The steps that take a frame off the stack: the end of a handler or of a  *)
(* retry, that of the journey after the last map, and that for want of      *)
(* lives.                                                                   *)

Leaves ==
  /\ Pops(stack') /\ Top.fn # "main"
  /\ coach'.id = coach.id /\ coach'.live = coach.live /\ coach'.life = coach.life /\ coach'.conn = coach.conn
  /\ UNCHANGED <<medals, retries>>
  /\ \/ Top.at = "end" /\ coach'.index = coach.index /\ overtaken' = overtaken
     \/ /\ Top.fn = "journey" /\ Top.at = "next" /\ Own(Len(stack))
        /\ coach'.index = Maps + 1 /\ overtaken' = overtaken
     \/ /\ Top.fn = "journey" /\ Top.at = "test" /\ Own(Len(stack)) /\ coach'.index = coach.index
        /\ overtaken' = (overtaken \/ \E k \in Depths : stack[k].at \in {"advance", "begin"})

LEMMA LeavesKeep ==
  ASSUME IInv, Leaves
  PROVE  Allocated' /\ Connected' /\ Outdated' /\ Indexed' /\ LivesLeft'
<1> DEFINE n == Len(stack)
<1>0. TypeOK /\ Stacked /\ Allocated /\ Connected /\ Outdated /\ Indexed /\ LivesLeft
  BY DEF IInv
<1> USE ShapeFacts, <1>0
<1>1. /\ Depths' = 1 .. n - 1 /\ Len(stack') = n - 1
      /\ \A k \in Depths' : k \in Depths /\ k < n /\ stack'[k] = stack[k]
      /\ stack[n].at = Top.at /\ stack[n].fn = Top.fn
  BY DEF Leaves, Pops, Depths
<1>2. \A k \in Depths : k # n => k \in Depths' /\ k < n
  BY <1>1
<1>3. /\ coach'.id = coach.id /\ coach'.live = coach.live /\ coach'.life = coach.life
      /\ coach'.conn = coach.conn /\ medals' = medals /\ retries' = retries
      /\ Top.at \in {"end", "next", "test"}
      /\ coach'.index = coach.index \/ (Top.fn = "journey" /\ Own(n) /\ coach'.index = Maps + 1)
  BY DEF Leaves
<1> HIDE DEF n
<1>4. Allocated'
  <2>1. \A k \in Depths' : /\ Unloaded(k)' = Unloaded(k)
                           /\ Is(k, "zero", {"load", "advance", "begin", "end"})'
                                = Is(k, "zero", {"load", "advance", "begin", "end"})
    BY <1>1 DEF Unloaded, Is
  <2> QED BY <1>1, <1>3, <2>1 DEF Allocated
<1>5. Connected'
  <2> SUFFICES ASSUME retries' = 0, \A k \in Depths' : stack'[k].fn # "zero",
                      NEW k \in Depths', Is(k, "journey", {"play", "won", "lost"})'
               PROVE  coach'.conn = "open"
    BY DEF Connected
  <2>1. stack[n].fn # "zero"
    <3>1. stack[n].fn = "zero" => Is(n, "zero", {"load", "advance", "begin", "end"})
      <4>1. stack[n].at \in {"end", "next", "test"} /\ stack[n].at \in Sites[stack[n].fn]
        BY <1>1, <1>3 DEF n
      <4>2. Sites["zero"] = {"disconnect", "destroy", "load", "advance", "begin", "end"}
        BY DEF Sites
      <4> QED BY <4>1, <4>2 DEF Is
    <3> QED BY <1>3, <3>1 DEF Allocated, n
  <2>2. \A j \in Depths : stack[j].fn # "zero"
    BY <1>1, <1>2, <2>1
  <2>3. Is(k, "journey", {"play", "won", "lost"})
    BY <1>1 DEF Is
  <2> QED BY <1>1, <1>3, <2>2, <2>3 DEF Connected
<1>6. \A k \in Depths' : (Own(k)' = Own(k)) /\ (Retrying(k)' = Retrying(k))
  BY <1>1, <1>3 DEF Own, Retrying, Is
<1>7. Outdated'
  BY <1>1, <1>6 DEF Outdated
<1>8. Indexed'
  <2> SUFFICES ASSUME NEW k \in Depths'
               PROVE  /\ stack'[k].fn = "journey" /\ Own(k)' => coach'.index \in 1 .. Maps
                      /\ Is(k, "journey", {"won", "next"})' /\ Own(k)' => coach'.index \in medals'
                      /\ stack'[k].at = "advance" => coach'.index <= Maps + 1
                      /\ \A j \in Depths' : j < k /\ stack'[j].fn = "term" =>
                           /\ stack'[k].at = "advance" => coach'.index = 0
                           /\ stack'[k].at = "begin" => coach'.index = 1
                      /\ stack'[k].at = "begin" =>
                           coach'.index > 0 \/ \E j \in Depths' : j > k /\ stack'[j].at = "advance"
    BY DEF Indexed
  <2>1. k \in Depths /\ stack'[k] = stack[k] /\ k < n /\ (Is(k, "journey", {"won", "next"})' => Is(k, "journey", {"won", "next"}))
    BY <1>1 DEF Is
  <2>2. CASE coach'.index = coach.index
    <3>1. \A j \in Depths : stack[j].at = "advance" => j \in Depths' /\ stack'[j] = stack[j]
      BY <1>1, <1>2, <1>3
    <3> QED BY <1>1, <1>3, <1>6, <2>1, <2>2, <3>1 DEF Indexed
  <2>3. CASE Top.fn = "journey" /\ Own(n) /\ coach'.index = Maps + 1
    <3>1. stack[k].fn = "journey" => ~Own(k)
      BY <1>1, <2>1, <2>3 DEF Outdated, n
    <3>2. ~Is(k, "journey", {"won", "next"}) \/ ~Own(k)
      BY <3>1 DEF Is
    <3>3. ASSUME NEW j \in Depths, j < k, stack[j].fn = "term"
          PROVE  stack[k].at \notin {"advance", "begin"}
      <4>1. stack[k].at \in {"advance", "begin"} => stack[k].fn = "zero"
        BY <2>1, <3>3 DEF Sites, Functions, Signals
      <4> QED BY <1>1, <2>1, <2>3, <3>3, <4>1 DEF Outdated, n
    <3>4. Own(k)' = Own(k) /\ stack'[k] = stack[k] /\ k \in Depths
      BY <1>6, <2>1
    <3>5. ~(stack'[k].fn = "journey" /\ Own(k)')
      BY <3>1, <3>4
    <3>6. ~(Is(k, "journey", {"won", "next"})' /\ Own(k)')
      BY <2>1, <3>2, <3>4
    <3>7. coach'.index <= Maps + 1 /\ coach'.index > 0
      BY <2>3, SheetAssumption
    <3>8. ASSUME NEW j \in Depths', j < k, stack'[j].fn = "term"
          PROVE  stack'[k].at \notin {"advance", "begin"}
      <4>1. j \in Depths /\ stack'[j] = stack[j]
        BY <1>1
      <4> QED BY <3>3, <3>4, <3>8, <4>1
    <3> QED BY ONLY <3>5, <3>6, <3>7, <3>8
  <2> QED BY <1>3, <2>2, <2>3
<1>9. LivesLeft'
  <2> SUFFICES ASSUME ~overtaken', NEW k \in Depths', Counts(k)'
               PROVE  /\ coach'.life > 0 \/ Excused(k, Len(stack))'
                      /\ \A g \in Depths' : k < g /\ Is(g, "gift", {"store"})' /\ Own(g)' =>
                           stack'[g].reg > 0 \/ Excused(k, g)'
    BY DEF LivesLeft
  <2>1. k \in Depths /\ k < n /\ Counts(k)
    BY <1>1, <1>6 DEF Counts
  <2>2. Top.at # "test" /\ ~overtaken
    <3>1. Top.at = "test" => /\ stack[k].at \notin {"advance", "begin"} /\ Top.fn = "journey" /\ Own(n)
      BY <2>1 DEF Leaves, n
    <3>2. Top.at # "test"
      BY <1>1, <2>1, <3>1 DEF Counts, Outdated, n
    <3> QED BY <3>2 DEF Leaves
  <2>3. \A j \in Depths : Retrying(j) \/ stack[j].at = "test" =>
                            j \in Depths' /\ j <= n - 1 /\ (Retrying(j) \/ stack[j].at = "test")'
    BY <1>1, <1>2, <1>3, <1>6, <2>2 DEF Retrying, Is
  <2>4. \A g \in Depths' : Excused(k, g) => Excused(k, g)'
    BY <2>3 DEF Excused
  <2>5. Excused(k, n) => Excused(k, Len(stack))'
    BY <1>1, <2>3 DEF Excused
  <2>6. \A g \in Depths' : Is(g, "gift", {"store"})' /\ Own(g)' => g \in Depths /\ Is(g, "gift", {"store"}) /\ Own(g)
    BY <1>1, <1>6 DEF Is
  <2> QED BY <1>1, <1>3, <2>1, <2>2, <2>4, <2>5, <2>6 DEF LivesLeft, n
<1> QED BY <1>4, <1>5, <1>7, <1>8, <1>9

-----------------------------------------------------------------------------
(* The steps that change the coach. *)

LEMMA MovesFacts ==
  ASSUME TypeOK, Stacked, NEW at, Moves(stack', at)
  PROVE  /\ Depths' = Depths /\ Len(stack') = Len(stack)
         /\ \A k \in Depths : /\ stack'[k].fn = stack[k].fn
                              /\ k # Len(stack) => stack'[k] = stack[k] /\ k < Len(stack)
         /\ stack[Len(stack)].at = Top.at /\ stack[Len(stack)].fn = Top.fn
         /\ stack'[Len(stack)].at = at
         /\ stack[Len(stack)].at \in Sites[stack[Len(stack)].fn]
BY ShapeFacts DEF Moves, Depths

\* The frame of a call: the places of each function.
LEMMA Places_ ==
  ASSUME TypeOK, Stacked, NEW k \in Depths
  PROVE  /\ stack[k].at \in {"advance", "begin"} => stack[k].fn \in {"main", "zero"}
         /\ stack[k].at = "store" => stack[k].fn \in {"journey", "term", "gift"}
         /\ stack[k].at = "test" => stack[k].fn \in {"journey", "term"}
         /\ stack[k].at \in {"advance", "begin"} => k = 1 \/ stack[k].fn = "zero"
<1>1. stack[k].at \in Sites[stack[k].fn] /\ stack[k].fn \in {"main", "journey", "zero", "term", "gift"}
      /\ (stack[k].fn = "main" <=> k = 1)
  BY ShapeFacts DEF Functions, Signals
<1> QED BY <1>1 DEF Sites

\* Under a call that is not of a handler no retry of a handler is under way.
LEMMA NoRetryUnder ==
  ASSUME TypeOK, Stacked, Outdated, Top.fn # "gift",
         NEW k \in Depths, k # Len(stack), NEW j \in Depths, j < k, stack[j].fn = "term"
  PROVE  stack[k].at \notin {"advance", "begin"}
<1>1. stack[k].at \in {"advance", "begin"} => stack[k].fn = "zero"
  BY ShapeFacts, Places_
<1>2. Len(stack) \in Depths /\ Len(stack) > k /\ stack[Len(stack)].fn # "gift"
  BY ShapeFacts
<1> QED BY <1>1, <1>2 DEF Outdated

LEMMA LoadsKeep ==
  ASSUME IInv, Unloaded(Len(stack)), CargarMetadata, Moves(stack', "advance"), Kept(stack'),
         UNCHANGED <<medals, retries, overtaken>>
  PROVE  Allocated' /\ Connected' /\ Outdated' /\ Indexed' /\ LivesLeft'
<1> DEFINE n == Len(stack)
<1>0. TypeOK /\ Stacked /\ Allocated /\ Connected /\ Outdated /\ Indexed /\ LivesLeft
  BY DEF IInv
<1> USE ShapeFacts, <1>0
<1>1. /\ Depths' = Depths /\ Len(stack') = n
      /\ \A k \in Depths : /\ stack'[k].fn = stack[k].fn /\ stack'[k].id = stack[k].id
                           /\ k # n => stack'[k] = stack[k] /\ k < n
      /\ stack[n].at = "load" /\ stack[n].fn \in {"main", "zero"} /\ stack'[n].at = "advance"
      /\ Top = stack[n] /\ n \in Depths
  BY MovesFacts DEF Kept, Unloaded
<1>2. /\ coach'.id = coach.id + 1 /\ coach'.live /\ coach'.life = Lives /\ coach'.index = 0
      /\ coach'.conn = "none" /\ coach.id \in Int /\ ~coach.live
      /\ medals' = medals /\ retries' = retries /\ overtaken' = overtaken
  BY DEF CargarMetadata, TypeOK, Allocated
<1> HIDE DEF n
<1>3. \A k \in Depths : ~Own(k)'
  BY <1>1, <1>2 DEF Own, Allocated, Frames
<1>4. \A k \in Depths : k # n => ~Unloaded(k)
  BY <1>1 DEF Allocated, Signals
<1>5. Allocated'
  <2>1. \A k \in Depths : ~Unloaded(k)'
    BY <1>1, <1>4 DEF Unloaded
  <2>2. \A k \in Depths : Is(k, "zero", {"load", "advance", "begin", "end"})' =>
                            Is(k, "zero", {"load", "advance", "begin", "end"})
    BY <1>1 DEF Is
  <2>3. \A k \in Depths : /\ stack'[k].id <= coach'.id
                          /\ stack'[k].fn = "journey" \/ stack'[k].at = "store" => stack'[k].id > 0
    BY <1>1, <1>2 DEF Allocated, Frames
  <2>4. coach'.id = retries' + (IF coach'.live THEN 1 ELSE 0)
    BY <1>2 DEF Allocated, TypeOK
  <2> QED BY <1>1, <1>2, <2>1, <2>2, <2>3, <2>4 DEF Allocated
<1>6. Connected'
  <2>1. stack[n].fn = "zero" => \E k \in Depths' : stack'[k].fn = "zero"
    BY <1>1
  <2>2. stack[n].fn = "main" => \A k \in Depths' : ~Is(k, "journey", {"play", "won", "lost"})'
    BY <1>1 DEF Is
  <2> QED BY <1>1, <2>1, <2>2 DEF Connected
<1>7. Outdated'
  <2>1. \A i, j \in Depths : i > j => j # n /\ stack'[j] = stack[j]
    BY <1>1 DEF n
  <2> QED BY <1>1, <1>3, <2>1 DEF Outdated
<1>8. Indexed'
  <2>1. \A k, j \in Depths : j < k /\ stack[j].fn = "term" => stack'[k].at # "begin"
    BY <1>1, NoRetryUnder DEF n
  <2>2. \A k \in Depths : stack'[k].at = "begin" => n > k /\ stack'[n].at = "advance"
    BY <1>1
  <2> QED BY <1>1, <1>2, <1>3, <2>1, <2>2, SheetAssumption DEF Indexed
<1>9. LivesLeft'
  BY <1>1, <1>2, <1>3, SheetAssumption DEF LivesLeft
<1> QED BY <1>5, <1>6, <1>7, <1>8, <1>9

\* coach_next_map: at the beginning of a journey and from one map to the next.
NextIndex(at) ==
  /\ Moves(stack', at) /\ Kept(stack')
  /\ coach.live /\ coach' = [coach EXCEPT !.index = @ + 1]
  /\ UNCHANGED <<medals, retries, overtaken>>
  /\ \/ Top.fn \in {"main", "zero"} /\ Top.at = "advance" /\ at = "begin"
     \/ Top.fn = "journey" /\ Top.at = "next" /\ at = "connect" /\ Own(Len(stack)) /\ coach.index < Maps

LEMMA NextIndexKeeps ==
  ASSUME IInv, NEW at, NextIndex(at)
  PROVE  Allocated' /\ Connected' /\ Outdated' /\ Indexed' /\ LivesLeft'
<1> DEFINE n == Len(stack)
<1>0. TypeOK /\ Stacked /\ Allocated /\ Connected /\ Outdated /\ Indexed /\ LivesLeft
  BY DEF IInv
<1> USE ShapeFacts, <1>0
<1>1. /\ Depths' = Depths /\ Len(stack') = n
      /\ \A k \in Depths : /\ stack'[k].fn = stack[k].fn
                           /\ stack'[k].id = stack[k].id /\ stack'[k].reg = stack[k].reg
                           /\ k # n => stack'[k] = stack[k] /\ k < n
      /\ stack[n].at = Top.at /\ stack[n].fn = Top.fn /\ stack'[n].at = at
      /\ Top = stack[n] /\ n \in Depths
  BY MovesFacts DEF NextIndex, Kept
<1>2. /\ coach'.id = coach.id /\ coach'.live = coach.live /\ coach'.life = coach.life
      /\ coach'.conn = coach.conn /\ coach'.index = coach.index + 1
      /\ coach.live /\ medals' = medals /\ retries' = retries /\ overtaken' = overtaken
      /\ coach.index \in Int /\ coach.index >= 0
  <2>1. coach' = [coach EXCEPT !.index = @ + 1] /\ coach.live
        /\ medals' = medals /\ retries' = retries /\ overtaken' = overtaken
    BY DEF NextIndex
  <2>2. coach \in [id : Int, live : BOOLEAN, life : Int, index : Nat, conn : {"none", "open", "closed"}]
    BY CoachFacts
  <2>3. /\ coach'.id = coach.id /\ coach'.live = coach.live /\ coach'.life = coach.life
        /\ coach'.conn = coach.conn /\ coach'.index = coach.index + 1
    BY <2>1, <2>2
  <2>4. coach.index \in Int /\ coach.index >= 0
    BY <2>2
  <2> QED BY <2>1, <2>3, <2>4
<1>3. \/ Top.fn \in {"main", "zero"} /\ Top.at = "advance" /\ at = "begin"
      \/ Top.fn = "journey" /\ Top.at = "next" /\ at = "connect" /\ Own(n) /\ coach.index < Maps
  BY DEF NextIndex
<1> HIDE DEF n
<1>4. \A k \in Depths : Own(k)' = Own(k) /\ Retrying(k)' = Retrying(k) /\ ~Unloaded(k)
  BY <1>1, <1>2, <1>3 DEF Own, Retrying, Is, Allocated
<1>5. Allocated'
  <2>1. \A k \in Depths : /\ ~Unloaded(k)'
                          /\ Is(k, "zero", {"load", "advance", "begin", "end"})' =>
                               Is(k, "zero", {"load", "advance", "begin", "end"})
                          /\ stack'[k].at = "store" => stack[k].at = "store"
    BY <1>1, <1>3, <1>4 DEF Unloaded, Is
  <2> QED BY <1>1, <1>2, <2>1 DEF Allocated
<1>6. Connected'
  <2>1. \A k \in Depths : Is(k, "journey", {"play", "won", "lost"})' => Is(k, "journey", {"play", "won", "lost"})
    BY <1>1, <1>3 DEF Is
  <2> QED BY <1>1, <1>2, <2>1 DEF Connected
<1>7. Outdated'
  <2>1. \A i, j \in Depths : i > j => j # n /\ stack'[j] = stack[j]
    BY <1>1 DEF n
  <2> QED BY <1>1, <1>4, <2>1 DEF Outdated
<1>8. Indexed'
  <2>1. \A k \in Depths : k # n /\ stack[k].fn = "journey" => ~Own(k)
    <3>1. CASE Top.fn = "main"
      BY <1>1, <3>1 DEF n
    <3>2. CASE Top.fn # "main"
      <4>1. Top.fn = "zero" => ~Retrying(n)
        BY <1>1, <1>3 DEF Retrying, Is
      <4> QED BY <1>1, <1>3, <3>2, <4>1 DEF Outdated
    <3> QED BY <3>1, <3>2
  <2>2. \A k \in Depths : stack'[k].fn = "journey" /\ Own(k)' =>
                            coach'.index \in 1 .. Maps /\ ~Is(k, "journey", {"won", "next"})'
    BY <1>1, <1>2, <1>3, <1>4, <2>1, SheetAssumption DEF Is
  <2>3. \A k, j \in Depths : j < k /\ stack[j].fn = "term" =>
          /\ stack'[k].at # "advance"
          /\ stack'[k].at = "begin" => coach'.index = 1
    <3> SUFFICES ASSUME NEW k \in Depths, NEW j \in Depths, j < k, stack[j].fn = "term"
                 PROVE  /\ stack'[k].at # "advance"
                        /\ stack'[k].at = "begin" => coach'.index = 1
      OBVIOUS
    <3>1. CASE k # n
      BY <1>1, <1>3, <3>1, NoRetryUnder DEF n
    <3>2. CASE k = n
      BY <1>1, <1>2, <1>3, <3>2 DEF Indexed
    <3> QED BY <3>1, <3>2
  <2>4. ASSUME NEW k \in Depths, stack'[k].at = "advance"
        PROVE  coach'.index <= Maps + 1
    <3>1. k # n /\ stack[k].at = "advance"
      BY <1>1, <1>3, <2>4
    <3>2. CASE Top.fn = "journey"
      BY <1>2, <1>3, <3>2, SheetAssumption
    <3>3. CASE Top.fn = "zero"
      <4>1. n \in Depths \ {1} /\ n - 1 \in Depths
        BY <3>1, <1>1 DEF n
      <4>2. stack[n - 1].fn = "term" \/ (n - 1 = 1 /\ stack[n - 1].at = "report")
        BY <1>1, <3>3, <4>1 DEF Stacked, Is
      <4>3. CASE stack[n - 1].fn = "term"
        <5>1. coach.index = 0
          BY <1>1, <1>3, <3>3, <4>1, <4>3 DEF Indexed
        <5> QED BY <5>1, <1>2, SheetAssumption
      <4>4. CASE n - 1 = 1 /\ stack[n - 1].at = "report"
        BY <1>1, <3>1, <4>4 DEF n
      <4> QED BY <4>2, <4>3, <4>4
    <3>4. Top.fn # "main"
      BY <1>1, <3>1 DEF n
    <3> QED BY <1>3, <3>2, <3>3, <3>4
  <2>5. coach'.index > 0
    BY <1>2
  <2>6. ASSUME NEW k \in Depths
        PROVE  /\ stack'[k].fn = "journey" /\ Own(k)' => coach'.index \in 1 .. Maps
               /\ Is(k, "journey", {"won", "next"})' /\ Own(k)' => coach'.index \in medals'
               /\ stack'[k].at = "advance" => coach'.index <= Maps + 1
               /\ \A j \in Depths : j < k /\ stack'[j].fn = "term" =>
                    /\ stack'[k].at = "advance" => coach'.index = 0
                    /\ stack'[k].at = "begin" => coach'.index = 1
    BY <1>1, <2>2, <2>3, <2>4 DEF Is
  <2> QED BY <1>1, <2>5, <2>6 DEF Indexed
<1>9. LivesLeft'
  <2>1. \A k \in Depths : Counts(k)' => Counts(k)
    BY <1>1, <1>3, <1>4 DEF Counts
  <2>2. \A k \in Depths : (Retrying(k) \/ stack[k].at = "test") => (Retrying(k) \/ stack[k].at = "test")'
    BY <1>1, <1>3, <1>4
  <2>3. \A k \in Depths, g \in Depths : Excused(k, g) => Excused(k, g)'
    BY <1>1, <2>2 DEF Excused
  <2>4. \A k \in Depths : Excused(k, Len(stack)) => Excused(k, Len(stack))'
    BY <1>1, <2>2 DEF Excused, n
  <2>5. \A g \in Depths : Is(g, "gift", {"store"})' => Is(g, "gift", {"store"})
    BY <1>1, <1>3 DEF Is
  <2> QED BY <1>1, <1>2, <1>4, <2>1, <2>3, <2>4, <2>5 DEF LivesLeft
<1> QED BY <1>5, <1>6, <1>7, <1>8, <1>9

\* zero_lives destroys the coach.
LEMMA DestroyKeeps ==
  ASSUME IInv, Is(Len(stack), "zero", {"destroy"}), coach.live,
         coach' = [coach EXCEPT !.live = FALSE], retries' = retries + 1,
         UNCHANGED <<medals, overtaken>>, Moves(stack', "load"), Kept(stack')
  PROVE  Allocated' /\ Connected' /\ Outdated' /\ Indexed' /\ LivesLeft'
<1> DEFINE n == Len(stack)
<1>0. TypeOK /\ Stacked /\ Allocated /\ Connected /\ Outdated /\ Indexed /\ LivesLeft
  BY DEF IInv
<1> USE ShapeFacts, <1>0
<1>1. /\ Depths' = Depths /\ Len(stack') = n
      /\ \A k \in Depths : /\ stack'[k].fn = stack[k].fn
                           /\ stack'[k].id = stack[k].id /\ stack'[k].reg = stack[k].reg
                           /\ k # n => stack'[k] = stack[k] /\ k < n
      /\ stack[n].at = "destroy" /\ stack[n].fn = "zero" /\ stack'[n].at = "load" /\ n \in Depths
  BY MovesFacts DEF Kept, Is
<1>2. /\ coach'.id = coach.id /\ ~coach'.live /\ coach'.life = coach.life
      /\ coach'.conn = coach.conn /\ coach'.index = coach.index
      /\ retries' = retries + 1 /\ retries \in Nat /\ medals' = medals /\ overtaken' = overtaken
  BY CoachFacts
<1> HIDE DEF n
<1>4. \A k \in Depths : Own(k)' = Own(k) /\ Retrying(k)' = Retrying(k) /\ ~Unloaded(k)
  BY <1>1, <1>2 DEF Own, Retrying, Is, Allocated
<1>5. Allocated'
  <2>1. \A k \in Depths : Unloaded(k)' => k = n
    BY <1>1, <1>4 DEF Unloaded
  <2>2. \A k \in Depths : stack'[k].at = "store" => stack[k].at = "store"
    BY <1>1
  <2>3. coach'.id = retries' + (IF coach'.live THEN 1 ELSE 0)
    BY <1>2 DEF Allocated
  <2>4. retries' > 0 /\ \A j \in Depths : ~(j > n)
    BY <1>2 DEF n
  <2> QED BY <1>1, <1>2, <2>1, <2>2, <2>3, <2>4 DEF Allocated
<1>6. Connected'
  BY <1>2 DEF Connected
<1>7. Outdated'
  <2>1. \A i, j \in Depths : i > j => j # n /\ stack'[j] = stack[j]
    BY <1>1 DEF n
  <2> QED BY <1>1, <1>4, <2>1 DEF Outdated
<1>8. Indexed'
  <2>1. \A k \in Depths : /\ Is(k, "journey", {"won", "next"})' => Is(k, "journey", {"won", "next"})
                          /\ stack'[k].at = "advance" <=> stack[k].at = "advance"
                          /\ stack'[k].at = "begin" <=> stack[k].at = "begin"
    BY <1>1 DEF Is
  <2> QED BY <1>1, <1>2, <1>4, <2>1 DEF Indexed
<1>9. LivesLeft'
  <2>1. \A k \in Depths : Counts(k)' => Counts(k)
    BY <1>1, <1>4 DEF Counts
  <2>2. \A k \in Depths : (Retrying(k) \/ stack[k].at = "test") => (Retrying(k) \/ stack[k].at = "test")'
    BY <1>1, <1>4
  <2>3. \A k \in Depths, g \in Depths : Excused(k, g) => Excused(k, g)'
    BY <1>1, <2>2 DEF Excused
  <2>4. \A k \in Depths : Excused(k, Len(stack)) => Excused(k, Len(stack))'
    BY <1>1, <2>2 DEF Excused, n
  <2>5. \A g \in Depths : Is(g, "gift", {"store"})' => Is(g, "gift", {"store"})
    BY <1>1 DEF Is
  <2> QED BY <1>1, <1>2, <1>4, <2>1, <2>3, <2>4, <2>5 DEF LivesLeft
<1> QED BY <1>5, <1>6, <1>7, <1>8, <1>9

\* life++ and life--: the load.
LEMMA LoadKeeps ==
  ASSUME IInv, Load
  PROVE  /\ Allocated' /\ Connected' /\ Outdated' /\ Indexed' /\ LivesLeft'
         /\ Moves(stack', "store") /\ stack' \in Seq(Frames)
<1> DEFINE n == Len(stack)
<1>0. TypeOK /\ Stacked /\ Allocated /\ Connected /\ Outdated /\ Indexed /\ LivesLeft
  BY DEF IInv
<1> USE ShapeFacts, <1>0
<1>a. /\ Top.at = "load" /\ Top.fn \in {"journey", "term", "gift"} /\ coach.live
      /\ Top.fn = "journey" => Own(n)
      /\ coach' = coach /\ medals' = medals /\ retries' = retries /\ overtaken' = overtaken
  BY DEF Load, Dangling, Own, Signals
<1>b. stack \in Seq(Frames) /\ n \in Depths /\ stack[n] \in Frames /\ n \in Nat
  BY StackFacts
<1>c. [stack[n] EXCEPT !.at = "store", !.id = coach.id, !.reg = coach.life] \in Frames
  BY <1>b, CoachFacts DEF Frames, Places
<1>d. stack' = [stack EXCEPT ![n] = [stack[n] EXCEPT !.at = "store", !.id = coach.id, !.reg = coach.life]]
  BY <1>b DEF Load
<1>e. stack' \in Seq(Frames) /\ Len(stack') = n /\ DOMAIN stack' = Depths
  BY <1>b, <1>c, <1>d DEF Depths
<1>f. /\ \A k \in Depths : k # n => stack'[k] = stack[k]
      /\ stack'[n] = [stack[n] EXCEPT !.at = "store", !.id = coach.id, !.reg = coach.life]
  <2>1. PICK r \in Frames : r = [stack[n] EXCEPT !.at = "store", !.id = coach.id, !.reg = coach.life]
    BY <1>c
  <2>2. stack' = [stack EXCEPT ![n] = r]
    BY <1>d, <2>1
  <2>3. stack'[n] = r /\ \A k \in Depths : k # n => stack'[k] = stack[k]
    BY <1>b, <2>2
  <2> QED BY <2>1, <2>3
<1>g. stack'[n].fn = stack[n].fn /\ stack'[n].at = "store" /\ stack'[n].id = coach.id /\ stack'[n].reg = coach.life
  BY <1>b, <1>f DEF Frames
<1>1. Moves(stack', "store")
  BY <1>e, <1>f, <1>g DEF Moves, Depths
<1>2. /\ Depths' = Depths /\ Len(stack') = n
      /\ \A k \in Depths : /\ stack'[k].fn = stack[k].fn
                           /\ k # n => stack'[k] = stack[k] /\ k < n
      /\ stack[n].at = "load" /\ stack'[n].at = "store" /\ stack[n] = Top
  BY <1>1, <1>a, MovesFacts
<1> HIDE DEF n
<1>3. \A k \in Depths : /\ ~Unloaded(k) /\ Retrying(k)' = Retrying(k)
                        /\ stack[k].fn = "journey" => Own(k)' = Own(k)
                        /\ k # n => Own(k)' = Own(k)
  BY <1>2, <1>a, <1>g DEF Own, Retrying, Is, Allocated
<1>4. Allocated'
  <2>1. \A k \in Depths : ~Unloaded(k)'
    BY <1>2, <1>3 DEF Unloaded
  <2>2. \A k \in Depths : Is(k, "zero", {"load", "advance", "begin", "end"})' =>
                            Is(k, "zero", {"load", "advance", "begin", "end"})
    BY <1>2 DEF Is
  <2>3. coach.id > 0 /\ coach.id \in Int
    BY <1>a, CoachFacts DEF Allocated
  <2>4. \A k \in Depths : /\ stack'[k].id <= coach'.id
                          /\ stack'[k].fn = "journey" \/ stack'[k].at = "store" => stack'[k].id > 0
    BY <1>2, <1>a, <1>g, <2>3 DEF Allocated
  <2> QED BY <1>2, <1>a, <2>1, <2>2, <2>4 DEF Allocated
<1>5. Connected'
  <2>1. \A k \in Depths : Is(k, "journey", {"play", "won", "lost"})' => Is(k, "journey", {"play", "won", "lost"})
    BY <1>2 DEF Is
  <2> QED BY <1>2, <1>a, <2>1 DEF Connected
<1>6. Outdated'
  <2>1. \A i, j \in Depths : i > j => j # n /\ stack'[j] = stack[j]
    BY <1>2 DEF n
  <2> QED BY <1>2, <1>3, <2>1 DEF Outdated
<1>7. Indexed'
  <2>1. \A k \in Depths : /\ Is(k, "journey", {"won", "next"})' => Is(k, "journey", {"won", "next"}) /\ stack[k].fn = "journey"
                          /\ stack'[k].at = "advance" <=> stack[k].at = "advance"
                          /\ stack'[k].at = "begin" <=> stack[k].at = "begin"
    BY <1>2 DEF Is
  <2> QED BY <1>2, <1>3, <1>a, <2>1 DEF Indexed
<1>8. LivesLeft'
  <2>1. \A k \in Depths : Counts(k)' => Counts(k)
    BY <1>2, <1>3 DEF Counts
  <2>2. \A k \in Depths : (Retrying(k) \/ stack[k].at = "test") => (Retrying(k) \/ stack[k].at = "test")'
    BY <1>2, <1>3
  <2>3. \A k \in Depths, g \in Depths : Excused(k, g) => Excused(k, g)'
    BY <1>2, <2>2 DEF Excused
  <2>4. \A k \in Depths : Excused(k, Len(stack)) => Excused(k, Len(stack))'
    BY <1>2, <2>2 DEF Excused, n
  <2>5. \A g \in Depths : Is(g, "gift", {"store"})' => g = n \/ (Is(g, "gift", {"store"}) /\ g # n)
    BY <1>2 DEF Is
  <2> SUFFICES ASSUME ~overtaken', NEW k \in Depths', Counts(k)'
               PROVE  /\ coach'.life > 0 \/ Excused(k, Len(stack))'
                      /\ \A g \in Depths' : k < g /\ Is(g, "gift", {"store"})' /\ Own(g)' =>
                           stack'[g].reg > 0 \/ Excused(k, g)'
    BY DEF LivesLeft
  <2>6. coach.life > 0 \/ Excused(k, n)
    BY <1>2, <1>a, <2>1 DEF LivesLeft, n
  <2>7. ASSUME NEW g \in Depths', k < g, Is(g, "gift", {"store"})', Own(g)'
        PROVE  stack'[g].reg > 0 \/ Excused(k, g)'
    <3>1. CASE g = n
      BY <1>2, <1>g, <2>3, <2>6, <3>1
    <3>2. CASE g # n
      BY <1>2, <1>3, <1>a, <2>1, <2>3, <2>5, <2>7, <3>2 DEF LivesLeft
    <3> QED BY <3>1, <3>2
  <2> QED BY <1>2, <1>a, <2>4, <2>6, <2>7 DEF n
<1> QED BY <1>1, <1>e, <1>4, <1>5, <1>6, <1>7, <1>8

\* The store.
LEMMA StoreKeeps ==
  ASSUME IInv, Store
  PROVE  /\ Allocated' /\ Connected' /\ Outdated' /\ Indexed' /\ LivesLeft'
         /\ Moves(stack', IF Top.fn = "gift" THEN "end" ELSE "test") /\ stack' \in Seq(Frames)
<1> DEFINE n == Len(stack)
           at == IF Top.fn = "gift" THEN "end" ELSE "test"
<1>0. TypeOK /\ Stacked /\ Allocated /\ Connected /\ Outdated /\ Indexed /\ LivesLeft
  BY DEF IInv
<1> USE ShapeFacts, <1>0
<1>a. /\ Top.at = "store" /\ coach.live /\ Own(n)
      /\ coach' = [coach EXCEPT !.life = Top.reg + (IF Top.fn = "gift" THEN 1 ELSE -1)]
      /\ medals' = medals /\ retries' = retries /\ overtaken' = overtaken
  BY DEF Store, Dangling, Own
<1>b. stack \in Seq(Frames) /\ n \in Depths /\ stack[n] \in Frames /\ n \in Nat /\ Top = stack[n]
  BY StackFacts
<1>z. PICK z \in Int : z = 0
  OBVIOUS
<1>c. [stack[n] EXCEPT !.at = at, !.reg = z] \in Frames /\ at \in {"end", "test"}
  <2>1. at \in {"end", "test"}
    OBVIOUS
  <2> HIDE DEF at
  <2>2. at \in Places
    BY <2>1 DEF Places
  <2>3. [stack[n] EXCEPT !.at = at, !.reg = z] \in Frames
    <3>1. \A r \in Frames, a \in Places, y \in Int : [r EXCEPT !.at = a, !.reg = y] \in Frames
      BY DEF Frames
    <3> QED BY <3>1, <1>b, <2>2, <1>z
  <2> QED BY <2>1, <2>3
<1>d. stack' = [stack EXCEPT ![n] = [stack[n] EXCEPT !.at = at, !.reg = z]]
  BY <1>b, <1>z DEF Store
<1> HIDE DEF at
<1>e. stack' \in Seq(Frames) /\ Len(stack') = n /\ DOMAIN stack' = Depths
  BY <1>b, <1>c, <1>d DEF Depths
<1>f. /\ \A k \in Depths : k # n => stack'[k] = stack[k]
      /\ stack'[n] = [stack[n] EXCEPT !.at = at, !.reg = z]
  <2>1. PICK r \in Frames : r = [stack[n] EXCEPT !.at = at, !.reg = z]
    BY <1>c
  <2>2. stack' = [stack EXCEPT ![n] = r]
    BY <1>d, <2>1
  <2>3. stack'[n] = r /\ \A k \in Depths : k # n => stack'[k] = stack[k]
    BY <1>b, <2>2
  <2> QED BY <2>1, <2>3
<1>g. stack'[n].fn = stack[n].fn /\ stack'[n].at = at /\ stack'[n].id = stack[n].id
  BY <1>b, <1>f DEF Frames
<1>1. Moves(stack', at)
  BY <1>e, <1>f, <1>g DEF Moves, Depths
<1>2. /\ Depths' = Depths /\ Len(stack') = n
      /\ \A k \in Depths : /\ stack'[k].fn = stack[k].fn /\ stack'[k].id = stack[k].id
                           /\ k # n => stack'[k] = stack[k] /\ k < n
      /\ stack[n].at = "store" /\ stack'[n].at = at
  BY <1>1, <1>a, <1>b, <1>g, MovesFacts
<1>h. /\ coach'.id = coach.id /\ coach'.live = coach.live /\ coach'.index = coach.index
      /\ coach'.conn = coach.conn
      /\ stack[n].fn = "gift" => coach'.life = stack[n].reg + 1
  BY <1>a, <1>b, CoachFacts
<1>i. stack[n].fn \in {"journey", "term", "gift"} /\ stack[n].reg \in Int
  BY <1>2, <1>b, Places_ DEF Frames
<1> HIDE DEF n
<1>3. \A k \in Depths : /\ ~Unloaded(k) /\ Retrying(k)' = Retrying(k) /\ Own(k)' = Own(k)
  BY <1>2, <1>a, <1>c, <1>h DEF Own, Retrying, Is, Allocated
<1>4. Allocated'
  <2>1. \A k \in Depths : ~Unloaded(k)' /\ (stack'[k].at = "store" => stack[k].at = "store")
    BY <1>2, <1>3, <1>c DEF Unloaded
  <2>2. \A k \in Depths : Is(k, "zero", {"load", "advance", "begin", "end"})' =>
                            Is(k, "zero", {"load", "advance", "begin", "end"})
    BY <1>2, <1>i DEF Is
  <2> QED BY <1>2, <1>a, <1>h, <2>1, <2>2 DEF Allocated
<1>5. Connected'
  <2>1. \A k \in Depths : Is(k, "journey", {"play", "won", "lost"})' => Is(k, "journey", {"play", "won", "lost"})
    BY <1>2, <1>c DEF Is
  <2> QED BY <1>2, <1>a, <1>h, <2>1 DEF Connected
<1>6. Outdated'
  <2>1. \A i, j \in Depths : i > j => j # n /\ stack'[j] = stack[j]
    BY <1>2 DEF n
  <2> QED BY <1>2, <1>3, <2>1 DEF Outdated
<1>7. Indexed'
  <2>1. \A k \in Depths : /\ Is(k, "journey", {"won", "next"})' => Is(k, "journey", {"won", "next"})
                          /\ stack'[k].at = "advance" <=> stack[k].at = "advance"
                          /\ stack'[k].at = "begin" <=> stack[k].at = "begin"
    BY <1>2, <1>c DEF Is
  <2> QED BY <1>2, <1>3, <1>a, <1>h, <2>1 DEF Indexed
<1>8. LivesLeft'
  <2> SUFFICES ASSUME ~overtaken', NEW k \in Depths', Counts(k)'
               PROVE  /\ coach'.life > 0 \/ Excused(k, Len(stack))'
                      /\ \A g \in Depths' : k < g /\ Is(g, "gift", {"store"})' /\ Own(g)' =>
                           stack'[g].reg > 0 \/ Excused(k, g)'
    BY DEF LivesLeft
  <2>1. k \in Depths /\ k # n /\ k < n /\ Counts(k)
    BY <1>2, <1>3, <1>c, <1>i DEF Counts, at
  <2>2. \A j \in Depths : (Retrying(j) \/ stack[j].at = "test") => (Retrying(j) \/ stack[j].at = "test")'
    BY <1>2, <1>3
  <2>3. \A g \in Depths : Excused(k, g) => Excused(k, g)'
    BY <1>2, <2>2 DEF Excused
  <2>4. \A g \in Depths : Is(g, "gift", {"store"})' => g # n /\ Is(g, "gift", {"store"})
    BY <1>2, <1>c DEF Is
  <2>5. Excused(k, n) => Excused(k, Len(stack))'
    BY <1>2, <2>2 DEF Excused
  <2>6. CASE stack[n].fn = "gift"
    <3>1. stack[n].reg > 0 \/ Excused(k, n)
      BY <1>2, <1>a, <1>b, <2>1, <2>6 DEF LivesLeft, Is
    <3> QED BY <1>2, <1>3, <1>a, <1>h, <1>i, <2>1, <2>3, <2>4, <2>5, <2>6, <3>1 DEF LivesLeft
  <2>7. CASE stack[n].fn # "gift"
    <3>1. stack'[n].at = "test" /\ n \in Depths' /\ n <= Len(stack')
      BY <1>2, <1>b, <2>7 DEF at, n
    <3>2. Excused(k, Len(stack))'
      BY <2>1, <3>1 DEF Excused
    <3> QED BY <1>2, <1>3, <1>a, <2>1, <2>3, <2>4, <3>2 DEF LivesLeft
  <2> QED BY <2>6, <2>7
<1> QED BY <1>1, <1>e, <1>4, <1>5, <1>6, <1>7, <1>8 DEF at

-----------------------------------------------------------------------------
(* The medals. *)

\* What holds of a retry that is under way when the running call is one that
\* may end it.
LEMMA CoveredAtTop ==
  ASSUME TypeOK, Stacked, Earned, Clean \/ (FellOnce /\ InRetry),
         Top.fn \notin Signals, ~Retrying(Len(stack))
  PROVE  Full \/ Covered
<1>1. ~Stale
  <2> SUFFICES ASSUME NEW k \in Depths, Retrying(k),
                      \A j \in Depths : j > k => Retrying(j) \/ stack[j].fn \in Signals
               PROVE  FALSE
    BY DEF Stale
  <2>1. Len(stack) \in Depths /\ Len(stack) >= k /\ stack[Len(stack)].fn \notin Signals
    BY ShapeFacts
  <2>2. k # Len(stack)
    OBVIOUS
  <2>3. Len(stack) > k
    BY <2>1, <2>2, ShapeFacts
  <2> QED BY <2>1, <2>3
<1> QED BY <1>1 DEF Earned

LEMMA FullIsKept ==
  ASSUME TypeOK, medals \subseteq medals', medals' \subseteq 1 .. Maps
  PROVE  /\ Full => Full'
         /\ coach'.index = coach.index /\ Covered => Covered'
BY DEF Full, Covered

\* The steps of a call other than main that end nothing.
LEMMA EarnedMoves ==
  ASSUME IInv, NEW at, Moves(stack', at), Top.fn # "main",
         Top.at \notin {"advance", "begin"}, at \notin {"advance", "begin"},
         Top.fn = "zero" => at \in {"destroy", "load"},
         UNCHANGED <<fell, sent>>, coach'.index = coach.index,
         medals \subseteq medals', medals' \subseteq 1 .. Maps,
         FellOnce /\ coach.life <= 0 /\ (\A k \in Depths : stack[k].at = "store" /\ Own(k) => stack[k].reg <= 0)
           => coach'.life <= 0 /\ \A k \in Depths' : stack'[k].at = "store" /\ Own(k)' => stack'[k].reg <= 0
  PROVE  Earned'
<1> DEFINE n == Len(stack)
<1>0. TypeOK /\ Stacked /\ Earned
  BY DEF IInv
<1> USE ShapeFacts, <1>0
<1>1. /\ Depths' = Depths /\ Len(stack') = n
      /\ \A k \in Depths : /\ stack'[k].fn = stack[k].fn
                           /\ k # n => stack'[k] = stack[k] /\ k < n
      /\ stack[n].at = Top.at /\ stack[n].fn = Top.fn /\ stack'[n].at = at /\ n \in Depths
  BY MovesFacts
<1> HIDE DEF n
<1>2. n # 1 /\ 1 \in Depths /\ stack'[1].at = stack[1].at
  <2>1. n # 1 /\ 1 \in Depths
    BY <1>1 DEF n
  <2> QED BY <1>1, <2>1
<1>3. (Full => Full') /\ (Covered => Covered')
  BY FullIsKept
<1>4. \A k \in Depths : Retrying(k) => Retrying(k)'
  BY <1>1 DEF Retrying, Is
<1>5. Stale => Stale'
  BY <1>1, <1>4 DEF Stale
<1>6. \A k \in Depths : stack'[k].at \in {"advance", "begin"} <=> stack[k].at \in {"advance", "begin"}
  BY <1>1
<1>7. \A k \in Depths : Over(k, {"journey"})' = Over(k, {"journey"}) /\ Over(k, {"zero"})' = Over(k, {"zero"})
  <2>1. \A k \in Depths : k < n => k + 1 \in Depths
    BY DEF n
  <2>2. \A k \in Depths : k < n => stack'[k + 1].fn = stack[k + 1].fn
    BY <1>1, <2>1
  <2> QED BY <1>1, <2>2 DEF Over, n
<1>8. InRetry' = InRetry
  BY <1>1, <1>6, <1>7 DEF InRetry
<1>9. \A k \in Depths : Past(k)' => Past(k)
  BY <1>1, <1>7 DEF Past, Is
<1>10. (FellOnce' = FellOnce) /\ (Clean' = Clean)
  BY <1>2 DEF FellOnce, Clean
<1>11. Clean' => \A k \in Depths' :
         /\ Past(k)' => Full'
         /\ stack'[k].at = "advance" =>
              \/ Full'
              \/ coach'.index = 0
              \/ \E j \in Depths' : j > k /\ (stack'[j].fn = "journey" \/ stack'[j].at = "begin")
  <2>1. \A k \in Depths : /\ stack'[k].at = "advance" => stack[k].at = "advance"
                          /\ stack[k].at = "begin" => stack'[k].at = "begin"
    BY <1>1
  <2> QED BY <1>1, <1>3, <1>9, <1>10, <2>1 DEF Earned
<1>12. FellOnce' /\ stack'[1].at # "report" =>
       \/ Full'
       \/ InRetry'
       \/ /\ coach'.life <= 0
          /\ \A k \in Depths' : stack'[k].at = "store" /\ Own(k)' => stack'[k].reg <= 0
  BY <1>2, <1>3, <1>8, <1>10 DEF Earned
<1> QED BY <1>2, <1>3, <1>5, <1>8, <1>10, <1>11, <1>12 DEF Earned

\* Once a retry that counts has every medal, nothing else is asked of it.
LEMMA EarnedFull ==
  ASSUME fell' = 0 \/ FellOnce' => Full', stack'[1].at = "load" => fell' = 0
  PROVE  Earned'
BY DEF Earned, Clean, FellOnce

LEMMA EarnedLoads ==
  ASSUME IInv, Unloaded(Len(stack)), CargarMetadata, Moves(stack', "advance"), Kept(stack'),
         UNCHANGED <<medals, fell, sent>>
  PROVE  Earned'
<1> DEFINE n == Len(stack)
<1>0. TypeOK /\ Stacked /\ Earned
  BY DEF IInv
<1> USE ShapeFacts, <1>0
<1>1. /\ Depths' = Depths /\ Len(stack') = n
      /\ \A k \in Depths : /\ stack'[k].fn = stack[k].fn
                           /\ k # n => stack'[k] = stack[k] /\ k < n
      /\ stack[n].at = "load" /\ stack[n].fn \in {"main", "zero"} /\ stack'[n].at = "advance"
      /\ n \in Depths
  BY MovesFacts DEF Unloaded
<1>2. coach'.index = 0 /\ medals' = medals /\ fell' = fell /\ sent' = sent
  BY DEF CargarMetadata
<1>3. n = 1 => fell = 0
  BY <1>1 DEF Earned
<1> HIDE DEF n
<1>4. 1 \in Depths /\ (n # 1 => stack'[1] = stack[1])
  <2>1. 1 \in Depths
    OBVIOUS
  <2> QED BY <1>1, <2>1
<1>5. Covered'
  BY <1>2 DEF Covered
<1>6. stack[n].fn = "zero" => InRetry'
  BY <1>1 DEF InRetry
<1>7. stack[n].fn = "main" => n = 1
  BY <1>1
<1>8. \A k \in Depths : k < n => k + 1 \in Depths
  BY DEF n
<1>9. \A k \in Depths : Over(k, {"journey"})' = Over(k, {"journey"}) /\ Over(k, {"zero"})' = Over(k, {"zero"})
  BY <1>1, <1>8 DEF Over, n
<1>10. \A k \in Depths : Past(k)' => Past(k)
  BY <1>1, <1>9 DEF Past, Is
<1>11. Full' = Full
  BY <1>2 DEF Full
<1>12. Clean' => Clean
  BY <1>1, <1>2, <1>3, <1>4 DEF Clean, FellOnce
<1>13. Clean' => \A k \in Depths' : (Past(k)' => Full') /\ coach'.index = 0
  BY <1>1, <1>2, <1>10, <1>11, <1>12 DEF Earned
<1>14. fell' = 0 /\ stack'[1].at = "report" => Full'
  BY <1>1, <1>2, <1>4, <1>11 DEF Earned
<1>15. stack'[1].at = "load" => fell' = 0
  BY <1>1, <1>2, <1>4 DEF Earned
<1>16. FellOnce' => InRetry'
  BY <1>1, <1>2, <1>3, <1>6, <1>7 DEF FellOnce
<1> QED BY <1>5, <1>13, <1>14, <1>15, <1>16 DEF Earned

LEMMA EarnedNextIndex ==
  ASSUME IInv, NEW at, NextIndex(at), UNCHANGED <<fell, sent>>
  PROVE  Earned'
<1> DEFINE n == Len(stack)
<1>0. TypeOK /\ Stacked /\ Earned /\ Indexed
  BY DEF IInv
<1> USE ShapeFacts, <1>0
<1>1. /\ Depths' = Depths /\ Len(stack') = n
      /\ \A k \in Depths : /\ stack'[k].fn = stack[k].fn
                           /\ stack'[k].id = stack[k].id /\ stack'[k].reg = stack[k].reg
                           /\ k # n => stack'[k] = stack[k] /\ k < n
      /\ stack[n].at = Top.at /\ stack[n].fn = Top.fn /\ stack'[n].at = at
      /\ Top = stack[n] /\ n \in Depths
  BY MovesFacts DEF NextIndex, Kept
<1>2. /\ coach'.id = coach.id /\ coach'.life = coach.life /\ coach'.index = coach.index + 1
      /\ medals' = medals /\ fell' = fell /\ sent' = sent /\ coach.index \in Nat
  <2>1. coach' = [coach EXCEPT !.index = @ + 1]
    BY DEF NextIndex
  <2>2. coach \in [id : Int, live : BOOLEAN, life : Int, index : Nat, conn : {"none", "open", "closed"}]
    BY CoachFacts
  <2>3. coach'.id = coach.id /\ coach'.life = coach.life /\ coach'.index = coach.index + 1 /\ coach.index \in Nat
    BY <2>1, <2>2
  <2> QED BY <2>3 DEF NextIndex
<1>3. \/ Top.fn \in {"main", "zero"} /\ Top.at = "advance" /\ at = "begin"
      \/ Top.fn = "journey" /\ Top.at = "next" /\ at = "connect" /\ Own(n) /\ coach.index < Maps
  BY DEF NextIndex
<1>4. Full' = Full
  BY <1>2 DEF Full
<1>5. stack'[1].at \in {"load", "check", "report"} => stack[1].at = stack'[1].at
  <2>1. 1 \in Depths
    OBVIOUS
  <2> QED BY <1>1, <1>3, <2>1
<1>6. stack[1].at = "report" => stack'[1].at = "report"
  <2>1. 1 \in Depths
    OBVIOUS
  <2> QED BY <1>1, <1>3, <2>1
<1>t. Top.fn \notin Signals /\ ~Retrying(n)
  BY <1>1, <1>3 DEF Signals, Retrying, Is
<1> HIDE DEF n
<1>7. \A k \in Depths : k < n => k + 1 \in Depths
  BY DEF n
<1>8. \A k \in Depths : Over(k, {"journey"})' = Over(k, {"journey"}) /\ Over(k, {"zero"})' = Over(k, {"zero"})
  BY <1>1, <1>7 DEF Over, n
<1>9. \A k \in Depths : Past(k)' => Past(k)
  BY <1>1, <1>3, <1>8 DEF Past, Is
<1>10. \A k \in Depths : stack'[k].at \in {"advance", "begin"} <=> stack[k].at \in {"advance", "begin"}
  BY <1>1, <1>3
<1>11. InRetry' = InRetry
  BY <1>1, <1>8, <1>10 DEF InRetry
<1>12. Clean' = Clean /\ FellOnce' = FellOnce
  BY <1>2, <1>5, <1>6 DEF Clean, FellOnce
<1>13. Clean \/ (FellOnce /\ InRetry) => Full \/ Covered
  BY <1>t, CoveredAtTop DEF n
<1>14. Clean \/ (FellOnce /\ InRetry) => Full \/ Covered'
  <2>1. CASE Top.fn = "journey"
    <3>1. coach.index \in medals
      BY <1>1, <1>3, <2>1 DEF Indexed, Is
    <3> QED BY <1>2, <1>13, <3>1 DEF Covered
  <2>2. CASE Top.fn # "journey" /\ Clean
    <3>1. Full \/ coach.index = 0
      <4>1. \A j \in Depths : ~(j > n)
        BY DEF n
      <4> QED BY <1>1, <1>3, <2>2, <4>1 DEF Earned
    <3> QED BY <1>2, <3>1 DEF Covered
  <2>3. CASE Top.fn # "journey" /\ ~Clean /\ FellOnce /\ InRetry
    <3>1. n # 1
      <4>1. n = 1 => \A k \in Depths : k = 1
        BY DEF n
      <4> QED BY <2>3, <4>1 DEF InRetry
    <3>2. Top.fn = "zero" /\ n \in Depths \ {1} /\ n - 1 \in Depths
      BY <1>1, <1>3, <2>3, <3>1 DEF n
    <3>3. stack[n - 1].fn = "term"
      BY <1>1, <2>3, <3>2 DEF Stacked, Is, Clean
    <3>4. coach.index = 0
      BY <1>1, <1>3, <3>2, <3>3 DEF Indexed
    <3> QED BY <1>2, <3>4 DEF Covered
  <2> QED BY <2>1, <2>2, <2>3
<1>15. Clean' => \A k \in Depths' :
         /\ Past(k)' => Full'
         /\ stack'[k].at = "advance" =>
              \/ Full'
              \/ coach'.index = 0
              \/ \E j \in Depths' : j > k /\ (stack'[j].fn = "journey" \/ stack'[j].at = "begin")
  <2>1. \A k \in Depths : stack'[k].at = "advance" => k < n
    BY <1>1, <1>3
  <2>2. stack'[n].fn = "journey" \/ stack'[n].at = "begin"
    BY <1>1, <1>3
  <2> QED BY <1>1, <1>4, <1>9, <1>12, <2>1, <2>2 DEF Earned
<1>16. FellOnce' /\ stack'[1].at # "report" =>
       \/ Full'
       \/ InRetry'
       \/ /\ coach'.life <= 0
          /\ \A k \in Depths' : stack'[k].at = "store" /\ Own(k)' => stack'[k].reg <= 0
  <2>1. \A k \in Depths : stack'[k].at = "store" => stack[k].at = "store" /\ Own(k)' = Own(k)
    BY <1>1, <1>2, <1>3 DEF Own
  <2> QED BY <1>1, <1>2, <1>4, <1>6, <1>11, <1>12, <2>1 DEF Earned
<1>17. stack'[1].at = "load" => fell' = 0
  BY <1>2, <1>5 DEF Earned
<1>18. fell' = 0 /\ stack'[1].at = "report" => Full'
  BY <1>2, <1>4, <1>5 DEF Earned
<1> QED BY <1>4, <1>11, <1>12, <1>14, <1>15, <1>16, <1>17, <1>18 DEF Earned

\* A journey that there is no map left for.
LEMMA EarnedSkips ==
  ASSUME IInv, NEW at, Moves(stack', at), Kept(stack'), Top.at = "begin",
         at = (IF Top.fn = "main" THEN "check" ELSE "end"), coach.index > Maps,
         UNCHANGED <<coach, medals, fell, sent>>
  PROVE  Earned'
<1> DEFINE n == Len(stack)
<1>0. TypeOK /\ Stacked /\ Earned
  BY DEF IInv
<1> USE ShapeFacts, <1>0
<1>1. /\ Depths' = Depths /\ Len(stack') = n
      /\ \A k \in Depths : /\ stack'[k].fn = stack[k].fn /\ stack'[k].id = stack[k].id
                           /\ stack'[k].reg = stack[k].reg
                           /\ k # n => stack'[k] = stack[k] /\ k < n
      /\ stack[n].at = "begin" /\ stack[n].fn = Top.fn /\ stack'[n].at = at /\ n \in Depths
      /\ at \in {"check", "end"} /\ Top.fn \in {"main", "zero"}
      /\ Top.fn = "main" <=> n = 1
  <2>1. n \in Depths /\ stack[n].at = "begin" /\ stack[n].fn = Top.fn /\ (Top.fn = "main" <=> n = 1)
    OBVIOUS
  <2>2. Top.fn \in {"main", "zero"}
    BY <2>1, Places_
  <2> QED BY <2>1, <2>2, MovesFacts DEF Kept
<1>2. Top.fn \notin Signals /\ ~Retrying(n)
  BY <1>1 DEF Signals, Retrying, Is
<1>3. Clean \/ (FellOnce /\ InRetry) => Full
  <2>1. Covered => 1 .. Maps \subseteq medals
    BY CoachFacts, SheetAssumption DEF Covered
  <2>2. medals \subseteq 1 .. Maps
    BY DEF TypeOK
  <2> QED BY <1>2, <2>1, <2>2, CoveredAtTop DEF Full
<1> HIDE DEF n
<1>4. 1 \in Depths /\ (stack'[1].at \in {"report", "load"} <=> stack[1].at \in {"report", "load"})
      /\ (stack'[1].at = "report" <=> stack[1].at = "report")
  <2>1. 1 \in Depths
    OBVIOUS
  <2> QED BY <1>1, <2>1
<1>5. \A k \in Depths : k < n => k + 1 \in Depths
  BY DEF n
<1>6. \A k \in Depths : Over(k, {"journey"})' = Over(k, {"journey"})
  BY <1>1, <1>5 DEF Over, n
<1>7. InRetry' => InRetry
  BY <1>1, <1>6 DEF InRetry
<1>8. (Clean' = Clean) /\ (FellOnce' = FellOnce) /\ (Full' = Full)
  BY <1>4 DEF Clean, FellOnce, Full
<1>9. FellOnce' /\ stack'[1].at # "report" =>
       \/ Full'
       \/ InRetry'
       \/ /\ coach'.life <= 0
          /\ \A k \in Depths' : stack'[k].at = "store" /\ Own(k)' => stack'[k].reg <= 0
  <2>1. \A k \in Depths : stack'[k].at = "store" => stack[k].at = "store" /\ Own(k)' = Own(k)
    BY <1>1 DEF Own
  <2> QED BY <1>1, <1>3, <1>4, <1>8, <2>1 DEF Earned
<1>10. Clean' \/ (FellOnce' /\ InRetry') => Full'
  BY <1>3, <1>7, <1>8
<1>11. stack'[1].at = "load" => fell' = 0
  BY <1>4 DEF Earned
<1>12. fell' = 0 => Clean'
  BY DEF Clean
<1> QED BY <1>9, <1>10, <1>11, <1>12 DEF Earned

\* main finds lives left.
LEMMA EarnedReports ==
  ASSUME IInv, Is(Len(stack), "main", {"check"}), ~(coach.life < 1), Moves(stack', "report"),
         UNCHANGED <<coach, medals, fell, sent>>
  PROVE  Earned'
<1>0. TypeOK /\ Stacked /\ Earned
  BY DEF IInv
<1> USE ShapeFacts, <1>0
<1>1. /\ Len(stack) = 1 /\ Depths = {1} /\ stack[1].fn = "main" /\ stack[1].at = "check"
      /\ stack'[1].at = "report"
  BY MovesFacts DEF Is
<1>2. Past(1) /\ ~InRetry
  BY <1>1 DEF Past, Is, Over, InRetry
<1>3. fell = 0 => Full
  BY <1>1, <1>2 DEF Earned, Clean
<1>4. FellOnce => Full
  BY <1>1, <1>2, CoachFacts DEF Earned
<1> QED BY <1>1, <1>3, <1>4, EarnedFull DEF Full, FellOnce

LEMMA EarnedEnters ==
  ASSUME IInv, NEW back, NEW f, Enters(back, f), UNCHANGED <<fell, sent>>,
         Top.fn = "main" /\ f.fn = "zero" => Top.at = "check" /\ back = "report" /\ coach.life < 1,
         Top.fn = "term" /\ f.fn = "zero" => back = "end"
  PROVE  Earned'
<1> DEFINE n == Len(stack)
<1>0. TypeOK /\ Stacked /\ Earned
  BY DEF IInv
<1> USE ShapeFacts, <1>0
<1>m. PICK m \in Nat : m = n + 1
  OBVIOUS
<1>1. /\ Depths' = 1 .. m /\ Len(stack') = m /\ stack'[m] = f /\ n < m
      /\ \A k \in Depths : /\ stack'[k].fn = stack[k].fn /\ k \in Depths' /\ k < m
                           /\ stack'[k].id = stack[k].id /\ stack'[k].reg = stack[k].reg
                           /\ k # n => stack'[k].at = stack[k].at /\ k < n
      /\ stack[n].at = Top.at /\ stack[n].fn = Top.fn /\ stack'[n].at = back /\ n \in Depths
  BY <1>m DEF Enters, Pushes, Kept, Depths
<1>2. \A k \in Depths' : k \in Depths \/ k = m
  BY <1>1, <1>m
<1>3. coach' = coach /\ medals' = medals /\ fell' = fell /\ sent' = sent
  BY DEF Enters
<1>4. \/ /\ f.fn \in Signals /\ f.at = "load" /\ back = Top.at
      \/ /\ f.fn = "journey" /\ f.at = "connect" /\ Top.fn \in {"main", "zero"} /\ Top.at = "begin"
         /\ back = IF Top.fn = "main" THEN "check" ELSE "end"
      \/ /\ f.fn = "zero" /\ f.at = "disconnect" /\ Top.fn \in {"main", "term"}
         /\ Top.at \in {"check", "test"} /\ back \in {"report", "end"}
  BY DEF Enters
<1>5. /\ \A k \in Depths : k # n => Over(k, {"journey"})' = Over(k, {"journey"})
                                     /\ Over(k, {"zero"})' = Over(k, {"zero"})
      /\ ~Over(n, {"journey"}) /\ ~Over(n, {"zero"})
  <2>1. \A k \in Depths : k # n => k + 1 \in Depths /\ k < Len(stack)
    OBVIOUS
  <2>2. \A k \in Depths : k # n => stack'[k + 1].fn = stack[k + 1].fn /\ k < Len(stack')
    BY <1>1, <2>1
  <2> QED BY <2>1, <2>2 DEF Over
<1>6. stack'[n + 1].fn = f.fn /\ n < Len(stack')
  BY <1>1, <1>m
<1>7. \A k \in Depths : k = n => /\ Over(k, {"journey"})' <=> f.fn = "journey"
                                 /\ Over(k, {"zero"})' <=> f.fn = "zero"
  BY <1>6 DEF Over
<1>8. ~Over(m, {"journey"})' /\ ~Over(m, {"zero"})'
  BY <1>1 DEF Over
<1>s. f.fn \in Signals => f.fn \notin {"main", "journey", "zero"}
  BY DEF Signals
<1> HIDE DEF n
<1>9. Full' = Full /\ Covered' = Covered
  BY <1>3 DEF Full, Covered
<1>10. 1 \in Depths
  OBVIOUS
<1>11. \A k \in Depths' : Past(k)' => k \in Depths /\ (Past(k) \/ (k = n /\ f.fn \in Signals))
  <2> SUFFICES ASSUME NEW k \in Depths', Past(k)'
               PROVE  k \in Depths /\ (Past(k) \/ (k = n /\ f.fn \in Signals))
    OBVIOUS
  <2>1. CASE k = m
    BY <1>1, <1>4, <1>8, <1>s, <2>1 DEF Past, Is, Signals
  <2>2. CASE k \in Depths /\ k # n
    BY <1>1, <1>5, <2>2 DEF Past, Is
  <2>3. CASE k = n
    BY <1>1, <1>4, <1>5, <1>7, <1>s, <2>3 DEF Past, Is
  <2> QED BY <1>2, <2>1, <2>2, <2>3
<1>12. \A k \in Depths' : Past(k)' => k \in Depths /\ Past(k)
  BY <1>1, <1>4, <1>5, <1>7, <1>11, <1>s DEF Past, Is
<1>13. InRetry' => InRetry
  <2> SUFFICES ASSUME NEW k \in Depths', stack'[k].fn = "zero",
                      stack'[k].at \in {"advance", "begin"} \/ Over(k, {"journey"})'
               PROVE  InRetry
    BY DEF InRetry
  <2>1. k # m
    BY <1>1, <1>4, <1>8, <1>s
  <2>2. CASE k \in Depths /\ k # n
    BY <1>1, <1>5, <2>2 DEF InRetry
  <2>3. CASE k = n
    <3>1. stack[n].fn = "zero" /\ stack[n].at \in {"advance", "begin"}
      BY <1>1, <1>4, <1>7, <1>s, <2>3
    <3> QED BY <1>1, <3>1 DEF InRetry
  <2> QED BY <1>2, <2>1, <2>2, <2>3
<1>14. InRetry => InRetry'
  <2> SUFFICES ASSUME NEW k \in Depths, stack[k].fn = "zero",
                      stack[k].at \in {"advance", "begin"} \/ Over(k, {"journey"})
               PROVE  InRetry'
    BY DEF InRetry
  <2>2. CASE k # n
    BY <1>1, <1>5, <2>2 DEF InRetry
  <2>3. CASE k = n
    <3>1. stack[n].at \in {"advance", "begin"}
      BY <1>5, <2>3
    <3>2. stack'[n].at \in {"advance", "begin"} \/ Over(k, {"journey"})'
      BY <1>1, <1>4, <1>7, <2>3, <3>1
    <3> QED BY <1>1, <2>3, <3>2 DEF InRetry
  <2> QED BY <2>2, <2>3
<1>15. Stale => Stale'
  <2> SUFFICES ASSUME NEW k \in Depths, Retrying(k),
                      \A j \in Depths : j > k => Retrying(j) \/ stack[j].fn \in Signals
               PROVE  Stale'
    BY DEF Stale
  <2>1. \A j \in Depths : Retrying(j) => Retrying(j)'
    BY <1>1, <1>4 DEF Retrying, Is
  <2>2. stack[n].fn \in Signals \/ Retrying(n)
    BY <1>1
  <2>3. f.fn \in Signals \/ Retrying(m)'
    BY <1>1, <1>4, <2>2 DEF Retrying, Is, Signals
  <2>4. \A j \in Depths' : j > k => Retrying(j)' \/ stack'[j].fn \in Signals
    BY <1>1, <1>2, <2>1, <2>3
  <2> QED BY <1>1, <2>1, <2>4 DEF Stale
<1>16. stack'[1].at = "report" /\ stack[1].at # "report" => n = 1 /\ f.fn = "zero" /\ Top.at = "check"
  BY <1>1, <1>4, <1>10
<1>17. stack[1].at = "report" => stack'[1].at = "report"
  BY <1>1, <1>4, <1>10
<1>18. CASE stack[1].at = "report" \/ stack'[1].at # "report"
  <2>1. (Clean' = Clean) /\ (FellOnce' = FellOnce)
    BY <1>3, <1>17, <1>18 DEF Clean, FellOnce
  <2>2. Clean' => \A k \in Depths' :
         /\ Past(k)' => Full'
         /\ stack'[k].at = "advance" =>
              \/ Full'
              \/ coach'.index = 0
              \/ \E j \in Depths' : j > k /\ (stack'[j].fn = "journey" \/ stack'[j].at = "begin")
    <3>1. \A k \in Depths' : stack'[k].at = "advance" => k \in Depths /\ stack[k].at = "advance"
      BY <1>1, <1>2, <1>4
    <3>2. \A k, j \in Depths : j > k /\ (stack[j].fn = "journey" \/ stack[j].at = "begin") =>
            \E i \in Depths' : i > k /\ (stack'[i].fn = "journey" \/ stack'[i].at = "begin")
      <4> SUFFICES ASSUME NEW k \in Depths, NEW j \in Depths, j > k,
                          stack[j].fn = "journey" \/ stack[j].at = "begin"
                   PROVE  \E i \in Depths' : i > k /\ (stack'[i].fn = "journey" \/ stack'[i].at = "begin")
        OBVIOUS
      <4>1. (stack'[j].fn = "journey" \/ stack'[j].at = "begin") \/ (j = n /\ f.fn = "journey")
        BY <1>1, <1>4
      <4> QED BY <1>1, <4>1
    <3> QED BY <1>3, <1>9, <1>12, <2>1, <3>1, <3>2 DEF Earned
  <2>3. FellOnce' /\ stack'[1].at # "report" =>
       \/ Full'
       \/ InRetry'
       \/ /\ coach'.life <= 0
          /\ \A k \in Depths' : stack'[k].at = "store" /\ Own(k)' => stack'[k].reg <= 0
    <3>1. \A k \in Depths' : stack'[k].at = "store" =>
            k \in Depths /\ stack[k].at = "store" /\ Own(k)' = Own(k) /\ stack'[k].reg = stack[k].reg
      BY <1>1, <1>2, <1>3, <1>4 DEF Own
    <3> QED BY <1>3, <1>9, <1>14, <1>17, <2>1, <3>1 DEF Earned
  <2>4. stack'[1].at = "load" => fell' = 0
    BY <1>1, <1>3, <1>4, <1>10 DEF Earned
  <2>5. fell' = 0 /\ stack'[1].at = "report" => Full'
    BY <1>3, <1>9, <1>18 DEF Earned
  <2>6. Clean' \/ (FellOnce' /\ InRetry') => Full' \/ Covered' \/ Stale'
    BY <1>9, <1>13, <1>15, <2>1 DEF Earned
  <2> QED BY <2>2, <2>3, <2>4, <2>5, <2>6 DEF Earned
<1>19. CASE stack[1].at # "report" /\ stack'[1].at = "report"
  <2>1. n = 1 /\ f.fn = "zero" /\ f.at = "disconnect" /\ Top.fn = "main" /\ Top.at = "check" /\ m = 2
    BY <1>1, <1>4, <1>16, <1>19, <1>m, <1>s
  <2>2. Past(1)
    BY <1>1, <1>5, <2>1 DEF Past, Is
  <2>3. fell = 0 => Full
    BY <1>10, <2>2 DEF Earned, Clean
  <2>4. Stale'
    <3>1. Retrying(m)'
      BY <1>1, <2>1 DEF Retrying, Is
    <3> QED BY <1>1, <3>1 DEF Stale
  <2>5. \A k \in Depths' : k = 1 \/ k = 2
    BY <1>1, <2>1
  <2>6. \A k \in Depths' : ~Past(k)' /\ stack'[k].at # "advance"
    <3>1. ~Past(2)' /\ stack'[2].at # "advance"
      BY <1>1, <2>1 DEF Past, Is
    <3>2. ~Past(1)' /\ stack'[1].at # "advance"
      BY <1>1, <1>7, <1>19, <2>1 DEF Past, Is
    <3> QED BY <2>5, <3>1, <3>2
  <2> QED BY <1>3, <1>9, <1>19, <2>3, <2>4, <2>6 DEF Earned
<1> QED BY <1>18, <1>19

LEMMA EarnedLeaves ==
  ASSUME IInv, Leaves, sent' = sent,
         Top.at # "test" => fell' = fell,
         Top.at = "test" => fell' = fell + 1 /\ coach.life <= 0,
         Top.at = "next" => coach.index = Maps
  PROVE  Earned'
<1> DEFINE n == Len(stack)
<1>0. TypeOK /\ Stacked /\ Delivered /\ Earned /\ Indexed /\ Outdated /\ Allocated
  BY DEF IInv
<1> USE ShapeFacts, <1>0
<1>1. /\ Depths' = 1 .. n - 1 /\ Len(stack') = n - 1 /\ n > 1
      /\ \A k \in Depths' : k \in Depths /\ k < n /\ stack'[k] = stack[k]
      /\ stack[n].at = Top.at /\ stack[n].fn = Top.fn /\ n \in Depths
  BY DEF Leaves, Pops, Depths
<1>2. \A k \in Depths : k # n => k \in Depths' /\ k < n
  BY <1>1
<1>3. /\ coach'.id = coach.id /\ coach'.life = coach.life /\ medals' = medals /\ sent' = sent
      /\ Top.at \in {"end", "next", "test"}
      /\ Top.at \in {"next", "test"} => Top.fn = "journey" /\ Own(n)
      /\ Top.at = "end" => Top.fn # "journey"
  <2>1. Top.at = "end" => Top.fn # "journey"
    <3>1. stack[n].at \in Sites[stack[n].fn] /\ Sites["journey"] =
             {"connect", "play", "won", "lost", "next", "load", "store", "test"}
      BY <1>1 DEF Sites
    <3> QED BY <1>1, <3>1
  <2>2. sent' = sent
    OBVIOUS
  <2>3. /\ coach'.id = coach.id /\ coach'.life = coach.life /\ medals' = medals
        /\ Top.at \in {"end", "next", "test"}
        /\ Top.at \in {"next", "test"} => Top.fn = "journey" /\ Own(n)
    BY DEF Leaves
  <2> QED BY <2>1, <2>2, <2>3
<1>4. /\ \A k \in Depths' : k < n - 1 => k + 1 \in Depths' /\ stack'[k + 1] = stack[k + 1]
      /\ n - 1 \in Depths' /\ n - 1 \in Depths
  BY <1>1
<1>f. fell \in Nat
  BY DEF TypeOK
<1>5. Full' = Full
  BY <1>3 DEF Full
<1>6. \A k \in Depths' : Over(k, {"journey"})' => Over(k, {"journey"})
  BY <1>1, <1>4 DEF Over
<1>o. \A k \in Depths' : /\ k # n - 1 => (Over(k, {"journey"})' = Over(k, {"journey"}))
                                          /\ (Over(k, {"zero"})' = Over(k, {"zero"}))
                         /\ k = n - 1 => /\ Over(k, {"journey"}) <=> Top.fn = "journey"
                                         /\ Over(k, {"zero"}) <=> Top.fn = "zero"
  <2> SUFFICES ASSUME NEW k \in Depths'
               PROVE  /\ k # n - 1 => (Over(k, {"journey"})' = Over(k, {"journey"}))
                                       /\ (Over(k, {"zero"})' = Over(k, {"zero"}))
                      /\ k = n - 1 => /\ Over(k, {"journey"}) <=> Top.fn = "journey"
                                      /\ Over(k, {"zero"}) <=> Top.fn = "zero"
    OBVIOUS
  <2>1. k # n - 1 => k < n - 1 /\ k < Len(stack) /\ k < Len(stack')
    BY <1>1
  <2>2. k = n - 1 => k + 1 = n /\ k < Len(stack)
    BY <1>1
  <2> QED BY <1>1, <1>4, <2>1, <2>2 DEF Over
<1>p. stack[n].fn = "journey" => Is(n - 1, "main", {"check"}) \/ Is(n - 1, "zero", {"end"})
  BY <1>1 DEF Stacked
<1>q. stack[n].fn = "zero" => Is(n - 1, "main", {"report"}) \/ Is(n - 1, "term", {"end"})
  BY <1>1 DEF Stacked
<1> HIDE DEF n
<1>7. 1 \in Depths' /\ stack'[1] = stack[1]
  BY <1>1
<1>8. InRetry' => InRetry
  BY <1>1, <1>6 DEF InRetry
<1>9. Stale => Stale'
  <2>1. ~Retrying(n)
    BY <1>1, <1>3 DEF Retrying, Is
  <2>2. \A k \in Depths' : Retrying(k)' = Retrying(k)
    BY <1>1 DEF Retrying, Is
  <2> SUFFICES ASSUME NEW k \in Depths, Retrying(k),
                      \A j \in Depths : j > k => Retrying(j) \/ stack[j].fn \in Signals
               PROVE  Stale'
    BY DEF Stale
  <2>3. k \in Depths'
    BY <1>2, <2>1
  <2> QED BY <1>1, <2>2, <2>3 DEF Stale
<1>10. stack'[1].at = "load" => fell' = 0
  <2> SUFFICES ASSUME stack[1].at = "load"
               PROVE  fell' = 0
    BY <1>7
  <2>1. Unloaded(1)
    BY DEF Unloaded, Stacked
  <2>2. stack[n].fn \in Signals
    BY <1>1, <2>1 DEF Allocated
  <2>3. Top.at # "test"
    BY <1>1, <1>3, <2>2 DEF Signals
  <2> QED BY <2>3 DEF Earned
<1>11. CASE Top.at = "end"
  <2>1. fell' = fell /\ coach'.index = coach.index /\ Top.fn \in {"zero", "term", "gift"}
    <3>1. Top.fn # "journey" /\ Top.fn # "main" /\ Top.fn \in Functions
      BY <1>1, <1>3, <1>11 DEF Leaves
    <3> QED BY <1>11, <3>1 DEF Leaves, Functions, Signals
  <2>2. (Clean' = Clean) /\ (FellOnce' = FellOnce) /\ (Covered' = Covered)
    BY <1>3, <1>7, <2>1 DEF Clean, FellOnce, Covered
  <2>3. \A k \in Depths' : Past(k)' => Past(k) \/ Past(n)
    <3>1. Top.fn = "zero" => Past(n)
      BY <1>1, <1>11 DEF Past, Is, Over, n
    <3>2. ASSUME NEW k \in Depths', Past(k)', Top.fn # "zero"
          PROVE  Past(k)
      BY <1>1, <1>o, <2>1, <3>2 DEF Past, Is
    <3> QED BY <3>1, <3>2
  <2>4. Clean' => \A k \in Depths' :
         /\ Past(k)' => Full'
         /\ stack'[k].at = "advance" =>
              \/ Full'
              \/ coach'.index = 0
              \/ \E j \in Depths' : j > k /\ (stack'[j].fn = "journey" \/ stack'[j].at = "begin")
    <3>1. \A j \in Depths : stack[j].fn = "journey" \/ stack[j].at = "begin" => j \in Depths' /\ stack'[j] = stack[j]
      BY <1>1, <1>2, <1>11, <2>1
    <3> QED BY <1>1, <1>5, <2>1, <2>2, <2>3, <3>1 DEF Earned
  <2>5. InRetry => InRetry'
    <3> SUFFICES ASSUME NEW k \in Depths, stack[k].fn = "zero",
                        stack[k].at \in {"advance", "begin"} \/ Over(k, {"journey"})
                 PROVE  InRetry'
      BY DEF InRetry
    <3>1. k # n
      BY <1>1, <1>11 DEF Over, n
    <3>2. k = n - 1 => ~Over(k, {"journey"})
      BY <1>o, <1>4, <2>1
    <3>3. stack'[k].at \in {"advance", "begin"} \/ Over(k, {"journey"})'
      BY <1>1, <1>2, <1>o, <3>1, <3>2
    <3> QED BY <1>1, <1>2, <3>1, <3>3 DEF InRetry
  <2>6. FellOnce' /\ stack'[1].at # "report" =>
       \/ Full'
       \/ InRetry'
       \/ /\ coach'.life <= 0
          /\ \A k \in Depths' : stack'[k].at = "store" /\ Own(k)' => stack'[k].reg <= 0
    <3>1. \A k \in Depths' : Own(k)' = Own(k)
      BY <1>1, <1>3 DEF Own
    <3> QED BY <1>1, <1>3, <1>5, <1>7, <2>2, <2>5, <3>1 DEF Earned
  <2>7. fell' = 0 /\ stack'[1].at = "report" => Full'
    BY <1>5, <1>7, <2>1 DEF Earned
  <2>8. Clean' \/ (FellOnce' /\ InRetry') => Full' \/ Covered' \/ Stale'
    BY <1>5, <1>8, <1>9, <2>2 DEF Earned
  <2> QED BY <1>10, <2>4, <2>6, <2>7, <2>8 DEF Earned
<1>n. Top.at # "end" => Top.fn \notin Signals /\ ~Retrying(n)
  BY <1>1, <1>3 DEF Signals, Retrying, Is
<1>12. CASE Top.at = "next"
  <2>1. fell' = fell /\ coach.index = Maps /\ Own(n) /\ Top.fn = "journey"
    BY <1>3, <1>12
  <2>2. coach.index \in medals
    BY <1>1, <1>12, <2>1 DEF Indexed, Is
  <2>3. Clean \/ (FellOnce /\ InRetry) => Full
    <3>1. Clean \/ (FellOnce /\ InRetry) => Full \/ Covered
      BY <1>n, <1>12, CoveredAtTop DEF n
    <3>2. Covered => 1 .. Maps \subseteq medals
      BY <2>1, <2>2, SheetAssumption DEF Covered
    <3> QED BY <3>1, <3>2 DEF Full, TypeOK
  <2>4. (Clean' = Clean) /\ (FellOnce' = FellOnce)
    BY <1>3, <1>7, <2>1 DEF Clean, FellOnce
  <2>5. FellOnce' /\ stack'[1].at # "report" =>
       \/ Full'
       \/ InRetry'
       \/ /\ coach'.life <= 0
          /\ \A k \in Depths' : stack'[k].at = "store" /\ Own(k)' => stack'[k].reg <= 0
    <3>1. \A k \in Depths' : Own(k)' = Own(k)
      BY <1>1, <1>3 DEF Own
    <3> QED BY <1>1, <1>3, <1>5, <1>7, <2>3, <2>4, <3>1 DEF Earned
  <2>6. Clean' \/ (FellOnce' /\ InRetry') => Full'
    BY <1>5, <1>8, <2>3, <2>4
  <2>7. fell' = 0 => Clean'
    BY DEF Clean
  <2> QED BY <1>10, <2>5, <2>6, <2>7 DEF Earned
<1>13. CASE Top.at = "test"
  <2>1. fell' = fell + 1 /\ coach.life <= 0 /\ coach'.index = coach.index /\ Own(n) /\ Top.fn = "journey"
    BY <1>3, <1>13 DEF Leaves
  <2>2. CASE fell > 0
    <3>1. fell' # 0 /\ ~FellOnce'
      BY <1>f, <2>1, <2>2 DEF FellOnce
    <3> QED BY <1>10, <3>1, EarnedFull
  <2>3. CASE fell = 0 /\ stack[1].at = "report"
    <3>1. Full
      BY <2>3 DEF Earned
    <3> QED BY <1>5, <1>10, <3>1, EarnedFull
  <2>4. CASE fell = 0 /\ stack[1].at # "report"
    <3>1. fell' = 1 /\ ~Clean'
      BY <1>7, <2>1, <2>4 DEF Clean
    <3>2. Full \/ Covered
      BY <1>n, <1>13, <2>4, CoveredAtTop DEF Clean, n
    <3>3. Full' \/ Covered'
      BY <1>3, <2>1, <3>2 DEF Full, Covered
    <3>4. ASSUME NEW k \in Depths', stack'[k].at = "store", Own(k)', FellOnce'
          PROVE  FALSE
      <4>1. k \in Depths /\ k < n /\ stack[k].at = "store" /\ Own(k)
        BY <1>1, <1>3, <3>4 DEF Own
      <4>2. stack[k].fn # "journey"
        BY <1>1, <2>1, <4>1 DEF Outdated
      <4>3. stack[k].fn # "gift"
        <5>1. sent["gift"] = 0
          BY <1>3, <3>4 DEF FellOnce
        <5> QED BY <4>1, <5>1 DEF Delivered, Signals
      <4>4. stack[k].fn = "term"
        BY <4>1, <4>2, <4>3, Places_
      <4>5. k # n - 1 /\ Is(n - 1, "zero", {"end"}) /\ n - 1 # 1 /\ n - 1 \in Depths
        BY <1>1, <1>p, <1>4, <2>1, <4>1, <4>4 DEF Is
      <4>6. Is(n - 2, "term", {"end"})
        <5>1. n - 1 \in Depths \ {1} /\ stack[n - 1].fn = "zero"
          BY <4>5 DEF Is
        <5>2. (n - 1) - 1 = n - 2
          BY <1>1
        <5>3. Is(n - 2, "main", {"report"}) \/ Is(n - 2, "term", {"end"})
          BY <5>1, <5>2 DEF Stacked
        <5>4. ~Is(n - 2, "main", {"report"})
          <6>1. Is(n - 2, "main", {"report"}) => n - 2 = 1
            <7>1. n - 2 \in Depths
              BY <1>1, <4>5, <1>4
            <7> QED BY <7>1 DEF Is
          <6> QED BY <6>1, <2>4 DEF Is
        <5> QED BY <5>3, <5>4
      <4>7. n - 2 \in Depths /\ k # n - 2 /\ (k < n - 2 \/ n - 2 < k)
        BY <1>1, <1>4, <4>1, <4>5, <4>6 DEF Is
      <4> QED BY <4>1, <4>4, <4>6, <4>7 DEF Is, Unique
    <3> QED BY <1>3, <1>10, <2>1, <3>1, <3>3, <3>4 DEF Earned
  <2> QED BY <1>f, <2>2, <2>3, <2>4
<1> QED BY <1>3, <1>11, <1>12, <1>13

-----------------------------------------------------------------------------
(* The actions. *)

CoachType == [id : Int, live : BOOLEAN, life : Int, index : 0 .. Maps + 2,
              conn : {"none", "open", "closed"}]

LEMMA SeqGrows ==
  ASSUME NEW S, NEW T, S \subseteq T, NEW s \in Seq(S)
  PROVE  s \in Seq(T)
OBVIOUS

LEMMA Together ==
  ASSUME IInv, stack' \in Seq(Frames), retries' \in {retries, retries + 1},
         Shape', Allocated', Connected', Outdated', Indexed', LivesLeft', Earned',
         pending' \subseteq Signals, sent' = sent, coach' \in CoachType,
         medals' \subseteq 1 .. Maps, fell' \in {fell, fell + 1}, overtaken' \in BOOLEAN,
         outcome' = "playing"
  PROVE  IInv'
<1>0. TypeOK
  BY DEF IInv
<1>1. retries \in Nat /\ retries' \in Nat /\ fell \in Nat /\ fell' \in Nat
  BY <1>0 DEF TypeOK
<1>2. Frames \subseteq [fn : Functions, at : Places, id : 0 .. retries' + 1, reg : Int]
  BY <1>1 DEF Frames
<1>3. stack' \in Seq([fn : Functions, at : Places, id : 0 .. retries' + 1, reg : Int])
  BY <1>2, SeqGrows
<1>4. coach'.id \in 0 .. retries' + 1
  <2>1. coach'.id = retries' + (IF coach'.live THEN 1 ELSE 0)
    BY DEF Allocated
  <2>2. coach'.id = retries' + 1 \/ coach'.id = retries' + 0
    BY <2>1
  <2>3. \A r \in Nat : r + 1 \in 0 .. r + 1 /\ r + 0 \in 0 .. r + 1
    OBVIOUS
  <2> QED BY <1>1, <2>2, <2>3
<1>5. coach' \in [id : 0 .. retries' + 1, live : BOOLEAN, life : Int, index : 0 .. Maps + 2,
                  conn : {"none", "open", "closed"}]
  BY <1>4 DEF CoachType
<1>6. sent' \in [Signals -> Nat] /\ \A s \in Signals : sent'[s] <= Limit(s)
  BY <1>0 DEF TypeOK
<1>7. \A i, j \in DOMAIN stack' :
        i < j /\ stack'[i].fn = stack'[j].fn => stack'[i].fn \in {"journey", "zero"}
  BY DEF Shape, Unique, Depths
<1>8. TypeOK'
  BY <1>1, <1>3, <1>5, <1>6, <1>7 DEF TypeOK, Functions, Places
<1>9. MaestroHasAllMedals' /\ OnlyRetriesBreak'
  BY DEF MaestroHasAllMedals, OnlyRetriesBreak
<1> QED BY <1>8, <1>9 DEF IInv, Shape

LEMMA RunningFacts ==
  ASSUME IInv, Running
  PROVE  /\ TypeOK /\ Stacked /\ Delivered /\ Allocated /\ Indexed /\ Earned
         /\ outcome = "playing" /\ pending \subseteq Signals /\ medals \subseteq 1 .. Maps
         /\ coach \in CoachType /\ overtaken \in BOOLEAN
         /\ Len(stack) > 0 /\ Top = stack[Len(stack)] /\ Top \in Frames
         /\ Top.fn \in {"main", "journey", "zero", "term", "gift"} /\ Top.at \in Sites[Top.fn]
<1>1. TypeOK /\ Stacked /\ Delivered /\ Allocated /\ Indexed /\ Earned /\ outcome = "playing"
  BY DEF IInv, Running
<1>2. coach \in CoachType /\ overtaken \in BOOLEAN /\ pending \subseteq Signals /\ medals \subseteq 1 .. Maps
  <2>1. coach \in [id : 0 .. retries + 1, live : BOOLEAN, life : Int, index : 0 .. Maps + 2,
                  conn : {"none", "open", "closed"}] /\ retries \in Nat
    BY <1>1 DEF TypeOK
  <2>2. coach \in CoachType
    BY <2>1 DEF CoachType
  <2> QED BY <1>1, <2>2 DEF TypeOK
<1>3. /\ Len(stack) > 0 /\ Top = stack[Len(stack)] /\ Top \in Frames
      /\ Top.fn \in Functions /\ Top.at \in Sites[Top.fn]
  BY <1>1, ShapeFacts
<1> QED BY <1>1, <1>2, <1>3 DEF Functions, Signals

\* A step of the running call that changes no coach, but for its connection.
LEMMA WalksInv ==
  ASSUME IInv, Running, NEW at \in Places, at \in Sites[Top.fn], GoTo(at),
         UNCHANGED <<pending, sent, retries, fell, overtaken, outcome>>,
         coach' = coach \/ coach' = [coach EXCEPT !.conn = "open"] \/ coach' = [coach EXCEPT !.conn = "closed"],
         medals \subseteq medals', medals' \subseteq 1 .. Maps,
         Top.at \notin {"load", "advance", "store"}, at \notin {"store", "advance", "begin"},
         at = "load" => Top.fn = "journey",
         Top.fn = "zero" => Top.at = "begin" \/ at = "destroy",
         \/ Top.fn = "zero"
         \/ Top.fn = "journey" /\ at \notin {"play", "won", "lost"}
         \/ Top.fn = "journey" /\ coach'.conn = "open"
         \/ coach' = coach /\ (Top.fn = "journey" => Top.at \in {"play", "won", "lost"}),
         Top.fn = "journey" /\ at \in {"won", "next"} => coach.index \in medals',
         Top.at = "test" => coach.life > 0,
         Top.fn = "main" \/ Top.at = "begin" =>
           (Moves(stack', at) /\ Kept(stack') /\ coach' = coach /\ medals' = medals => Earned'),
         Top.fn = "main" \/ Top.at = "begin" => coach' = coach /\ medals' = medals
  PROVE  IInv'
<1>0. /\ TypeOK /\ Stacked /\ Delivered /\ coach \in CoachType /\ Len(stack) > 0 /\ outcome = "playing"
      /\ pending \subseteq Signals /\ overtaken \in BOOLEAN /\ Top = stack[Len(stack)]
  BY RunningFacts
<1>1. Moves(stack', at) /\ Kept(stack') /\ stack' \in Seq(Frames)
  BY <1>0, GoToMoves
<1>2. /\ coach'.id = coach.id /\ coach'.live = coach.live /\ coach'.life = coach.life
      /\ coach'.index = coach.index /\ coach' \in CoachType
  BY <1>0 DEF CoachType
<1>3. Shape'
  BY <1>0, <1>1, MovesShape
<1>4. stack'[Len(stack)].fn = Top.fn /\ stack'[Len(stack)].at = at
  BY <1>0, <1>1 DEF Moves
<1>5. Walks(at)
  <2>1. Is(Len(stack), "journey", {"won", "next"})' => coach.index \in medals'
    <3>1. Len(stack') = Len(stack)
      BY <1>1 DEF Moves
    <3> QED BY <1>4, <3>1 DEF Is
  <2> QED BY <1>1, <1>2, <2>1 DEF Walks
<1>6. Allocated' /\ Connected' /\ Outdated' /\ Indexed' /\ LivesLeft'
  BY <1>5, WalksKeep
<1>7. Earned'
  <2>1. CASE Top.fn # "main" /\ Top.at # "begin"
    <3>1. \A k \in Depths' : stack'[k].at = "store" =>
            k \in Depths /\ stack[k].at = "store" /\ Own(k)' = Own(k) /\ stack'[k].reg = stack[k].reg
      BY <1>0, <1>1, <1>2, <1>4, MovesFacts DEF Own, Kept
    <3> QED BY <1>1, <1>2, <2>1, <3>1, EarnedMoves
  <2>2. CASE Top.fn = "main" \/ Top.at = "begin"
    BY <1>1, <2>2
  <2> QED BY <2>1, <2>2
<1>8. outcome' = "playing" /\ pending' \subseteq Signals /\ overtaken' \in BOOLEAN
  BY <1>0
<1> QED BY <1>1, <1>2, <1>3, <1>6, <1>7, <1>8, Together

\* A step that only ends the process.
LEMMA EndsInv ==
  ASSUME IInv, UNCHANGED <<stack, pending, sent, coach, medals, retries, fell, overtaken>>,
         outcome' \in {"playing", "maestro", "exited", "broken"},
         MaestroHasAllMedals', OnlyRetriesBreak'
  PROVE  IInv'
<1>1. TypeOK'
  BY DEF IInv, TypeOK
<1>2. Stacked' /\ Delivered' /\ Allocated'
  BY DEF IInv, Stacked, Depths, Is, Delivered, Allocated, Unloaded
<1>3. Connected' /\ Outdated'
  BY DEF IInv, Connected, Outdated, Depths, Is, Own, Retrying
<1>4. Indexed' /\ LivesLeft'
  BY DEF IInv, Indexed, LivesLeft, Depths, Is, Own, Counts, Excused, Retrying
<1>5. Earned'
  BY DEF IInv, Earned, Clean, FellOnce, InRetry, Full, Covered, Stale, Past, Over, Depths, Is, Own, Retrying
<1> QED BY <1>1, <1>2, <1>3, <1>4, <1>5 DEF IInv

\* A connection is broken, or a coach destroyed twice, only after a retry.
LEMMA BrokenInv ==
  ASSUME IInv, UNCHANGED <<stack, pending, sent, coach, medals, retries, fell, overtaken>>,
         outcome' = "broken",
         \/ ~coach.live
         \/ retries > 0
         \/ \E k \in Depths : stack[k].fn = "zero"
  PROVE  IInv'
<1>1. coach.id = 0 \/ retries > 0 \/ \E k \in Depths : stack[k].fn = "zero"
  <2>1. coach.id = retries + (IF coach.live THEN 1 ELSE 0) /\ retries \in Nat
    BY DEF IInv, Allocated, TypeOK
  <2> QED BY <2>1
<1>2. OnlyRetriesBreak' /\ MaestroHasAllMedals'
  BY <1>1 DEF OnlyRetriesBreak, MaestroHasAllMedals, Depths
<1> QED BY <1>2, EndsInv

LEMMA HoldsFacts ==
  ASSUME IInv, NEW fn, NEW at, Holds(fn, at)
  PROVE  /\ Running /\ Top.fn = fn /\ Top.at = at /\ coach.live
         /\ fn = "journey" \/ at = "store" => Own(Len(stack))
         /\ Is(Len(stack), fn, {at}) /\ Len(stack) \in Depths
<1>1. Top = stack[Len(stack)] /\ Len(stack) \in Depths
  BY RunningFacts, ShapeFacts DEF Holds, In
<1> QED BY <1>1 DEF Holds, In, Dangling, Own, Is

LEMMA UseAfterFreeInv == ASSUME IInv, UseAfterFree PROVE IInv'
<1>1. Running /\ Touches /\ Dangling /\ outcome' = "broken"
      /\ UNCHANGED <<stack, pending, sent, coach, medals, retries, fell, overtaken>>
  BY DEF UseAfterFree
<1>2. ASSUME coach.live, retries = 0
      PROVE  FALSE
  <2>1. coach.id = 1
    BY <1>1, <1>2, RunningFacts DEF Allocated
  <2>2. (Top.fn = "journey" \/ Top.at = "store") /\ Top.id # 1
    BY <1>1, <1>2, <2>1 DEF Dangling
  <2>3. Top = stack[Len(stack)] /\ Len(stack) \in Depths /\ Top \in Frames
    BY <1>1, RunningFacts, ShapeFacts
  <2>4. Top.id > 0 /\ Top.id <= 1 /\ Top.id \in Int
    BY <1>1, <2>1, <2>2, <2>3, RunningFacts DEF Allocated, Frames
  <2> QED BY <2>2, <2>4
<1>3. ~coach.live \/ retries > 0
  <2>1. retries \in Nat
    BY DEF IInv, TypeOK
  <2> QED BY <1>2, <2>1
<1> QED BY <1>1, <1>3, BrokenInv

LEMMA GameOverInv == ASSUME IInv, GameOver PROVE IInv'
<1>1. CASE coach.live
  <2>1. outcome' = "exited" /\ UNCHANGED <<stack, pending, sent, coach, medals, retries, fell, overtaken>>
    BY <1>1 DEF GameOver
  <2> QED BY <2>1, EndsInv DEF MaestroHasAllMedals, OnlyRetriesBreak
<1>2. CASE ~coach.live
  BY <1>2, BrokenInv DEF GameOver
<1> QED BY <1>1, <1>2

LEMMA MapGoneInv == ASSUME IInv, MapGone PROVE IInv'
<1>1. outcome' = "exited" /\ UNCHANGED <<stack, pending, sent, coach, medals, retries, fell, overtaken>>
  BY DEF MapGone
<1> QED BY <1>1, EndsInv DEF MaestroHasAllMedals, OnlyRetriesBreak

LEMMA MainReportInv == ASSUME IInv, MainReport PROVE IInv'
<1>1. Holds("main", "report") /\ outcome' = "maestro"
      /\ UNCHANGED <<stack, pending, sent, coach, medals, retries, fell, overtaken>>
  BY DEF MainReport
<1>2. TypeOK /\ Stacked /\ Earned /\ Is(Len(stack), "main", {"report"}) /\ Len(stack) \in Depths
  BY <1>1, HoldsFacts, RunningFacts
<1>3. Len(stack) = 1 /\ stack[1].at = "report"
  BY <1>2, ShapeFacts DEF Is
<1>4. Past(1) /\ 1 \in Depths
  BY <1>2, <1>3 DEF Past, Is, Over
<1>5. Clean => Full
  BY <1>2, <1>4 DEF Earned
<1>6. Clean \/ fell >= 2 \/ (fell = 1 /\ sent["gift"] > 0)
  <2>1. fell \in Nat /\ sent["gift"] \in Nat
    BY <1>2 DEF TypeOK, Signals
  <2> QED BY <1>3, <2>1 DEF Clean, FellOnce
<1>7. MaestroHasAllMedals' /\ OnlyRetriesBreak'
  BY <1>1, <1>5, <1>6 DEF MaestroHasAllMedals, OnlyRetriesBreak, Full
<1> QED BY <1>1, <1>7, EndsInv

\* connection_destroy, in the three calls that make it.
LEMMA DisconnectFails ==
  ASSUME IInv, NEW fn, NEW at, Holds(fn, at), coach.conn # "open",
         fn = "zero" \/ (fn = "journey" /\ at \in {"won", "lost"}),
         outcome' = "broken", UNCHANGED <<stack, pending, sent, coach, medals, retries, fell, overtaken>>
  PROVE  IInv'
<1>1. Is(Len(stack), fn, {at}) /\ Len(stack) \in Depths /\ retries \in Nat
  BY HoldsFacts DEF IInv, TypeOK
<1>2. retries > 0 \/ \E k \in Depths : stack[k].fn = "zero"
  <2>1. CASE fn = "zero"
    BY <1>1, <2>1 DEF Is
  <2>2. CASE fn = "journey" /\ at \in {"won", "lost"}
    <3>1. Is(Len(stack), "journey", {"play", "won", "lost"})
      BY <1>1, <2>2 DEF Is
    <3> QED BY <1>1, <3>1 DEF IInv, Connected
  <2> QED BY <2>1, <2>2
<1> QED BY <1>2, BrokenInv

LEMMA ConnectInv == ASSUME IInv, Connect PROVE IInv'
<1>1. Holds("journey", "connect") /\ GoTo("play") /\ coach' = [coach EXCEPT !.conn = "open"]
      /\ UNCHANGED <<pending, sent, medals, retries, fell, overtaken, outcome>>
  BY DEF Connect
<1>2. Running /\ Top.fn = "journey" /\ Top.at = "connect"
  BY <1>1, HoldsFacts
<1>3. medals \subseteq 1 .. Maps /\ coach'.conn = "open"
  BY <1>1, <1>2, RunningFacts DEF CoachType
<1>4. "play" \in Places /\ "play" \in Sites["journey"]
  BY DEF Places, Sites
<1> QED BY <1>1, <1>2, <1>3, <1>4, WalksInv

LEMMA CompleteInv == ASSUME IInv, Complete PROVE IInv'
<1>1. Holds("journey", "play") /\ GoTo("won") /\ medals' = medals \cup {coach.index}
      /\ UNCHANGED <<pending, sent, coach, retries, fell, overtaken, outcome>>
  BY DEF Complete
<1>2. Running /\ Top.fn = "journey" /\ Top.at = "play" /\ Own(Len(stack)) /\ Len(stack) \in Depths
  BY <1>1, HoldsFacts
<1>3. coach.index \in 1 .. Maps
  BY <1>2, RunningFacts DEF Indexed
<1>4. medals \subseteq medals' /\ medals' \subseteq 1 .. Maps /\ coach.index \in medals'
  BY <1>1, <1>2, <1>3, RunningFacts
<1>5. "won" \in Places /\ "won" \in Sites["journey"]
  BY DEF Places, Sites
<1> QED BY <1>1, <1>2, <1>4, <1>5, WalksInv

LEMMA VictimInv == ASSUME IInv, Victim PROVE IInv'
<1>1. Holds("journey", "play") /\ GoTo("lost")
      /\ UNCHANGED <<pending, sent, coach, medals, retries, fell, overtaken, outcome>>
  BY DEF Victim
<1>2. Running /\ Top.fn = "journey" /\ Top.at = "play" /\ medals \subseteq 1 .. Maps
  BY <1>1, HoldsFacts, RunningFacts
<1>3. "lost" \in Places /\ "lost" \in Sites["journey"]
  BY DEF Places, Sites
<1> QED BY <1>1, <1>2, <1>3, WalksInv

LEMMA LeaveWonInv == ASSUME IInv, LeaveWon PROVE IInv'
<1>1. Holds("journey", "won") /\ Disconnect("next")
      /\ UNCHANGED <<pending, sent, medals, retries, fell, overtaken>>
  BY DEF LeaveWon
<1>2. /\ Running /\ Top.fn = "journey" /\ Top.at = "won" /\ medals \subseteq 1 .. Maps
      /\ Own(Len(stack)) /\ Len(stack) \in Depths /\ Is(Len(stack), "journey", {"won"})
  BY <1>1, HoldsFacts, RunningFacts
<1>3. coach.index \in medals
  BY <1>2, RunningFacts DEF Indexed, Is
<1>4. "next" \in Places /\ "next" \in Sites["journey"]
  BY DEF Places, Sites
<1>5. CASE GoTo("next") /\ coach' = [coach EXCEPT !.conn = "closed"] /\ UNCHANGED outcome
  BY <1>1, <1>2, <1>3, <1>4, <1>5, WalksInv
<1>6. CASE coach.conn # "open" /\ outcome' = "broken" /\ UNCHANGED <<stack, coach>>
  BY <1>1, <1>6, DisconnectFails
<1> QED BY <1>1, <1>5, <1>6 DEF Disconnect

LEMMA LeaveLostInv == ASSUME IInv, LeaveLost PROVE IInv'
<1>1. Holds("journey", "lost") /\ Disconnect("load")
      /\ UNCHANGED <<pending, sent, medals, retries, fell, overtaken>>
  BY DEF LeaveLost
<1>2. Running /\ Top.fn = "journey" /\ Top.at = "lost" /\ medals \subseteq 1 .. Maps
  BY <1>1, HoldsFacts, RunningFacts
<1>4. "load" \in Places /\ "load" \in Sites["journey"]
  BY DEF Places, Sites
<1>5. CASE GoTo("load") /\ coach' = [coach EXCEPT !.conn = "closed"] /\ UNCHANGED outcome
  BY <1>1, <1>2, <1>4, <1>5, WalksInv
<1>6. CASE coach.conn # "open" /\ outcome' = "broken" /\ UNCHANGED <<stack, coach>>
  BY <1>1, <1>6, DisconnectFails
<1> QED BY <1>1, <1>5, <1>6 DEF Disconnect

LEMMA ZeroDisconnectInv == ASSUME IInv, ZeroDisconnect PROVE IInv'
<1>1. Holds("zero", "disconnect") /\ Disconnect("destroy")
      /\ UNCHANGED <<pending, sent, medals, retries, fell, overtaken>>
  BY DEF ZeroDisconnect
<1>2. Running /\ Top.fn = "zero" /\ Top.at = "disconnect" /\ medals \subseteq 1 .. Maps
  BY <1>1, HoldsFacts, RunningFacts
<1>4. "destroy" \in Places /\ "destroy" \in Sites["zero"]
  BY DEF Places, Sites
<1>5. CASE GoTo("destroy") /\ coach' = [coach EXCEPT !.conn = "closed"] /\ UNCHANGED outcome
  BY <1>1, <1>2, <1>4, <1>5, WalksInv
<1>6. CASE coach.conn # "open" /\ outcome' = "broken" /\ UNCHANGED <<stack, coach>>
  BY <1>1, <1>6, DisconnectFails
<1> QED BY <1>1, <1>5, <1>6 DEF Disconnect

\* The beginning of a journey, in main and in a retry.
LEMMA BeginInv == ASSUME IInv, Begin PROVE IInv'
<1>1. PICK fn \in {"main", "zero"} :
        /\ Holds(fn, "begin")
        /\ LET back == IF fn = "main" THEN "check" ELSE "end" IN
             IF coach.index <= Maps THEN Call("journey", "connect", coach.id, back)
                                    ELSE GoTo(back)
        /\ UNCHANGED <<pending, sent, coach, medals, retries, fell, overtaken, outcome>>
  BY DEF Begin
<1>b. PICK back \in Places : back = IF fn = "main" THEN "check" ELSE "end"
  BY DEF Places
<1>2. /\ Running /\ Top.fn = fn /\ Top.at = "begin" /\ coach.live
      /\ TypeOK /\ Stacked /\ Delivered /\ Len(stack) > 0 /\ medals \subseteq 1 .. Maps
      /\ pending \subseteq Signals /\ coach \in CoachType /\ overtaken \in BOOLEAN /\ outcome = "playing"
  BY <1>1, HoldsFacts, RunningFacts
<1>3. back \in Sites[Top.fn] /\ back \in {"check", "end"}
  BY <1>1, <1>b, <1>2 DEF Sites
<1>4. CASE coach.index <= Maps
  <2> DEFINE f == [fn |-> "journey", at |-> "connect", id |-> coach.id, reg |-> 0]
  <2>1. Call("journey", "connect", coach.id, back)
    BY <1>1, <1>b, <1>4
  <2>2. "journey" \in Functions /\ "connect" \in Places /\ coach.id \in 0 .. retries + 1
    BY <1>2, CoachFacts DEF Functions, Places
  <2>3. Pushes(stack', back, f) /\ stack' \in Seq(Frames) /\ f \in Frames
    <3>1. Pushes(stack', back, f) /\ stack' \in Seq(Frames)
      BY <1>2, <2>1, <2>2, CallPushes
    <3>2. PICK z \in Int : z = 0
      OBVIOUS
    <3>3. [fn |-> "journey", at |-> "connect", id |-> coach.id, reg |-> z] \in Frames
      BY <2>2 DEF Frames
    <3> QED BY <3>1, <3>2, <3>3
  <2>4. Enters(back, f)
    BY <1>1, <1>b, <1>2, <1>4, <2>3 DEF Enters
  <2>5. Shape'
    <3>1. f.at \in Sites[f.fn] /\ f.fn \notin Signals
      BY DEF Sites, Signals
    <3>2. (Top.fn = "main" /\ back = "check") \/ (Top.fn = "zero" /\ back = "end")
      BY <1>1, <1>b, <1>2
    <3> QED BY <1>1, <1>2, <1>3, <2>3, <3>1, <3>2, PushesShape
  <2>6. Allocated' /\ Connected' /\ Outdated' /\ Indexed' /\ LivesLeft'
    BY <2>4, EntersKeep
  <2>7. Earned'
    BY <1>1, <2>4, EarnedEnters
  <2> QED BY <1>1, <1>2, <2>3, <2>5, <2>6, <2>7, Together
<1>5. CASE ~(coach.index <= Maps)
  <2>1. GoTo(back)
    BY <1>1, <1>b, <1>5
  <2>2. coach.index > Maps
    BY <1>2, <1>5, CoachFacts, SheetAssumption
  <2>3. Moves(stack', back) /\ Kept(stack') => Earned'
    BY <1>1, <1>b, <1>2, <2>2, EarnedSkips
  <2> QED BY <1>1, <1>2, <1>3, <2>1, <2>3, WalksInv
<1> QED BY <1>4, <1>5

\* A retry, called by main and by the handler of SIGTERM.
LEMMA RetryInv ==
  ASSUME IInv, NEW back \in {"report", "end"}, Running, coach.live,
         Call("zero", "disconnect", coach.id, back), coach.life < 1,
         \/ Top.fn = "main" /\ Top.at = "check" /\ back = "report"
         \/ Top.fn = "term" /\ Top.at = "test" /\ back = "end",
         UNCHANGED <<pending, sent, coach, medals, retries, fell, overtaken, outcome>>
  PROVE  IInv'
<1> DEFINE f == [fn |-> "zero", at |-> "disconnect", id |-> coach.id, reg |-> 0]
<1>1. /\ TypeOK /\ Stacked /\ Delivered /\ Len(stack) > 0 /\ medals \subseteq 1 .. Maps
      /\ pending \subseteq Signals /\ coach \in CoachType /\ overtaken \in BOOLEAN /\ outcome = "playing"
  BY RunningFacts
<1>2. "zero" \in Functions /\ "disconnect" \in Places /\ back \in Places /\ coach.id \in 0 .. retries + 1
  BY <1>1, CoachFacts DEF Functions, Places
<1>3. Pushes(stack', back, f) /\ stack' \in Seq(Frames) /\ f \in Frames
  <2>1. Pushes(stack', back, f) /\ stack' \in Seq(Frames)
    BY <1>1, <1>2, CallPushes
  <2>2. PICK z \in Int : z = 0
    OBVIOUS
  <2>3. [fn |-> "zero", at |-> "disconnect", id |-> coach.id, reg |-> z] \in Frames
    BY <1>2 DEF Frames
  <2> QED BY <2>1, <2>2, <2>3
<1>4. Enters(back, f)
  BY <1>3 DEF Enters
<1>5. Shape'
  <2>1. f.at \in Sites[f.fn] /\ f.fn \notin Signals /\ back \in Sites[Top.fn]
    BY DEF Sites, Signals
  <2> QED BY <1>1, <1>3, <2>1, PushesShape
<1>6. Allocated' /\ Connected' /\ Outdated' /\ Indexed' /\ LivesLeft'
  BY <1>4, EntersKeep
<1>7. Earned'
  BY <1>4, EarnedEnters
<1> QED BY <1>1, <1>3, <1>5, <1>6, <1>7, Together

LEMMA MainCheckInv == ASSUME IInv, MainCheck PROVE IInv'
<1>1. Holds("main", "check") /\ UNCHANGED <<pending, sent, coach, medals, retries, fell, overtaken, outcome>>
  BY DEF MainCheck
<1>2. /\ Running /\ Top.fn = "main" /\ Top.at = "check" /\ coach.live /\ medals \subseteq 1 .. Maps
      /\ Is(Len(stack), "main", {"check"})
  BY <1>1, HoldsFacts, RunningFacts
<1>3. CASE coach.life < 1
  BY <1>1, <1>2, <1>3, RetryInv DEF MainCheck
<1>4. CASE ~(coach.life < 1)
  <2>1. GoTo("report")
    BY <1>4 DEF MainCheck
  <2>2. "report" \in Places /\ "report" \in Sites["main"]
    BY DEF Places, Sites
  <2>3. Moves(stack', "report") => Earned'
    BY <1>1, <1>2, <1>4, EarnedReports
  <2> QED BY <1>1, <1>2, <2>1, <2>2, <2>3, WalksInv
<1> QED BY <1>3, <1>4

LEMMA HandlerTestInv == ASSUME IInv, HandlerTest PROVE IInv'
<1>1. Holds("term", "test") /\ UNCHANGED <<pending, sent, coach, medals, retries, fell, overtaken, outcome>>
  BY DEF HandlerTest
<1>2. /\ Running /\ Top.fn = "term" /\ Top.at = "test" /\ coach.live /\ medals \subseteq 1 .. Maps
      /\ coach \in CoachType
  BY <1>1, HoldsFacts, RunningFacts
<1>3. CASE coach.life > 0
  <2>1. GoTo("end")
    BY <1>3 DEF HandlerTest
  <2>2. "end" \in Places /\ "end" \in Sites["term"]
    BY DEF Places, Sites
  <2> QED BY <1>1, <1>2, <1>3, <2>1, <2>2, WalksInv
<1>4. CASE ~(coach.life > 0)
  <2>1. coach.life < 1
    BY <1>2, <1>4 DEF CoachType
  <2> QED BY <1>1, <1>2, <1>4, <2>1, RetryInv DEF HandlerTest
<1> QED BY <1>3, <1>4

\* The load of the metadata, by main and by a retry.
LEMMA MetadataInv ==
  ASSUME IInv, Running, Top.fn \in {"main", "zero"}, Top.at = "load",
         CargarMetadata, GoTo("advance"),
         UNCHANGED <<pending, sent, medals, retries, fell, overtaken, outcome>>
  PROVE  IInv'
<1>1. /\ TypeOK /\ Stacked /\ Delivered /\ Len(stack) > 0 /\ medals \subseteq 1 .. Maps
      /\ pending \subseteq Signals /\ coach \in CoachType /\ overtaken \in BOOLEAN /\ outcome = "playing"
      /\ Top = stack[Len(stack)]
  BY RunningFacts
<1>2. Unloaded(Len(stack))
  BY <1>1 DEF Unloaded
<1>3. "advance" \in Places /\ "advance" \in Sites[Top.fn]
  BY DEF Places, Sites
<1>4. Moves(stack', "advance") /\ Kept(stack') /\ stack' \in Seq(Frames)
  BY <1>1, <1>3, GoToMoves
<1>5. coach' \in CoachType
  <2>1. PICK z \in 0 .. Maps + 2 : z = 0
    BY SheetAssumption
  <2>2. PICK m \in Int : m = coach.id + 1
    BY <1>1 DEF CoachType
  <2>3. Lives \in Int
    BY SheetAssumption
  <2>4. [id |-> m, live |-> TRUE, life |-> Lives, index |-> z, conn |-> "none"] \in CoachType
    BY <2>3 DEF CoachType
  <2> QED BY <2>1, <2>2, <2>4 DEF CargarMetadata
<1>6. Shape'
  BY <1>1, <1>3, <1>4, MovesShape
<1>7. Allocated' /\ Connected' /\ Outdated' /\ Indexed' /\ LivesLeft'
  BY <1>2, <1>4, LoadsKeep
<1>8. Earned'
  BY <1>2, <1>4, EarnedLoads
<1> QED BY <1>1, <1>4, <1>5, <1>6, <1>7, <1>8, Together

LEMMA MainLoadInv == ASSUME IInv, MainLoad PROVE IInv'
BY MetadataInv DEF MainLoad, In

LEMMA ZeroLoadInv == ASSUME IInv, ZeroLoad PROVE IInv'
BY MetadataInv DEF ZeroLoad, In

\* The next map: the first one, and the one after a map that is won.
LEMMA NextIndexInv ==
  ASSUME IInv, Running, NEW at \in Places, at \in Sites[Top.fn], GoTo(at),
         Moves(stack', at) /\ Kept(stack') => NextIndex(at), coach.index + 1 \in 0 .. Maps + 2,
         coach' = [coach EXCEPT !.index = @ + 1],
         UNCHANGED <<pending, sent, medals, retries, fell, overtaken, outcome>>
  PROVE  IInv'
<1>1. /\ TypeOK /\ Stacked /\ Delivered /\ Len(stack) > 0 /\ medals \subseteq 1 .. Maps
      /\ pending \subseteq Signals /\ coach \in CoachType /\ overtaken \in BOOLEAN /\ outcome = "playing"
  BY RunningFacts
<1>2. Moves(stack', at) /\ Kept(stack') /\ stack' \in Seq(Frames)
  BY <1>1, GoToMoves
<1>3. coach' \in CoachType
  BY <1>1 DEF CoachType
<1>4. Shape'
  BY <1>1, <1>2, MovesShape
<1>5. Allocated' /\ Connected' /\ Outdated' /\ Indexed' /\ LivesLeft'
  BY <1>2, NextIndexKeeps
<1>6. Earned'
  BY <1>2, EarnedNextIndex
<1> QED BY <1>1, <1>2, <1>3, <1>4, <1>5, <1>6, Together

LEMMA AdvanceInv == ASSUME IInv, Advance PROVE IInv'
<1>1. PICK fn \in {"main", "zero"} : Holds(fn, "advance")
  BY DEF Advance
<1>2. /\ coach' = [coach EXCEPT !.index = @ + 1] /\ GoTo("begin")
      /\ UNCHANGED <<pending, sent, medals, retries, fell, overtaken, outcome>>
  BY DEF Advance
<1>3. /\ Running /\ Top.fn \in {"main", "zero"} /\ Top.at = "advance" /\ coach.live
      /\ Len(stack) \in Depths /\ stack[Len(stack)].at = "advance"
  BY <1>1, HoldsFacts DEF Is
<1>4. coach.index + 1 \in 0 .. Maps + 2
  <2>1. coach.index <= Maps + 1
    BY <1>3, RunningFacts DEF Indexed
  <2>2. TypeOK
    BY DEF IInv
  <2> QED BY <2>1, <2>2, CoachFacts, SheetAssumption
<1>5. "begin" \in Places /\ "begin" \in Sites[Top.fn]
  BY <1>3 DEF Places, Sites
<1>6. Moves(stack', "begin") /\ Kept(stack') => NextIndex("begin")
  BY <1>2, <1>3 DEF NextIndex
<1> QED BY <1>2, <1>3, <1>4, <1>5, <1>6, NextIndexInv

\* The end of a call.
LEMMA LeavesInv ==
  ASSUME IInv, Running, Pops(stack') => Leaves, Return, Top.fn # "main",
         coach' \in CoachType, UNCHANGED <<pending, sent, medals, retries, outcome>>,
         overtaken' \in BOOLEAN,
         Top.at # "test" => fell' = fell,
         Top.at = "test" => fell' = fell + 1 /\ coach.life <= 0,
         Top.at = "next" => coach.index = Maps
  PROVE  IInv'
<1>1. /\ TypeOK /\ Stacked /\ Delivered /\ Len(stack) > 0 /\ medals \subseteq 1 .. Maps
      /\ pending \subseteq Signals /\ outcome = "playing"
  BY RunningFacts
<1>2. Pops(stack') /\ stack' \in Seq(Frames)
  BY <1>1, ReturnPops
<1>3. Shape'
  BY <1>1, <1>2, PopsShape
<1>4. Allocated' /\ Connected' /\ Outdated' /\ Indexed' /\ LivesLeft'
  BY <1>2, LeavesKeep
<1>5. Earned'
  BY <1>2, EarnedLeaves
<1>6. fell' \in {fell, fell + 1}
  OBVIOUS
<1> QED BY <1>1, <1>2, <1>3, <1>4, <1>5, <1>6, Together

LEMMA EndInv == ASSUME IInv, End PROVE IInv'
<1>1. Running /\ Top.at = "end" /\ Return
      /\ UNCHANGED <<pending, sent, coach, medals, retries, fell, overtaken, outcome>>
  BY DEF End
<1>2. Top.fn # "main" /\ coach \in CoachType /\ overtaken \in BOOLEAN
  <2>1. Top.at \in Sites[Top.fn] /\ coach \in CoachType /\ overtaken \in BOOLEAN
    BY <1>1, RunningFacts
  <2>2. Sites["main"] = {"load", "advance", "begin", "check", "report"}
    BY DEF Sites
  <2> QED BY <1>1, <2>1, <2>2
<1>3. Pops(stack') => Leaves
  BY <1>1, <1>2 DEF Leaves
<1> QED BY <1>1, <1>2, <1>3, LeavesInv

LEMMA NextMapInv == ASSUME IInv, NextMap PROVE IInv'
<1>1. Holds("journey", "next") /\ coach' = [coach EXCEPT !.index = @ + 1]
      /\ UNCHANGED <<pending, sent, medals, retries, fell, overtaken, outcome>>
  BY DEF NextMap
<1>2. /\ Running /\ Top.fn = "journey" /\ Top.at = "next" /\ coach.live /\ Own(Len(stack))
      /\ Len(stack) \in Depths /\ stack[Len(stack)].fn = "journey"
      /\ coach \in CoachType /\ overtaken \in BOOLEAN
  BY <1>1, HoldsFacts, RunningFacts DEF Is
<1>3. coach.index \in 1 .. Maps
  BY <1>2, RunningFacts DEF Indexed
<1>4. coach.index + 1 \in 0 .. Maps + 2
  BY <1>3, SheetAssumption
<1>5. CASE coach.index < Maps
  <2>1. GoTo("connect")
    BY <1>5 DEF NextMap
  <2>2. "connect" \in Places /\ "connect" \in Sites[Top.fn]
    BY <1>2 DEF Places, Sites
  <2>3. Moves(stack', "connect") /\ Kept(stack') => NextIndex("connect")
    BY <1>1, <1>2, <1>5 DEF NextIndex
  <2> QED BY <1>1, <1>2, <1>4, <2>1, <2>2, <2>3, NextIndexInv
<1>6. CASE ~(coach.index < Maps)
  <2>1. Return
    BY <1>6 DEF NextMap
  <2>2. coach.index = Maps
    BY <1>3, <1>6, SheetAssumption
  <2>3. /\ coach'.id = coach.id /\ coach'.live = coach.live /\ coach'.life = coach.life
        /\ coach'.conn = coach.conn /\ coach'.index = Maps + 1 /\ coach' \in CoachType
    BY <1>1, <1>2, <1>4, <2>2 DEF CoachType
  <2>4. Pops(stack') => Leaves
    BY <1>1, <1>2, <2>3 DEF Leaves
  <2> QED BY <1>1, <1>2, <2>1, <2>2, <2>3, <2>4, LeavesInv
<1> QED BY <1>5, <1>6

LEMMA JourneyTestInv == ASSUME IInv, JourneyTest PROVE IInv'
<1>1. Holds("journey", "test") /\ UNCHANGED <<pending, sent, coach, medals, retries, outcome>>
  BY DEF JourneyTest
<1>2. /\ Running /\ Top.fn = "journey" /\ Top.at = "test" /\ coach.live /\ Own(Len(stack))
      /\ coach \in CoachType /\ overtaken \in BOOLEAN /\ medals \subseteq 1 .. Maps
  BY <1>1, HoldsFacts, RunningFacts
<1>3. CASE coach.life > 0
  <2>1. GoTo("connect") /\ UNCHANGED <<fell, overtaken>>
    BY <1>3 DEF JourneyTest
  <2>2. "connect" \in Places /\ "connect" \in Sites[Top.fn]
    BY <1>2 DEF Places, Sites
  <2> QED BY <1>1, <1>2, <1>3, <2>1, <2>2, WalksInv
<1>4. CASE ~(coach.life > 0)
  <2>1. Return /\ fell' = fell + 1
        /\ overtaken' = (overtaken \/ \E k \in Depths : stack[k].at \in {"advance", "begin"})
    BY <1>4 DEF JourneyTest, Fall, Depths
  <2>2. coach.life <= 0
    BY <1>2, <1>4 DEF CoachType
  <2>3. overtaken' \in BOOLEAN
    BY <2>1
  <2>4. Pops(stack') => Leaves
    BY <1>1, <1>2, <2>1 DEF Leaves
  <2> QED BY <1>1, <1>2, <2>1, <2>2, <2>3, <2>4, LeavesInv
<1> QED BY <1>3, <1>4

LEMMA ZeroDestroyInv == ASSUME IInv, ZeroDestroy PROVE IInv'
<1>1. /\ Holds("zero", "destroy") /\ retries' = retries + 1 /\ medals' = medals
      /\ coach' = [coach EXCEPT !.live = FALSE] /\ GoTo("load")
      /\ UNCHANGED <<pending, sent, fell, overtaken, outcome>>
  BY DEF ZeroDestroy, DeleteDir, MedallasEndsWithSlash
<1>2. /\ Running /\ Top.fn = "zero" /\ Top.at = "destroy" /\ coach.live
      /\ Is(Len(stack), "zero", {"destroy"})
  BY <1>1, HoldsFacts
<1>3. /\ TypeOK /\ Stacked /\ Delivered /\ Len(stack) > 0 /\ medals \subseteq 1 .. Maps
      /\ pending \subseteq Signals /\ coach \in CoachType /\ overtaken \in BOOLEAN /\ outcome = "playing"
  BY <1>2, RunningFacts
<1>4. "load" \in Places /\ "load" \in Sites[Top.fn]
  BY <1>2 DEF Places, Sites
<1>5. Moves(stack', "load") /\ Kept(stack') /\ stack' \in Seq(Frames)
  BY <1>1, <1>3, <1>4, GoToMoves
<1>6. /\ coach'.id = coach.id /\ coach'.life = coach.life /\ coach'.index = coach.index
      /\ coach' \in CoachType
  BY <1>1, <1>3 DEF CoachType
<1>7. Shape'
  BY <1>1, <1>3, <1>4, <1>5, MovesShape
<1>8. Allocated' /\ Connected' /\ Outdated' /\ Indexed' /\ LivesLeft'
  BY <1>1, <1>2, <1>5, DestroyKeeps
<1>9. Earned'
  <2>1. \A k \in Depths' : stack'[k].at = "store" =>
          k \in Depths /\ stack[k].at = "store" /\ Own(k)' = Own(k) /\ stack'[k].reg = stack[k].reg
    BY <1>3, <1>5, <1>6, MovesFacts DEF Own, Kept
  <2> QED BY <1>1, <1>2, <1>3, <1>5, <1>6, <2>1, EarnedMoves
<1> QED BY <1>1, <1>3, <1>5, <1>6, <1>7, <1>8, <1>9, Together

LEMMA LoadInv == ASSUME IInv, Load PROVE IInv'
<1>1. /\ Running /\ Top.at = "load" /\ Top.fn \in {"journey", "term", "gift"}
      /\ UNCHANGED <<pending, sent, coach, medals, retries, fell, overtaken, outcome>>
  BY DEF Load, Signals
<1>2. /\ TypeOK /\ Stacked /\ Delivered /\ Len(stack) > 0 /\ medals \subseteq 1 .. Maps
      /\ pending \subseteq Signals /\ coach \in CoachType /\ overtaken \in BOOLEAN /\ outcome = "playing"
      /\ Top \in Frames
  BY <1>1, RunningFacts
<1>3. /\ Allocated' /\ Connected' /\ Outdated' /\ Indexed' /\ LivesLeft'
      /\ Moves(stack', "store") /\ stack' \in Seq(Frames)
  BY LoadKeeps
<1>4. "store" \in Sites[Top.fn]
  BY <1>1 DEF Sites
<1>5. Shape'
  BY <1>1, <1>2, <1>3, <1>4, MovesShape
<1>6. Earned'
  <2>1. stack'[Len(stack)].reg = coach.life
    <3>1. Top = stack[Len(stack)] /\ Len(stack) \in DOMAIN stack /\ stack \in Seq(Frames)
      BY <1>2, StackFacts DEF Depths
    <3>2. stack' = [stack EXCEPT ![Len(stack)] =
                      [stack[Len(stack)] EXCEPT !.at = "store", !.id = coach.id, !.reg = coach.life]]
      BY DEF Load
    <3>3. stack'[Len(stack)] = [stack[Len(stack)] EXCEPT !.at = "store", !.id = coach.id, !.reg = coach.life]
      BY <3>1, <3>2
    <3> QED BY <1>2, <3>1, <3>3 DEF Frames
  <2>2. \A k \in Depths' : k \in Depths /\ (k # Len(stack) => stack'[k] = stack[k])
    BY <1>2, <1>3, MovesFacts
  <2>3. \A k \in Depths' : k # Len(stack) /\ Own(k)' => Own(k)
    BY <1>1, <2>2 DEF Own
  <2> QED BY <1>1, <1>2, <1>3, <2>1, <2>2, <2>3, EarnedMoves
<1> QED BY <1>1, <1>2, <1>3, <1>5, <1>6, Together

LEMMA StoreInv == ASSUME IInv, Store PROVE IInv'
<1> DEFINE n == Len(stack)
           at == IF Top.fn = "gift" THEN "end" ELSE "test"
<1>1. /\ Running /\ Top.at = "store" /\ ~Dangling
      /\ UNCHANGED <<pending, sent, medals, retries, fell, overtaken, outcome>>
      /\ coach' = [coach EXCEPT !.life = Top.reg + (IF Top.fn = "gift" THEN 1 ELSE -1)]
  BY DEF Store
<1>2. /\ TypeOK /\ Stacked /\ Delivered /\ Len(stack) > 0 /\ medals \subseteq 1 .. Maps
      /\ pending \subseteq Signals /\ coach \in CoachType /\ overtaken \in BOOLEAN /\ outcome = "playing"
      /\ Top \in Frames /\ Top = stack[n] /\ n \in Depths
  BY <1>1, RunningFacts, ShapeFacts
<1>3. /\ Allocated' /\ Connected' /\ Outdated' /\ Indexed' /\ LivesLeft'
      /\ Moves(stack', at) /\ stack' \in Seq(Frames)
  BY StoreKeeps
<1>4. Top.fn \in {"journey", "term", "gift"} /\ Top.reg \in Int
  <2>1. Top.fn \in {"journey", "term", "gift"}
    BY <1>1, <1>2, Places_
  <2> QED BY <1>2, <2>1 DEF Frames
<1>5. at \in Sites[Top.fn] /\ at \in {"end", "test"}
  BY <1>4 DEF Sites
<1>6. /\ coach' \in CoachType /\ coach'.id = coach.id /\ coach'.index = coach.index
      /\ Top.fn # "gift" => coach'.life = Top.reg - 1
  <2>1. PICK l \in Int : l = Top.reg + (IF Top.fn = "gift" THEN 1 ELSE -1) /\ (Top.fn # "gift" => l = Top.reg - 1)
    BY <1>4
  <2>2. coach' = [coach EXCEPT !.life = l]
    BY <1>1, <2>1
  <2> QED BY <1>2, <2>1, <2>2 DEF CoachType
<1>7. Shape'
  BY <1>1, <1>2, <1>3, <1>5, MovesShape
<1>8. Earned'
  <2>1. FellOnce => Top.fn # "gift"
    <3> SUFFICES ASSUME FellOnce, Top.fn = "gift"
                 PROVE  FALSE
      OBVIOUS
    <3>1. sent["gift"] > 0
      BY <1>2 DEF Delivered, Signals
    <3> QED BY <3>1 DEF FellOnce
  <2>2. Own(n)
    BY <1>1, <1>2 DEF Dangling, Own
  <2>3. \A k \in Depths' : k \in Depths /\ (k # n => stack'[k] = stack[k]) /\ stack'[n].at = at
    BY <1>2, <1>3, MovesFacts
  <2>4. \A k \in Depths' : k # n /\ Own(k)' => Own(k)
    BY <1>6, <2>3 DEF Own
  <2>5. FellOnce /\ (\A k \in Depths : stack[k].at = "store" /\ Own(k) => stack[k].reg <= 0)
          => coach'.life <= 0
    BY <1>1, <1>2, <1>4, <1>6, <2>1, <2>2
  <2>6. (\A k \in Depths : stack[k].at = "store" /\ Own(k) => stack[k].reg <= 0)
          => \A k \in Depths' : stack'[k].at = "store" /\ Own(k)' => stack'[k].reg <= 0
    BY <1>5, <2>3, <2>4
  <2> HIDE DEF at
  <2> QED BY <1>1, <1>2, <1>3, <1>4, <1>5, <1>6, <2>5, <2>6, EarnedMoves
<1> QED BY <1>1, <1>2, <1>3, <1>6, <1>7, <1>8, Together

LEMMA DeliverInv == ASSUME IInv, NEW s \in Signals, Deliver(s) PROVE IInv'
<1> DEFINE f == [fn |-> s, at |-> "load", id |-> coach.id, reg |-> 0]
<1>1. /\ outcome = "playing" /\ s \in pending /\ ~Masked(s) /\ pending' = pending \ {s}
      /\ stack' = Append(stack, f)
      /\ UNCHANGED <<sent, coach, medals, retries, fell, overtaken, outcome>>
  BY DEF Deliver, Frame
<1>2. /\ TypeOK /\ Stacked /\ Delivered /\ pending \subseteq Signals /\ medals \subseteq 1 .. Maps
      /\ overtaken \in BOOLEAN
  BY DEF IInv, TypeOK
<1>3. coach \in CoachType /\ coach.id \in 0 .. retries + 1
  BY <1>2, CoachFacts DEF CoachType
<1>4. f \in Frames
  <2>1. PICK z \in Int : z = 0
    OBVIOUS
  <2>2. s \in Functions /\ "load" \in Places
    BY DEF Functions, Places
  <2>3. [fn |-> s, at |-> "load", id |-> coach.id, reg |-> z] \in Frames
    BY <1>3, <2>2 DEF Frames
  <2> QED BY <2>1, <2>3
<1>5. f.fn = s /\ f.at = "load" /\ f.id = coach.id
  OBVIOUS
<1> HIDE DEF f
<1>6. stack \in Seq(Frames) /\ Len(stack) \in Nat \ {0} /\ Depths = 1 .. Len(stack) /\ Top = stack[Len(stack)]
  BY <1>2, StackFacts, ShapeFacts
<1>7. Pushes(stack', Top.at, f) /\ stack' \in Seq(Frames)
  <2>1. stack' \in Seq(Frames) /\ Len(stack') = Len(stack) + 1 /\ DOMAIN stack' = 1 .. Len(stack) + 1
    BY <1>1, <1>4, <1>6
  <2>2. (\A k \in Depths : stack'[k] = stack[k]) /\ stack'[Len(stack) + 1] = f
    BY <1>1, <1>4, <1>6
  <2> QED BY <1>6, <2>1, <2>2 DEF Pushes, Kept
<1>8. Enters(Top.at, f)
  BY <1>1, <1>4, <1>5, <1>7 DEF Enters
<1>9. Shape'
  <2>1. f.at \in Sites[f.fn] /\ f.fn \in Signals /\ f.fn \notin {"main", "journey", "zero"}
    BY <1>5 DEF Sites, Signals
  <2>2. Top.at \in Sites[Top.fn]
    BY <1>2, <1>6, ShapeFacts
  <2> QED BY <1>1, <1>2, <1>4, <1>5, <1>7, <2>1, <2>2, PushesShape
<1>10. Allocated' /\ Connected' /\ Outdated' /\ Indexed' /\ LivesLeft'
  BY <1>8, EntersKeep
<1>11. Earned'
  <2>1. f.fn # "zero"
    BY <1>5 DEF Signals
  <2> QED BY <1>1, <1>8, <2>1, EarnedEnters
<1> QED BY <1>1, <1>2, <1>3, <1>7, <1>9, <1>10, <1>11, Together

LEMMA KillInv == ASSUME IInv, NEW s \in Signals, Kill(s) PROVE IInv'
<1>1. /\ outcome = "playing" /\ sent[s] < Limit(s)
      /\ sent' = [sent EXCEPT ![s] = @ + 1] /\ pending' = pending \cup {s}
      /\ UNCHANGED <<stack, coach, medals, retries, fell, overtaken, outcome>>
  BY DEF Kill
<1>2. sent \in [Signals -> Nat] /\ (\A r \in Signals : sent[r] <= Limit(r)) /\ pending \subseteq Signals
  BY DEF IInv, TypeOK
<1>3. /\ sent' \in [Signals -> Nat]
      /\ \A r \in Signals : sent[r] <= sent'[r] /\ sent'[r] = IF r = s THEN sent[r] + 1 ELSE sent[r]
  BY <1>1, <1>2
<1>4. \A r \in Signals : sent'[r] <= Limit(r)
  <2>1. Limit(s) \in Nat
    BY SheetAssumption DEF Limit
  <2>2. sent[s] + 1 <= Limit(s)
    BY <1>1, <1>2, <2>1
  <2> QED BY <1>2, <1>3, <2>2
<1>5. TypeOK'
  <2>1. TypeOK
    BY DEF IInv
  <2> QED BY <1>1, <1>2, <1>3, <1>4, <2>1 DEF TypeOK
<1>6. Stacked' /\ Allocated'
  BY <1>1 DEF IInv, Stacked, Depths, Is, Allocated, Unloaded
<1>7. Delivered'
  <2>1. \A r \in Signals : r \in pending' \/ (\E k \in Depths : stack[k].fn = r) => sent'[r] > 0
    <3> SUFFICES ASSUME NEW r \in Signals, r \in pending' \/ \E k \in Depths : stack[k].fn = r
                 PROVE  sent'[r] > 0
      OBVIOUS
    <3>1. r = s \/ sent[r] > 0
      BY <1>1 DEF IInv, Delivered
    <3> QED BY <1>2, <1>3, <3>1
  <2> QED BY <1>1, <2>1 DEF Delivered, Depths
<1>8. Connected' /\ Outdated'
  BY <1>1 DEF IInv, Connected, Outdated, Depths, Is, Own, Retrying
<1>9. Indexed' /\ LivesLeft'
  BY <1>1 DEF IInv, Indexed, LivesLeft, Depths, Is, Own, Counts, Excused, Retrying
<1>10. Earned'
  <2>1. FellOnce' => FellOnce
    <3>1. sent["gift"] \in Nat /\ sent["gift"] <= sent'["gift"] /\ sent'["gift"] \in Nat
      BY <1>2, <1>3 DEF Signals
    <3> QED BY <1>1, <3>1 DEF FellOnce
  <2>2. Clean' => Clean
    BY <1>1, <2>1 DEF Clean
  <2>3. (InRetry' = InRetry) /\ (Full' = Full) /\ (Covered' = Covered) /\ (Stale' = Stale)
        /\ (\A k : (Past(k)' = Past(k)) /\ (Own(k)' = Own(k))) /\ Depths' = Depths
    BY <1>1 DEF InRetry, Full, Covered, Stale, Past, Over, Depths, Is, Own, Retrying
  <2>4. Earned
    BY DEF IInv
  <2> QED BY <1>1, <2>1, <2>2, <2>3, <2>4 DEF Earned
<1>11. MaestroHasAllMedals' /\ OnlyRetriesBreak'
  BY <1>1 DEF MaestroHasAllMedals, OnlyRetriesBreak
<1> QED BY <1>5, <1>6, <1>7, <1>8, <1>9, <1>10, <1>11 DEF IInv

LEMMA InitInv == ASSUME Init PROVE IInv
<1> DEFINE f == [fn |-> "main", at |-> "load", id |-> 0, reg |-> 0]
<1>1. /\ coach = [id |-> 0, live |-> FALSE, life |-> 0, index |-> 0, conn |-> "none"]
      /\ stack = <<f>> /\ pending = {} /\ sent = [s \in Signals |-> 0]
      /\ medals = {} /\ retries = 0 /\ fell = 0 /\ overtaken = FALSE /\ outcome = "playing"
  BY DEF Init, Frame
<1>2. f \in Frames
  <2>1. PICK z \in 0 .. retries + 1 : z = 0
    BY <1>1
  <2>2. "main" \in Functions /\ "load" \in Places
    BY DEF Functions, Places
  <2>3. [fn |-> "main", at |-> "load", id |-> z, reg |-> z] \in Frames
    BY <2>2 DEF Frames
  <2> QED BY <2>1, <2>3
<1>3. f.fn = "main" /\ f.at = "load" /\ f.id = 0 /\ f.reg = 0
  OBVIOUS
<1> HIDE DEF f
<1>4. /\ stack \in Seq(Frames) /\ Len(stack) = 1 /\ stack[1] = f /\ Depths = {1}
  BY <1>1, <1>2 DEF Depths
<1>5. coach.id = 0 /\ coach.live = FALSE /\ coach.life = 0 /\ coach.index = 0 /\ coach.conn = "none"
  BY <1>1
<1>6. TypeOK
  <2>1. PICK z \in 0 .. retries + 1 : z = 0 /\ z \in 0 .. Maps + 2 /\ z \in Int
    BY <1>1, SheetAssumption
  <2>2. [id |-> z, live |-> FALSE, life |-> z, index |-> z, conn |-> "none"] \in
          [id : 0 .. retries + 1, live : BOOLEAN, life : Int, index : 0 .. Maps + 2,
           conn : {"none", "open", "closed"}]
    BY <2>1
  <2>3. coach \in [id : 0 .. retries + 1, live : BOOLEAN, life : Int, index : 0 .. Maps + 2,
                   conn : {"none", "open", "closed"}]
    BY <1>1, <2>1, <2>2
  <2>4. sent \in [Signals -> Nat] /\ \A s \in Signals : sent[s] <= Limit(s)
    BY <1>1, SheetAssumption DEF Limit
  <2>5. \A i, j \in DOMAIN stack :
          i < j /\ stack[i].fn = stack[j].fn => stack[i].fn \in {"journey", "zero"}
    BY <1>4 DEF Depths
  <2>6. retries \in Nat /\ fell \in Nat /\ overtaken \in BOOLEAN /\ medals \subseteq 1 .. Maps
        /\ pending \subseteq Signals
    BY <1>1
  <2> QED BY <1>1, <1>4, <2>3, <2>4, <2>5, <2>6 DEF TypeOK, Frames, Functions, Places
<1>7. Stacked /\ Delivered
  <2>1. f.at \in Sites[f.fn]
    BY <1>3 DEF Sites
  <2> QED BY <1>1, <1>3, <1>4, <2>1 DEF Stacked, Delivered, Signals
<1>8. Allocated /\ Connected /\ Outdated
  BY <1>1, <1>3, <1>4, <1>5 DEF Allocated, Connected, Outdated, Is, Unloaded
<1>9. Indexed /\ LivesLeft
  BY <1>3, <1>4 DEF Indexed, LivesLeft, Is, Counts
<1>10. Earned
  <2>1. Covered
    BY <1>5 DEF Covered
  <2> QED BY <1>1, <1>3, <1>4, <2>1 DEF Earned, Past, Is, FellOnce
<1> QED BY <1>1, <1>6, <1>7, <1>8, <1>9, <1>10 DEF IInv, MaestroHasAllMedals, OnlyRetriesBreak

LEMMA NextInv == ASSUME IInv, [Next]_vars PROVE IInv'
<1>1. CASE Step
  <2>1. CASE MainLoad \/ MainCheck \/ MainReport \/ Advance \/ Begin
    BY <2>1, MainLoadInv, MainCheckInv, MainReportInv, AdvanceInv, BeginInv
  <2>2. CASE Connect \/ Complete \/ Victim \/ MapGone \/ LeaveWon \/ LeaveLost
    BY <2>2, ConnectInv, CompleteInv, VictimInv, MapGoneInv, LeaveWonInv, LeaveLostInv
  <2>3. CASE NextMap \/ JourneyTest \/ Load \/ Store \/ HandlerTest
    BY <2>3, NextMapInv, JourneyTestInv, LoadInv, StoreInv, HandlerTestInv
  <2>4. CASE ZeroDisconnect \/ ZeroDestroy \/ ZeroLoad \/ End \/ UseAfterFree
    BY <2>4, ZeroDisconnectInv, ZeroDestroyInv, ZeroLoadInv, EndInv, UseAfterFreeInv
  <2>5. CASE \E s \in Signals : Deliver(s)
    BY <2>5, DeliverInv
  <2> QED BY <1>1, <2>1, <2>2, <2>3, <2>4, <2>5 DEF Step
<1>2. CASE GameOver
  BY <1>2, GameOverInv
<1>3. CASE \E s \in Signals : Kill(s)
  BY <1>3, KillInv
<1>4. CASE UNCHANGED vars
  <2>1. outcome' = outcome /\ outcome \in {"playing", "maestro", "exited", "broken"}
        /\ UNCHANGED <<stack, pending, sent, coach, medals, retries, fell, overtaken>>
    BY <1>4 DEF vars, IInv, TypeOK
  <2>2. MaestroHasAllMedals' /\ OnlyRetriesBreak'
    BY <2>1 DEF IInv, MaestroHasAllMedals, OnlyRetriesBreak
  <2> QED BY <2>1, <2>2, EndsInv
<1> QED BY <1>1, <1>2, <1>3, <1>4 DEF Next

-----------------------------------------------------------------------------
(* The invariant is inductive. *)
THEOREM InvariantHolds == Spec => []IInv
<1>1. Init => IInv
  BY InitInv
<1>2. IInv /\ [Next]_vars => IInv'
  BY NextInv
<1> QED BY <1>1, <1>2, PTL DEF Spec

(* The frames, the signals and the coach have their types, whatever signals *)
(* interrupt the trainer, and no handler interrupts itself (main.c:166).    *)
THEOREM TrainerTypes == Spec => []TypeOK
<1>1. IInv => TypeOK
  BY DEF IInv
<1> QED BY <1>1, InvariantHolds, PTL

(* Before a retry, and once the metadata is loaded, no freed coach and no   *)
(* connection that is not open is used (zero_lives, main.c:79).             *)
THEOREM BreaksOnlyByRetries == Spec => []OnlyRetriesBreak
<1>1. IInv => OnlyRetriesBreak
  BY DEF IInv
<1> QED BY <1>1, InvariantHolds, PTL

(* The trainer plays with a life left, but where a handler's retry overtook *)
(* a load: the tests of main.c:146 and 45 and the retries cover every order *)
(* of losses, gifts and lost updates.                                       *)
THEOREM PlaysWithLives == Spec => []PlaysAlive
<1>1. ASSUME IInv
      PROVE  PlaysAlive
  <2> SUFFICES ASSUME Top.fn = "journey", ~Dangling, ~overtaken,
                      Top.at \in {"connect", "play", "won", "lost", "next"}
               PROVE  coach.life > 0
    BY DEF PlaysAlive
  <2>1. TypeOK /\ Stacked /\ LivesLeft
    BY <1>1 DEF IInv
  <2>2. Top = stack[Len(stack)] /\ Len(stack) \in Depths /\ Len(stack) \in Nat
    BY <2>1, ShapeFacts
  <2>3. Counts(Len(stack))
    BY <2>2 DEF Counts, Dangling, Own
  <2>4. ~Excused(Len(stack), Len(stack))
    <3>1. Depths = 1 .. Len(stack)
      BY <2>1, ShapeFacts
    <3> QED BY <2>2, <3>1 DEF Excused
  <2> QED BY <2>1, <2>2, <2>3, <2>4 DEF LivesLeft
<1> QED BY <1>1, InvariantHolds, PTL

(* Who is reported a Maestro (main.c:206) has the medal of every map, but   *)
(* if two journeys ran out of lives, or one did and a gift was sent.        *)
THEOREM MaestrosHaveMedals == Spec => []MaestroHasAllMedals
<1>1. IInv => MaestroHasAllMedals
  BY DEF IInv
<1> QED BY <1>1, InvariantHolds, PTL

=============================================================================
