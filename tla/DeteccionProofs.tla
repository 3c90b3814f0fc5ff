--------------------------- MODULE DeteccionProofs ---------------------------
(***************************************************************************)
(* Proofs about DeteccionDeadlock, for any trainers, sessions, objectives, *)
(* PokeNests and pokemons, and any word after the matrices.                *)
(***************************************************************************)
EXTENDS DeteccionDeadlock, ListFacts

(* Lists *)

LEMMA OnList ==
  ASSUME NEW S, NEW list \in Seq(S)
  PROVE  /\ Range(list) \subseteq S
         /\ \A x : x \in Range(list) <=> Contains(list, x)
BY DEF Range, Contains

LEMMA AppendRange ==
  ASSUME NEW S, NEW list \in Seq(S), NEW e \in S
  PROVE  /\ Append(list, e) \in Seq(S) /\ Range(Append(list, e)) = Range(list) \cup {e}
         /\ IsInjective(list) /\ e \notin Range(list) => IsInjective(Append(list, e))
<1>1. /\ Append(list, e) \in Seq(S)
      /\ \A x : Contains(Append(list, e), x) <=> Contains(list, x) \/ x = e
      /\ IsInjective(list) /\ ~Contains(list, e) => IsInjective(Append(list, e))
  BY AppendFacts
<1> DEFINE l == Append(list, e)
<1> HIDE DEF l
<1>2. \A x : x \in Range(l) <=> Contains(l, x)
  BY <1>1, OnList DEF l
<1>3. \A x : x \in Range(list) <=> Contains(list, x)
  BY OnList
<1>4. Range(l) = Range(list) \cup {e}
  BY <1>1, <1>2, <1>3 DEF l
<1> QED BY <1>1, <1>3, <1>4 DEF l

LEMMA RemoveAtRange ==
  ASSUME NEW S, NEW list \in Seq(S), IsInjective(list), NEW i \in 1 .. Len(list)
  PROVE  /\ RemoveAt(list, i) \in Seq(S) /\ IsInjective(RemoveAt(list, i))
         /\ Range(RemoveAt(list, i)) = Range(list) \ {list[i]}
BY TakenOff, OnList

LEMMA TailRange ==
  ASSUME NEW S, NEW list \in Seq(S), list # <<>>
  PROVE  /\ Tail(list) \in Seq(S) /\ Head(list) \in S
         /\ Range(list) = Range(Tail(list)) \cup {Head(list)}
         /\ IsInjective(list) => IsInjective(Tail(list)) /\ Head(list) \notin Range(Tail(list))
<1> DEFINE l == Tail(list)
           n == Len(list)
<1>1. Head(list) \in S /\ l \in Seq(S) /\ DOMAIN l = 1 .. n - 1 /\ DOMAIN list = 1 .. n
      /\ list[1] = Head(list) /\ n >= 1 /\ n \in Nat
      /\ \A j \in 1 .. n - 1 : l[j] = list[j + 1]
  OBVIOUS
<1> HIDE DEF l, n
<1>2. ASSUME NEW x PROVE x \in Range(list) <=> x \in Range(l) \/ x = Head(list)
  <2>1. ASSUME NEW i \in 1 .. n, i # 1 PROVE list[i] \in Range(l)
    <3>1. i - 1 \in 1 .. n - 1 /\ i = (i - 1) + 1
      BY <1>1, <2>1
    <3>2. list[i] = l[i - 1]
      BY <1>1, <3>1
    <3> QED BY <1>1, <3>1, <3>2 DEF Range
  <2>2. ASSUME NEW i \in 1 .. n - 1 PROVE l[i] \in Range(list)
    <3>1. i + 1 \in 1 .. n /\ l[i] = list[i + 1]
      BY <1>1
    <3> QED BY <1>1, <3>1 DEF Range
  <2>3. 1 \in 1 .. n
    BY <1>1
  <2> QED BY <1>1, <2>1, <2>2, <2>3 DEF Range
<1>3. IsInjective(list) => IsInjective(Tail(list)) /\ Head(list) \notin Range(Tail(list))
  BY TailFacts, OnList, <1>1 DEF l
<1> QED BY <1>1, <1>2, <1>3 DEF l

LEMMA RemoveFirstRange ==
  ASSUME NEW S, NEW list \in Seq(S), IsInjective(list), NEW x
  PROVE  /\ RemoveFirst(list, x) \in Seq(S) /\ IsInjective(RemoveFirst(list, x))
         /\ Range(RemoveFirst(list, x)) = Range(list) \ {x}
<1>1. CASE ~Contains(list, x)
  BY <1>1, RemoveFirstFacts, OnList
<1>2. CASE Contains(list, x)
  <2>1. PICK i \in 1 .. Len(list) : list[i] = x /\ RemoveFirst(list, x) = RemoveAt(list, i)
    BY <1>2, RemoveFirstFacts
  <2> QED BY <2>1, RemoveAtRange
<1> QED BY <1>1, <1>2

-----------------------------------------------------------------------------
(* Messages *)

LEMMA ToTrainerKinds ==
  ASSUME NEW m \in ToTrainer
  PROVE  /\ m[1] \in {"pokemon", "ubicacion", "batalla", "gano", "perdio", "victima"}
         /\ m[1] = "pokemon" => m[2] \in Pokemons
BY DEF ToTrainer

LEMMA ToMapKinds ==
  ASSUME NEW m \in ToMap
  PROVE  /\ m[1] \in {"pokemon", "ubicar", "atrapar"}
         /\ m[1] \in {"ubicar", "atrapar"} => m[2] \in Nests
         /\ m[1] = "pokemon" => m[2] \in DOMAIN Level
BY DEF ToMap

LEMMA NoMessage ==
  ASSUME NEW kind, NEW X
  PROVE  ~Has(<<>>, kind) /\ Once(<<>>, kind) /\ Given(<<>>, X)
BY DEF Has, Once, Given

LEMMA HasAppend ==
  ASSUME NEW M, NEW q \in Seq(M), NEW m \in M
  PROVE  /\ Append(q, m) \in Seq(M) /\ Append(q, m) # <<>>
         /\ \A kind : Has(Append(q, m), kind) <=> Has(q, kind) \/ m[1] = kind
         /\ \A kind : Once(q, kind) /\ ~(Has(q, kind) /\ m[1] = kind) => Once(Append(q, m), kind)
         /\ \A X : Given(q, X) /\ (m[1] = "pokemon" => m[2] \in X) => Given(Append(q, m), X)
<1> DEFINE l == Append(q, m)
           n == Len(q)
<1>1. /\ n \in Nat /\ DOMAIN q = 1 .. n /\ DOMAIN l = 1 .. n + 1 /\ l \in Seq(M) /\ l # <<>>
      /\ \A i \in 1 .. n : l[i] = q[i]
      /\ l[n + 1] = m
  OBVIOUS
<1> HIDE DEF l, n
<1>2. \A i \in 1 .. n + 1 : i \in 1 .. n \/ i = n + 1
  BY <1>1
<1>5. n + 1 \in 1 .. n + 1 /\ \A i \in 1 .. n : i \in 1 .. n + 1
  BY <1>1
<1>3. \A kind : Has(l, kind) <=> Has(q, kind) \/ m[1] = kind
  BY <1>1, <1>2, <1>5 DEF Has
<1>4. ASSUME NEW kind, Once(q, kind), ~(Has(q, kind) /\ m[1] = kind) PROVE Once(l, kind)
  BY <1>1, <1>2, <1>4 DEF Has, Once
<1>6. ASSUME NEW X, Given(q, X), m[1] = "pokemon" => m[2] \in X PROVE Given(l, X)
  BY <1>1, <1>2, <1>6 DEF Given
<1> QED BY <1>1, <1>3, <1>4, <1>6 DEF l

LEMMA HasTail ==
  ASSUME NEW M, NEW q \in Seq(M), q # <<>>
  PROVE  /\ Tail(q) \in Seq(M) /\ Head(q) \in M
         /\ \A kind : Has(q, kind) <=> Has(Tail(q), kind) \/ Head(q)[1] = kind
         /\ \A kind : Once(q, kind) => Once(Tail(q), kind)
         /\ \A kind : Once(q, kind) /\ Head(q)[1] = kind => ~Has(Tail(q), kind)
         /\ \A X : Given(q, X) => Given(Tail(q), X) /\ (Head(q)[1] = "pokemon" => Head(q)[2] \in X)
<1> DEFINE l == Tail(q)
           h == Head(q)
           n == Len(q)
<1>1. /\ n \in Nat /\ n >= 1 /\ DOMAIN q = 1 .. n /\ DOMAIN l = 1 .. n - 1 /\ l \in Seq(M)
      /\ \A i \in 1 .. n - 1 : l[i] = q[i + 1]
      /\ q[1] = h /\ h \in M
  OBVIOUS
<1> HIDE DEF l, h, n
<1>2. /\ 1 \in 1 .. n
      /\ \A i \in 1 .. n : i = 1 \/ i - 1 \in 1 .. n - 1
      /\ \A i \in 1 .. n - 1 : i + 1 \in 1 .. n /\ i + 1 # 1
      /\ \A i \in 1 .. n : i = (i - 1) + 1
  BY <1>1
<1>3. ASSUME NEW i \in 1 .. n PROVE q[i] = h \/ \E j \in 1 .. n - 1 : l[j] = q[i]
  <2>1. CASE i = 1
    BY <1>1, <2>1
  <2>2. CASE i - 1 \in 1 .. n - 1
    <3>1. l[i - 1] = q[(i - 1) + 1]
      BY <1>1, <2>2
    <3> QED BY <1>2, <2>2, <3>1
  <2> QED BY <1>2, <2>1, <2>2
<1>4. ASSUME NEW kind PROVE Has(q, kind) <=> Has(l, kind) \/ h[1] = kind
  <2>1. Has(q, kind) => Has(l, kind) \/ h[1] = kind
    BY <1>1, <1>3 DEF Has
  <2>2. Has(l, kind) => Has(q, kind)
    BY <1>1, <1>2 DEF Has
  <2>3. h[1] = kind => Has(q, kind)
    BY <1>1, <1>2 DEF Has
  <2> QED BY <2>1, <2>2, <2>3
<1>5. ASSUME NEW kind, Once(q, kind) PROVE Once(l, kind) /\ (h[1] = kind => ~Has(l, kind))
  <2>1. ASSUME NEW i \in 1 .. n - 1, NEW j \in 1 .. n - 1, l[i][1] = kind, l[j][1] = kind PROVE i = j
    <3>1. /\ i + 1 \in DOMAIN q /\ j + 1 \in DOMAIN q
          /\ q[i + 1][1] = kind /\ q[j + 1][1] = kind
      BY <1>1, <1>2, <2>1
    <3>2. i + 1 = j + 1
      BY <1>5, <3>1 DEF Once
    <3> QED BY <3>2
  <2>2. ASSUME h[1] = kind, NEW i \in 1 .. n - 1, l[i][1] = kind PROVE FALSE
    <3>1. i + 1 = 1
      BY <1>1, <1>2, <1>5, <2>2 DEF Once
    <3> QED BY <1>2, <3>1
  <2> QED BY <1>1, <2>1, <2>2 DEF Once, Has
<1>6. ASSUME NEW X, Given(q, X) PROVE Given(l, X) /\ (h[1] = "pokemon" => h[2] \in X)
  BY <1>1, <1>2, <1>6 DEF Given
<1> QED BY <1>1, <1>4, <1>5, <1>6 DEF l, h

LEMMA GivenMore ==
  ASSUME NEW q, NEW X, NEW Y, Given(q, X), X \subseteq Y
  PROVE  Given(q, Y)
BY DEF Given

-----------------------------------------------------------------------------
(* Constants *)

LEMMA Constants ==
  /\ Trainers = Range(Owner) /\ \A s \in Sessions : Owner[s] \in Trainers
  /\ \A s \in Sessions : Goals[Owner[s]] \in Seq(Nests) \ {<<>>}
  /\ \A s \in Sessions : NextSession[s] \in Sessions \cup {NONE}
  /\ \A s, r \in Sessions : NextSession[s] = r =>
       Owner[r] = Owner[s] /\ r # s /\ \A q \in Sessions : NextSession[q] = r => q = s
  /\ Nest \in [Pokemons -> Nests] /\ Pokemons \subseteq DOMAIN Level
  /\ \A t \in Trainers : Previous[t] \in DOMAIN Level \cup {NONE}
  /\ NONE \notin Sessions /\ NONE \notin Nests /\ NONE \notin Pokemons
<1>1. \A s \in Sessions : Owner[s] \in Trainers
  BY DeteccionAssumption DEF Trainers, Range
<1>2. \A t \in Trainers : Goals[t] \in Seq(Nests) \ {<<>>} /\ Previous[t] \in DOMAIN Level \cup {NONE}
  BY DeteccionAssumption
<1>3. \A s, r \in Sessions : NextSession[s] = r =>
        Owner[r] = Owner[s] /\ r # s /\ \A q \in Sessions : NextSession[q] = r => q = s
  BY DeteccionAssumption
<1> QED BY <1>1, <1>2, <1>3, DeteccionAssumption DEF Trainers

-----------------------------------------------------------------------------
(* liberarRecursos2 *)

Books == [bloqueados : Seq(Sessions), listos : SUBSET Sessions,
          buscada : [Sessions -> Nests \cup {NONE}], pokemons : [Sessions -> Seq(Pokemons)],
          libres : [Nests -> SUBSET Pokemons], in : [Sessions -> Seq(ToTrainer)],
          master : SUBSET Sessions]

Served(a, B) == Range(B) \ Range(a.bloqueados)

\* What its loop has done so far, from a list B of blocked trainers: those it took
\* off that list have been given one pokemon each, and are ready.
Follows(a, s, B) ==
  /\ a \in Books
  /\ IsInjective(a.bloqueados) /\ Range(a.bloqueados) \subseteq Range(B)
  /\ a.listos = colaListos \cup Served(a, B)
  /\ a.master = master \ Served(a, B)
  /\ a.pokemons[s] = <<>>
  /\ \A r \in Sessions : r \notin Served(a, B) =>
       a.buscada[r] = buscada[r] /\ a.in[r] = in[r] /\ (r # s => a.pokemons[r] = pokemons[r])
  /\ \A r \in Served(a, B) :
       /\ a.buscada[r] = NONE
       /\ \E p \in Pokemons : /\ a.pokemons[r] = Append(pokemons[r], p)
                              /\ a.in[r] = IF Gone(r) THEN in[r] ELSE Append(in[r], Msg("pokemon", p))

LEMMA GiveOutFollows ==
  ASSUME TypeOK, NEW s \in Sessions, NEW B \in Seq(Sessions), s \notin Range(B),
         NEW a, Follows(a, s, B), NEW p \in Pokemons
  PROVE  /\ Follows(GiveOut(a, p), s, B)
         /\ Served(a, B) \subseteq Served(GiveOut(a, p), B)
         /\ \A r \in Range(a.bloqueados) : a.buscada[r] = Nest[p] => Served(GiveOut(a, p), B) # {}
<1> DEFINE waiting == {k \in DOMAIN a.bloqueados : a.buscada[a.bloqueados[k]] = Nest[p]}
           w == GiveOut(a, p)
<1>1. /\ a.bloqueados \in Seq(Sessions) /\ a.listos \in SUBSET Sessions
      /\ a.buscada \in [Sessions -> Nests \cup {NONE}] /\ a.pokemons \in [Sessions -> Seq(Pokemons)]
      /\ a.libres \in [Nests -> SUBSET Pokemons] /\ a.in \in [Sessions -> Seq(ToTrainer)]
      /\ a.master \in SUBSET Sessions /\ a \in Books
  BY DEF Follows, Books
<1>2. Nest[p] \in Nests
  BY Constants
<1>3. CASE waiting = {}
  <2>1. w = [a EXCEPT !.libres[Nest[p]] = @ \cup {p}]
    BY <1>3 DEF GiveOut
  <2>2. /\ w \in Books /\ w.bloqueados = a.bloqueados /\ w.listos = a.listos /\ w.buscada = a.buscada
        /\ w.pokemons = a.pokemons /\ w.in = a.in /\ w.master = a.master
    <3>1. [a.libres EXCEPT ![Nest[p]] = @ \cup {p}] \in [Nests -> SUBSET Pokemons]
      BY <1>1, <1>2
    <3>2. w = [a EXCEPT !.libres = [a.libres EXCEPT ![Nest[p]] = @ \cup {p}]]
      BY <2>1, <1>1 DEF Books
    <3> DEFINE L == [a.libres EXCEPT ![Nest[p]] = @ \cup {p}]
    <3> HIDE DEF L, w
    <3> QED BY <1>1, <3>1, <3>2 DEF Books
  <2>3. Served(w, B) = Served(a, B)
    BY <2>2 DEF Served
  <2>4. \A r \in Range(a.bloqueados) : a.buscada[r] # Nest[p]
    BY <1>1, <1>3 DEF Range
  <2> HIDE DEF w, waiting
  <2>5. Follows(w, s, B)
    BY <2>2, <2>3 DEF Follows
  <2> QED BY <2>3, <2>4, <2>5 DEF w
<1>4. CASE waiting # {}
  <2>1. PICK k \in waiting : k = Min(waiting)
    <3>1. waiting \in SUBSET Nat
      BY <1>1
    <3> HIDE DEF waiting
    <3> QED BY <1>4, <3>1, MinIsOne
  <2>2. k \in 1 .. Len(a.bloqueados)
    BY <1>1
  <2>3. PICK b \in Sessions : b = a.bloqueados[k] /\ b \in Range(a.bloqueados)
    BY <1>1, <2>2 DEF Range
  <2> DEFINE rest == RemoveAt(a.bloqueados, k)
             told == Sent(a.in, b, Msg("pokemon", p))
             looks == [a.buscada EXCEPT ![b] = NONE]
             holds == [a.pokemons EXCEPT ![b] = Append(@, p)]
  <2>4. /\ rest \in Seq(Sessions) /\ IsInjective(rest) /\ Range(rest) = Range(a.bloqueados) \ {b}
    BY <1>1, <2>2, <2>3, RemoveAtRange DEF Follows
  <2>5. /\ told \in [Sessions -> Seq(ToTrainer)]
        /\ \A r \in Sessions : r # b => told[r] = a.in[r]
        /\ told[b] = IF Gone(b) THEN a.in[b] ELSE Append(a.in[b], Msg("pokemon", p))
    <3>1. Msg("pokemon", p) \in ToTrainer
      BY DEF Msg, ToTrainer
    <3> HIDE DEF told
    <3>2. CASE Gone(b)
      BY <1>1, <3>2 DEF Sent, told
    <3>3. CASE ~Gone(b)
      <4>1. Append(a.in[b], Msg("pokemon", p)) \in Seq(ToTrainer)
        BY <1>1, <3>1
      <4>2. told = [a.in EXCEPT ![b] = Append(a.in[b], Msg("pokemon", p))]
        BY <3>3, <1>1 DEF Sent, told
      <4> QED BY <1>1, <3>3, <4>1, <4>2
    <3> QED BY <3>2, <3>3
  <2>6. /\ looks \in [Sessions -> Nests \cup {NONE}] /\ looks[b] = NONE
        /\ \A r \in Sessions : r # b => looks[r] = a.buscada[r]
    BY <1>1
  <2>7. /\ holds \in [Sessions -> Seq(Pokemons)] /\ holds[b] = Append(a.pokemons[b], p)
        /\ \A r \in Sessions : r # b => holds[r] = a.pokemons[r]
    <3>1. Append(a.pokemons[b], p) \in Seq(Pokemons)
      BY <1>1
    <3> QED BY <1>1, <3>1
  <2>8. w = [bloqueados |-> rest, listos |-> a.listos \cup {b}, buscada |-> looks, pokemons |-> holds,
             libres |-> a.libres, in |-> told, master |-> a.master \ {b}]
    <3>1. w = [a EXCEPT !.bloqueados = rest, !.listos = @ \cup {b}, !.buscada = looks,
                        !.pokemons = holds, !.in = told, !.master = @ \ {b}]
      <4>1. w = [a EXCEPT !.bloqueados = RemoveAt(@, k), !.listos = @ \cup {b}, !.buscada[b] = NONE,
                          !.pokemons[b] = Append(@, p), !.in = Sent(@, b, Msg("pokemon", p)),
                          !.master = @ \ {b}]
        BY <1>4, <2>1, <2>3 DEF GiveOut
      <4> QED BY <1>1, <4>1 DEF Books
    <3> HIDE DEF rest, looks, holds, told, w
    <3> QED BY <1>1, <3>1 DEF Books
  <2> HIDE DEF rest, looks, holds, told
  <2>9. w \in Books
    <3>1. a.listos \cup {b} \in SUBSET Sessions /\ a.master \ {b} \in SUBSET Sessions
      BY <1>1
    <3>2. rest \in Seq(Sessions) /\ told \in [Sessions -> Seq(ToTrainer)]
          /\ looks \in [Sessions -> Nests \cup {NONE}] /\ holds \in [Sessions -> Seq(Pokemons)]
      BY <2>4, <2>5, <2>6, <2>7
    <3> HIDE DEF w
    <3> QED BY <1>1, <2>8, <3>1, <3>2 DEF Books
  <2>10. /\ w.bloqueados = rest /\ w.listos = a.listos \cup {b} /\ w.buscada = looks
         /\ w.pokemons = holds /\ w.in = told /\ w.master = a.master \ {b}
    BY <2>8
  <2> HIDE DEF w, waiting
  <2>11. b \in Range(B) /\ b \notin Served(a, B) /\ b # s
    BY <2>3 DEF Follows, Served
  <2>12. Served(w, B) = Served(a, B) \cup {b}
    BY <2>4, <2>10, <2>11 DEF Served, Follows
  <2>13. /\ a.pokemons[b] = pokemons[b] /\ a.in[b] = in[b]
    BY <2>11 DEF Follows
  <2>14. IsInjective(w.bloqueados) /\ Range(w.bloqueados) \subseteq Range(B)
    BY <2>4, <2>10 DEF Follows
  <2>15. w.listos = colaListos \cup Served(w, B) /\ w.master = master \ Served(w, B)
    BY <2>10, <2>12 DEF Follows
  <2>16. w.pokemons[s] = <<>>
    BY <2>7, <2>10, <2>11 DEF Follows
  <2>17. ASSUME NEW r \in Sessions, r \notin Served(w, B)
         PROVE  w.buscada[r] = buscada[r] /\ w.in[r] = in[r] /\ (r # s => w.pokemons[r] = pokemons[r])
    <3>1. r # b /\ r \notin Served(a, B)
      BY <2>12, <2>17
    <3> QED BY <2>5, <2>6, <2>7, <2>10, <3>1 DEF Follows
  <2>18. ASSUME NEW r \in Served(w, B)
         PROVE  /\ w.buscada[r] = NONE
                /\ \E x \in Pokemons :
                     /\ w.pokemons[r] = Append(pokemons[r], x)
                     /\ w.in[r] = IF Gone(r) THEN in[r] ELSE Append(in[r], Msg("pokemon", x))
    <3>1. CASE r = b
      BY <2>5, <2>6, <2>7, <2>10, <2>13, <3>1
    <3>2. CASE r # b
      <4>1. r \in Served(a, B) /\ r \in Sessions
        BY <2>12, <3>2, OnList DEF Served
      <4>2. w.buscada[r] = a.buscada[r] /\ w.pokemons[r] = a.pokemons[r] /\ w.in[r] = a.in[r]
        BY <2>5, <2>6, <2>7, <2>10, <3>2, <4>1
      <4> QED BY <4>1, <4>2 DEF Follows
    <3> QED BY <3>1, <3>2
  <2>19. Follows(w, s, B)
    BY <2>9, <2>14, <2>15, <2>16, <2>17, <2>18 DEF Follows
  <2> QED BY <2>12, <2>19 DEF w
<1> QED BY <1>3, <1>4

LEMMA Liberates ==
  ASSUME TypeOK, NEW s \in Sessions, NEW B \in Seq(Sessions), IsInjective(B), s \notin Range(B)
  PROVE  /\ Follows(Liberados(s, B), s, B)
         /\ \A k \in DOMAIN pokemons[s], r \in Range(B) :
              buscada[r] = Nest[pokemons[s][k]] => Served(Liberados(s, B), B) # {}
<1> DEFINE n == Len(pokemons[s])
           before == [bloqueados |-> B, listos |-> colaListos, buscada |-> buscada,
                      pokemons |-> [pokemons EXCEPT ![s] = <<>>], libres |-> libres, in |-> in,
                      master |-> master]
           X == {a \in Books : Follows(a, s, B)}
           G == [i \in 1 .. n |-> [a \in X |-> GiveOut(a, pokemons[s][i])]]
           E(h) == h = [i \in 0 .. n |-> IF i = 0 THEN before ELSE GiveOut(h[i - 1], pokemons[s][i])]
<1>1. n \in Nat /\ DOMAIN pokemons[s] = 1 .. n /\ \A i \in 1 .. n : pokemons[s][i] \in Pokemons
  <2>1. pokemons[s] \in Seq(Pokemons)
    BY DEF TypeOK
  <2> QED BY <2>1
<1>2. before \in X /\ before.buscada = buscada /\ before.bloqueados = B
  <2>1. <<>> \in Seq(Pokemons)
    OBVIOUS
  <2>2. /\ [pokemons EXCEPT ![s] = <<>>] \in [Sessions -> Seq(Pokemons)]
        /\ [pokemons EXCEPT ![s] = <<>>][s] = <<>>
        /\ \A r \in Sessions : r # s => [pokemons EXCEPT ![s] = <<>>][r] = pokemons[r]
    BY <2>1 DEF TypeOK
  <2> DEFINE P == [pokemons EXCEPT ![s] = <<>>]
  <2> HIDE DEF P
  <2>3. before \in Books
    BY <2>2 DEF Books, TypeOK, P
  <2>4. /\ before.bloqueados = B /\ before.listos = colaListos /\ before.buscada = buscada
        /\ before.pokemons = P /\ before.in = in /\ before.master = master
    BY DEF P
  <2> HIDE DEF before
  <2>5. Served(before, B) = {}
    BY <2>4 DEF Served
  <2>6. Follows(before, s, B)
    BY <2>2, <2>3, <2>4, <2>5 DEF Follows, P
  <2> QED BY <2>3, <2>4, <2>6
<1> HIDE DEF before
<1>3. ASSUME NEW i \in 1 .. n, NEW a \in X
      PROVE  GiveOut(a, pokemons[s][i]) \in X
  <2>1. Follows(GiveOut(a, pokemons[s][i]), s, B)
    BY <1>1, GiveOutFollows
  <2> QED BY <2>1 DEF Follows
<1> HIDE DEF X
<1>4. G \in [1 .. n -> [X -> X]]
  BY <1>3
<1>5. PICK g \in [0 .. n -> X] : g[0] = before /\ \A i \in 1 .. n : g[i] = G[i][g[i - 1]]
  <2>1. PICK a, S, N, F : a = before /\ S = X /\ N = n /\ F = G
    OBVIOUS
  <2> HIDE DEF G, n, E, before
  <2>2. N \in Nat /\ a \in S /\ F \in [1 .. N -> [S -> S]]
    BY <1>1, <1>2, <1>4, <2>1
  <2>3. Unfolded(S, a, N, F)
    BY ONLY <2>2, Unfolds
  <2>4. PICK g \in [0 .. N -> S] : g[0] = a /\ \A i \in 1 .. N : g[i] = F[i][g[i - 1]]
    BY ONLY <2>3 DEF Unfolded
  <2>5. g \in [0 .. n -> X] /\ g[0] = before /\ \A i \in 1 .. n : g[i] = G[i][g[i - 1]]
    BY ONLY <2>1, <2>4
  <2> QED BY <2>5
<1>6. E(g)
  <2>1. ASSUME NEW i \in 0 .. n
        PROVE  g[i] = IF i = 0 THEN before ELSE GiveOut(g[i - 1], pokemons[s][i])
    <3>1. CASE i = 0
      BY <1>5, <3>1
    <3>2. CASE i # 0
      <4>1. i \in 1 .. n /\ i - 1 \in 0 .. n
        BY <1>1, <3>2
      <4>2. g[i - 1] \in X
        BY <1>5, <4>1
      <4>3. G[i][g[i - 1]] = GiveOut(g[i - 1], pokemons[s][i])
        BY <4>1, <4>2
      <4> HIDE DEF G
      <4> QED BY <1>5, <3>2, <4>1, <4>3
    <3> QED BY <3>1, <3>2
  <2> HIDE DEF G, n
  <2>2. [i \in 0 .. n |-> g[i]]
          = [i \in 0 .. n |-> IF i = 0 THEN before ELSE GiveOut(g[i - 1], pokemons[s][i])]
    BY <2>1, Zenon
  <2>3. g = [i \in 0 .. n |-> g[i]]
    BY <1>5
  <2> QED BY <2>2, <2>3, Zenon
<1>7. PICK h : h = (CHOOSE x : E(x))
  OBVIOUS
<1>8. E(h)
  <2>1. \E x : E(x)
    BY <1>6
  <2>2. E(CHOOSE x : E(x))
    BY <2>1, Zenon
  <2> QED BY <1>7, <2>2, Zenon
<1>9. Liberados(s, B) = h[n]
  BY <1>7, Zenon DEF Liberados, before
<1>10. h[0] = before /\ \A i \in 1 .. n : h[i] = GiveOut(h[i - 1], pokemons[s][i])
  <2> DEFINE w == [i \in 0 .. n |-> IF i = 0 THEN before ELSE GiveOut(h[i - 1], pokemons[s][i])]
  <2>1. w[0] = before /\ \A i \in 1 .. n : w[i] = GiveOut(h[i - 1], pokemons[s][i])
    <3> HIDE DEF n
    <3> QED BY <1>1
  <2>2. h = w
    BY <1>8
  <2> HIDE DEF w
  <2> QED BY <2>1, <2>2
<1> HIDE DEF E, G, n
<1>11. \A i \in 0 .. n : h[i] \in X
  <2> DEFINE S == {i \in 0 .. n : h[i] \in X}
  <2>1. 0 \in S
    BY <1>1, <1>2, <1>10
  <2>2. ASSUME NEW i \in 1 .. n, i - 1 \in S PROVE i \in S
    <3>1. i \in 1 .. n /\ h[i - 1] \in X
      BY <2>2
    <3>2. h[i] \in X
      BY <1>3, <1>10, <3>1
    <3> QED BY <1>1, <3>1, <3>2
  <2> HIDE DEF S
  <2>3. \A i \in 0 .. n : i \in S
    BY ONLY <1>1, <2>1, <2>2, FromZero
  <2> QED BY <2>3 DEF S
<1>12. Follows(Liberados(s, B), s, B)
  BY <1>1, <1>9, <1>11 DEF X
<1>13. ASSUME NEW k \in 1 .. n, NEW r \in Range(B), buscada[r] = Nest[pokemons[s][k]]
       PROVE  Served(h[n], B) # {}
  <2> DEFINE S == {i \in 0 .. n : Served(h[i], B) # {}}
  <2>0. k \in Nat /\ k - 1 \in 0 .. n /\ n \in Nat /\ k \in 0 .. n /\ n \in k .. n
    BY <1>1
  <2>1. ASSUME NEW i \in 1 .. n
        PROVE  /\ Follows(h[i - 1], s, B)
               /\ Served(h[i - 1], B) \subseteq Served(h[i], B)
               /\ \A q \in Range(h[i - 1].bloqueados) :
                    h[i - 1].buscada[q] = Nest[pokemons[s][i]] => Served(h[i], B) # {}
    <3>1. i - 1 \in 0 .. n
      BY <1>1
    <3>2. Follows(h[i - 1], s, B)
      BY <1>11, <3>1 DEF X
    <3>3. pokemons[s][i] \in Pokemons /\ h[i] = GiveOut(h[i - 1], pokemons[s][i])
      BY <1>1, <1>10
    <3> QED BY <3>2, <3>3, GiveOutFollows
  <2>2. k \in S
    <3>1. CASE r \in Range(h[k - 1].bloqueados)
      <4>1. r \in Sessions /\ r \notin Served(h[k - 1], B)
        BY <3>1, OnList DEF Served
      <4>2. h[k - 1].buscada[r] = buscada[r]
        BY <2>1, <4>1 DEF Follows
      <4> QED BY <1>13, <2>0, <2>1, <3>1, <4>2
    <3>2. CASE r \notin Range(h[k - 1].bloqueados)
      <4>1. r \in Served(h[k - 1], B)
        BY <3>2 DEF Served
      <4> QED BY <2>0, <2>1, <4>1
    <3> QED BY <3>1, <3>2
  <2>3. ASSUME NEW i \in k + 1 .. n, i - 1 \in S PROVE i \in S
    <3>1. i \in 1 .. n /\ i \in 0 .. n
      BY <2>0
    <3>2. Served(h[i - 1], B) # {}
      BY <2>3
    <3>3. Served(h[i], B) # {}
      BY <2>1, <3>1, <3>2
    <3> QED BY <3>1, <3>3
  <2> HIDE DEF S
  <2>4. \A i \in k .. n : i \in S
    BY <2>0, <2>2, <2>3, Upwards
  <2> QED BY <2>0, <2>4 DEF S
<1> QED BY <1>1, <1>9, <1>12, <1>13

-----------------------------------------------------------------------------
(* What a step leaves as it was *)

LEMMA Untouched ==
  ASSUME NEW r \in Sessions,
         tpc'[r] = tpc[r], in'[r] = in[r], out'[r] = out[r], buscada'[r] = buscada[r],
         r \in colaListos' <=> r \in colaListos,
         r \in Blocked \cup {reading} => r \in Blocked' \cup {reading'},
         freed \subseteq freed',
         Eaten(r) => Eaten(r)',
         dpc = "answer" /\ r = Asking => dpc' = "answer" /\ r = Asking',
         dpc = "release" /\ r = perdedor => r \in freed' \/ (dpc' = "release" /\ r = perdedor')
  PROVE  (Requests(r) => Requests(r)') /\ (Battling(r) => Battling(r)')
<1>1. Placed(r) /\ r \in Sessions => Placed(r)'
  BY DEF Placed
<1>2. Requests(r) => Requests(r)'
  BY <1>1 DEF Requests
<1>3. Battling(r) => Battling(r)'
  BY DEF Battling
<1> QED BY <1>2, <1>3

LEMMA JourneysKept ==
  ASSUME Journeys, UNCHANGED <<tpc, backlog, goal>>,
         \A r \in Sessions : tpc[r] \in {"new", "backlog"} /\ Outside(r) => Outside(r)'
  PROVE  Journeys'
BY DEF Journeys

\* A trainer goes from one place to another of the same journey.
LEMMA JourneysMoved ==
  ASSUME TypeOK, Journeys, NEW s \in Sessions, NEW p \in Places, tpc' = [tpc EXCEPT ![s] = p],
         {tpc[s], p} \cap {"new", "backlog", "dead"} = {},
         p = "catch" => goal'[Owner[s]] < Len(Goals[Owner[s]]),
         \A r \in Sessions : r # s /\ tpc[r] = "catch" => goal'[Owner[r]] = goal[Owner[r]],
         backlog' = backlog,
         \A r \in Sessions : r # s /\ Outside(r) => Outside(r)'
  PROVE  Journeys'
<1>1. tpc'[s] = p /\ \A r \in Sessions : r # s => tpc'[r] = tpc[r]
  BY DEF TypeOK
<1>2. IsInjective(backlog')
  BY DEF Journeys
<1>3. ASSUME NEW r \in Sessions
      PROVE  /\ tpc'[r] = "backlog" <=> r \in Range(backlog')
             /\ tpc'[r] \in {"new", "backlog"} => Outside(r)'
             /\ tpc'[r] = "catch" => goal'[Owner[r]] < Len(Goals[Owner[r]])
  <2>1. CASE r = s
    <3>1. tpc'[r] = p /\ p \notin {"new", "backlog"} /\ tpc[r] \notin {"new", "backlog"}
      BY <1>1, <2>1
    <3>2. r \notin Range(backlog)
      BY <3>1 DEF Journeys
    <3>3. tpc'[r] = "catch" => goal'[Owner[r]] < Len(Goals[Owner[r]])
      BY <2>1, <3>1
    <3> QED BY <3>1, <3>2, <3>3
  <2>2. CASE r # s
    <3>1. /\ tpc[r] = "backlog" <=> r \in Range(backlog)
          /\ tpc[r] \in {"new", "backlog"} => Outside(r)
          /\ tpc[r] = "catch" => goal[Owner[r]] < Len(Goals[Owner[r]])
      BY DEF Journeys
    <3>2. tpc'[r] = tpc[r]
      BY <1>1, <2>2
    <3> QED BY <2>2, <3>1, <3>2
  <2> QED BY <2>1, <2>2
<1>4. ASSUME NEW r \in Sessions, tpc'[r] # "dead", NextSession[r] # NONE
      PROVE  tpc'[NextSession[r]] = "new"
  <2>1. NextSession[r] \in Sessions /\ tpc[r] # "dead"
    BY <1>1, <1>4, Constants
  <2>2. tpc[NextSession[r]] = "new"
    BY <1>4, <2>1 DEF Journeys
  <2> QED BY <1>1, <2>1, <2>2
<1>5. \A q, r \in Sessions :
        Owner[q] = Owner[r] /\ tpc'[q] \notin {"new", "dead"} /\ tpc'[r] \notin {"new", "dead"} => q = r
  <2>1. \A q \in Sessions : tpc'[q] \notin {"new", "dead"} => tpc[q] \notin {"new", "dead"}
    BY <1>1
  <2> QED BY <2>1 DEF Journeys
<1> QED BY <1>2, <1>3, <1>4, <1>5 DEF Journeys

LEMMA PicksKept ==
  ASSUME Picks, UNCHANGED <<tpc, nombres>>, freed \subseteq freed',
         \A r \in Sessions \ freed' :
           /\ Range(pokemons[r]) \subseteq Range(pokemons'[r])
           /\ Given(in'[r], Range(pokemons'[r]))
           /\ \A X : Given(out[r], X) => Given(out'[r], X)
  PROVE  Picks'
<1> SUFFICES ASSUME NEW r \in Sessions, r \notin freed'
             PROVE  /\ Given(in'[r], Range(pokemons'[r]))
                    /\ ~HasDied(Owner[r])' /\ tpc'[r] # "new" =>
                         /\ Range(nombres'[Owner[r]]) \subseteq Range(pokemons'[r]) \cup {NONE}
                         /\ Given(out'[r], Range(pokemons'[r]) \cup {Previous[Owner[r]]})
  BY DEF Picks
<1>1. Given(in'[r], Range(pokemons'[r])) /\ r \notin freed
  OBVIOUS
<1>2. ASSUME ~HasDied(Owner[r])', tpc'[r] # "new"
      PROVE  /\ Range(nombres'[Owner[r]]) \subseteq Range(pokemons'[r]) \cup {NONE}
             /\ Given(out'[r], Range(pokemons'[r]) \cup {Previous[Owner[r]]})
  <2>1. ~HasDied(Owner[r]) /\ tpc[r] # "new"
    BY <1>2 DEF HasDied
  <2>2. /\ Range(nombres[Owner[r]]) \subseteq Range(pokemons[r]) \cup {NONE}
        /\ Given(out[r], Range(pokemons[r]) \cup {Previous[Owner[r]]})
    BY <1>1, <2>1 DEF Picks
  <2>3. Given(out[r], Range(pokemons'[r]) \cup {Previous[Owner[r]]})
    BY <1>1, <2>2, GivenMore
  <2> QED BY <1>1, <2>2, <2>3
<1> QED BY <1>1, <1>2

-----------------------------------------------------------------------------
(* The trainers *)

TrainerStep == UNCHANGED <<queues, sessions, master, lectura, reading, dpc, copies, fight, undefined>>

LEMMA TrainerFrame ==
  ASSUME IInv, undefined = "no", TrainerStep,
         \A r \in Sessions :
           /\ tpc[r] \in {"dead", "closed"} => tpc'[r] = tpc[r]
           /\ ~Has(in[r], "batalla") /\ ~Has(out[r], "pokemon") =>
                ~Has(in'[r], "batalla") /\ ~Has(out'[r], "pokemon")
           /\ tpc[r] \in {"dead", "closed", "derailed"} \/ Has(in[r], "victima") =>
                tpc'[r] \in {"dead", "closed", "derailed"} \/ Has(in'[r], "victima")
  PROVE  /\ Queues' /\ Detector' /\ Unreleased' /\ InQuiet' /\ BreaksForACause'
         /\ \A r \in Sessions :
              /\ Eaten(r) => Eaten(r)'
              /\ Outside(r) /\ in'[r] = in[r] /\ out'[r] = out[r] => Outside(r)'
              /\ tpc'[r] = tpc[r] /\ in'[r] = in[r] /\ out'[r] = out[r] =>
                   Requests(r)' /\ Battling(r)'
<1>1. /\ entrenadores' = entrenadores /\ colaListos' = colaListos /\ colaBloqueados' = colaBloqueados
      /\ buscada' = buscada /\ pokemons' = pokemons /\ freed' = freed /\ libres' = libres
      /\ master' = master /\ lectura' = lectura /\ reading' = reading /\ dpc' = dpc
      /\ filas' = filas /\ pedida' = pedida /\ deadlockeados' = deadlockeados
      /\ perdedor' = perdedor /\ elegido' = elegido /\ undefined' = undefined
  BY DEF TrainerStep, queues, sessions, copies, fight
<1>2. Blocked' = Blocked /\ Asking' = Asking /\ Fighters' = Fighters /\ (Battle' <=> Battle)
  BY <1>1 DEF Blocked, Asking, Fighters, Battle
<1>3. ASSUME NEW r \in Sessions PROVE Eaten(r) => Eaten(r)'
  BY <1>1, <1>2 DEF Eaten
<1>4. ASSUME NEW r \in Sessions, Outside(r), in'[r] = in[r], out'[r] = out[r] PROVE Outside(r)'
  BY <1>1, <1>2, <1>4 DEF Outside
<1>5. ASSUME NEW r \in Sessions, tpc'[r] = tpc[r], in'[r] = in[r], out'[r] = out[r]
      PROVE  Requests(r)' /\ Battling(r)'
  <2>1. (Requests(r) => Requests(r)') /\ (Battling(r) => Battling(r)')
    BY <1>1, <1>2, <1>3, <1>5, Untouched
  <2> QED BY <2>1 DEF IInv
<1>6. Queues'
  BY <1>1, <1>2 DEF Queues, IInv
<1>7. Detector'
  <2>1. perdedor # NONE => perdedor \in Sessions
    BY DEF IInv, TypeOK
  <2> QED BY <1>1, <2>1, Constants DEF Detector, IInv
<1>8. Unreleased'
  <2>1. \A r \in Sessions : Gone(r) => Gone(r)'
    BY DEF Gone
  <2>2. lectura \subseteq Sessions /\ master \subseteq Sessions /\ reading \in Sessions \cup {NONE}
    BY DEF IInv, TypeOK
  <2> QED BY <1>1, <1>2, <2>1, <2>2 DEF Unreleased, IInv
<1>9. InQuiet'
  <2>1. Quiet' => Quiet
    BY DEF Quiet
  <2>2. Fighters \subseteq Sessions \cup {NONE}
    BY OnList DEF Fighters, IInv, TypeOK
  <2>3. dpc = "answer" => Fighters \subseteq Sessions
    BY <2>2, OnList DEF Fighters, IInv, TypeOK, Detector
  <2>4. dpc = "release" => perdedor \in Sessions
    BY DEF IInv, TypeOK, Detector
  <2> QED BY <1>1, <1>2, <1>3, <2>1, <2>3, <2>4 DEF InQuiet, IInv
<1>10. BreaksForACause'
  BY <1>1 DEF BreaksForACause, IInv, Detector
<1> QED BY <1>3, <1>4, <1>5, <1>6, <1>7, <1>8, <1>9, <1>10

LEMMA PicksOfTrainer ==
  ASSUME Picks, pokemons' = pokemons, freed' = freed,
         \A r \in Sessions :
           /\ tpc[r] = "dead" => tpc'[r] = "dead"
           /\ tpc[r] = "new" /\ tpc'[r] # "new" =>
                \E q \in Sessions : Owner[q] = Owner[r] /\ tpc'[q] = "dead"
           /\ \A X : Given(in[r], X) => Given(in'[r], X)
           /\ r \notin freed /\ ~HasDied(Owner[r]) /\ tpc[r] # "new" =>
                /\ Range(nombres'[Owner[r]]) \subseteq Range(pokemons[r]) \cup {NONE}
                /\ Given(out'[r], Range(pokemons[r]) \cup {Previous[Owner[r]]})
  PROVE  Picks'
<1> SUFFICES ASSUME NEW r \in Sessions, r \notin freed
             PROVE  /\ Given(in'[r], Range(pokemons[r]))
                    /\ ~HasDied(Owner[r])' /\ tpc'[r] # "new" =>
                         /\ Range(nombres'[Owner[r]]) \subseteq Range(pokemons[r]) \cup {NONE}
                         /\ Given(out'[r], Range(pokemons[r]) \cup {Previous[Owner[r]]})
  BY DEF Picks
<1>1. Given(in'[r], Range(pokemons[r]))
  BY DEF Picks
<1>2. ASSUME ~HasDied(Owner[r])', tpc'[r] # "new"
      PROVE  ~HasDied(Owner[r]) /\ tpc[r] # "new"
  BY <1>2 DEF HasDied
<1> QED BY <1>1, <1>2

-----------------------------------------------------------------------------
(* Messages that come and go *)

LEMMA Asks ==
  ASSUME TypeOK, NEW s \in Sessions, NEW m \in ToMap, out' = [out EXCEPT ![s] = Append(@, m)]
  PROVE  /\ out' \in [Sessions -> Seq(ToMap)]
         /\ \A r \in Sessions : r # s => out'[r] = out[r]
         /\ out'[s] # <<>>
         /\ \A kind : Has(out'[s], kind) <=> Has(out[s], kind) \/ m[1] = kind
         /\ \A kind : Once(out[s], kind) /\ ~(Has(out[s], kind) /\ m[1] = kind) => Once(out'[s], kind)
         /\ \A X : Given(out[s], X) /\ (m[1] = "pokemon" => m[2] \in X) => Given(out'[s], X)
<1>1. out[s] \in Seq(ToMap) /\ out \in [Sessions -> Seq(ToMap)]
  BY DEF TypeOK
<1>2. PICK l : l = Append(out[s], m)
  OBVIOUS
<1>3. /\ l \in Seq(ToMap) /\ l # <<>>
      /\ \A kind : Has(l, kind) <=> Has(out[s], kind) \/ m[1] = kind
      /\ \A kind : Once(out[s], kind) /\ ~(Has(out[s], kind) /\ m[1] = kind) => Once(l, kind)
      /\ \A X : Given(out[s], X) /\ (m[1] = "pokemon" => m[2] \in X) => Given(l, X)
  BY <1>1, <1>2, HasAppend
<1>4. out' = [out EXCEPT ![s] = l]
  BY <1>1, <1>2
<1>5. out' \in [Sessions -> Seq(ToMap)] /\ out'[s] = l /\ \A r \in Sessions : r # s => out'[r] = out[r]
  BY <1>1, <1>3, <1>4
<1> QED BY ONLY <1>3, <1>5

LEMMA Listens ==
  ASSUME TypeOK, NEW s \in Sessions, out[s] # <<>>, out' = [out EXCEPT ![s] = Tail(@)]
  PROVE  /\ out' \in [Sessions -> Seq(ToMap)] /\ Head(out[s]) \in ToMap
         /\ \A r \in Sessions : r # s => out'[r] = out[r]
         /\ \A kind : Has(out[s], kind) <=> Has(out'[s], kind) \/ Head(out[s])[1] = kind
         /\ \A kind : Once(out[s], kind) => Once(out'[s], kind)
         /\ \A kind : Once(out[s], kind) /\ Head(out[s])[1] = kind => ~Has(out'[s], kind)
         /\ \A X : Given(out[s], X) =>
              Given(out'[s], X) /\ (Head(out[s])[1] = "pokemon" => Head(out[s])[2] \in X)
<1>1. out[s] \in Seq(ToMap) /\ out \in [Sessions -> Seq(ToMap)]
  BY DEF TypeOK
<1>2. PICK l : l = Tail(out[s])
  OBVIOUS
<1>3. /\ l \in Seq(ToMap) /\ Head(out[s]) \in ToMap
      /\ \A kind : Has(out[s], kind) <=> Has(l, kind) \/ Head(out[s])[1] = kind
      /\ \A kind : Once(out[s], kind) => Once(l, kind)
      /\ \A kind : Once(out[s], kind) /\ Head(out[s])[1] = kind => ~Has(l, kind)
      /\ \A X : Given(out[s], X) =>
           Given(l, X) /\ (Head(out[s])[1] = "pokemon" => Head(out[s])[2] \in X)
  BY <1>1, <1>2, HasTail
<1>4. out' = [out EXCEPT ![s] = l]
  BY <1>1, <1>2
<1>5. out' \in [Sessions -> Seq(ToMap)] /\ out'[s] = l /\ \A r \in Sessions : r # s => out'[r] = out[r]
  BY <1>1, <1>3, <1>4
<1> QED BY ONLY <1>3, <1>5

LEMMA Hears ==
  ASSUME TypeOK, NEW s \in Sessions, in[s] # <<>>, in' = [in EXCEPT ![s] = Tail(@)]
  PROVE  /\ in' \in [Sessions -> Seq(ToTrainer)] /\ Head(in[s]) \in ToTrainer
         /\ \A r \in Sessions : r # s => in'[r] = in[r]
         /\ \A kind : Has(in[s], kind) <=> Has(in'[s], kind) \/ Head(in[s])[1] = kind
         /\ \A kind : Once(in[s], kind) => Once(in'[s], kind)
         /\ \A kind : Once(in[s], kind) /\ Head(in[s])[1] = kind => ~Has(in'[s], kind)
         /\ \A X : Given(in[s], X) =>
              Given(in'[s], X) /\ (Head(in[s])[1] = "pokemon" => Head(in[s])[2] \in X)
<1>1. in[s] \in Seq(ToTrainer) /\ in \in [Sessions -> Seq(ToTrainer)]
  BY DEF TypeOK
<1>2. PICK l : l = Tail(in[s])
  OBVIOUS
<1>3. /\ l \in Seq(ToTrainer) /\ Head(in[s]) \in ToTrainer
      /\ \A kind : Has(in[s], kind) <=> Has(l, kind) \/ Head(in[s])[1] = kind
      /\ \A kind : Once(in[s], kind) => Once(l, kind)
      /\ \A kind : Once(in[s], kind) /\ Head(in[s])[1] = kind => ~Has(l, kind)
      /\ \A X : Given(in[s], X) =>
           Given(l, X) /\ (Head(in[s])[1] = "pokemon" => Head(in[s])[2] \in X)
  BY <1>1, <1>2, HasTail
<1>4. in' = [in EXCEPT ![s] = l]
  BY <1>1, <1>2
<1>5. in' \in [Sessions -> Seq(ToTrainer)] /\ in'[s] = l /\ \A r \in Sessions : r # s => in'[r] = in[r]
  BY <1>1, <1>3, <1>4
<1> QED BY ONLY <1>3, <1>5

Told(to, told, s, m) ==
  /\ told \in [Sessions -> Seq(ToTrainer)]
  /\ \A r \in Sessions : r # s => told[r] = to[r]
  /\ Gone(s) => told[s] = to[s]
  /\ \A kind : Has(told[s], kind) <=> Has(to[s], kind) \/ (~Gone(s) /\ m[1] = kind)
  /\ \A kind : Once(to[s], kind) /\ ~(Has(to[s], kind) /\ m[1] = kind) => Once(told[s], kind)
  /\ \A X : Given(to[s], X) /\ (m[1] = "pokemon" => m[2] \in X) => Given(told[s], X)

LEMMA Tells ==
  ASSUME NEW to \in [Sessions -> Seq(ToTrainer)], NEW s \in Sessions, NEW m \in ToTrainer,
         NEW told, told = Sent(to, s, m)
  PROVE  Told(to, told, s, m)
<1>1. CASE Gone(s)
  <2>1. told = to
    BY <1>1 DEF Sent
  <2> QED BY <1>1, <2>1 DEF Told
<1>2. CASE ~Gone(s)
  <2>1. PICK l : l = Append(to[s], m)
    OBVIOUS
  <2>2. /\ l \in Seq(ToTrainer) /\ l # <<>>
        /\ \A kind : Has(l, kind) <=> Has(to[s], kind) \/ m[1] = kind
        /\ \A kind : Once(to[s], kind) /\ ~(Has(to[s], kind) /\ m[1] = kind) => Once(l, kind)
        /\ \A X : Given(to[s], X) /\ (m[1] = "pokemon" => m[2] \in X) => Given(l, X)
    BY <2>1, HasAppend
  <2>3. told = [to EXCEPT ![s] = l]
    BY <1>2, <2>1 DEF Sent
  <2>4. told \in [Sessions -> Seq(ToTrainer)] /\ told[s] = l /\ \A r \in Sessions : r # s => told[r] = to[r]
    BY <2>2, <2>3
  <2> QED BY ONLY <1>2, <2>2, <2>4 DEF Told
<1> QED BY <1>1, <1>2

\* A message from the map to one trainer.
LEMMA TellsOne ==
  ASSUME TypeOK, NEW s \in Sessions, NEW m \in ToTrainer, in' = Sent(in, s, m)
  PROVE  /\ in' \in [Sessions -> Seq(ToTrainer)]
         /\ \A r \in Sessions : r # s => in'[r] = in[r]
         /\ Gone(s) => in'[s] = in[s]
         /\ \A kind : Has(in'[s], kind) <=> Has(in[s], kind) \/ (~Gone(s) /\ m[1] = kind)
         /\ \A kind : Once(in[s], kind) /\ ~(Has(in[s], kind) /\ m[1] = kind) => Once(in'[s], kind)
         /\ \A X : Given(in[s], X) /\ (m[1] = "pokemon" => m[2] \in X) => Given(in'[s], X)
<1>0. in \in [Sessions -> Seq(ToTrainer)]
  BY DEF TypeOK
<1>1. CASE Gone(s)
  <2>1. in' = in
    BY <1>1 DEF Sent
  <2> QED BY <1>0, <1>1, <2>1
<1>2. CASE ~Gone(s)
  <2>1. PICK l : l = Append(in[s], m)
    OBVIOUS
  <2>2. /\ l \in Seq(ToTrainer) /\ l # <<>>
        /\ \A kind : Has(l, kind) <=> Has(in[s], kind) \/ m[1] = kind
        /\ \A kind : Once(in[s], kind) /\ ~(Has(in[s], kind) /\ m[1] = kind) => Once(l, kind)
        /\ \A X : Given(in[s], X) /\ (m[1] = "pokemon" => m[2] \in X) => Given(l, X)
    BY <1>0, <2>1, HasAppend
  <2>3. in' = [in EXCEPT ![s] = l]
    BY <1>2, <2>1 DEF Sent
  <2>4. in' \in [Sessions -> Seq(ToTrainer)] /\ in'[s] = l /\ \A r \in Sessions : r # s => in'[r] = in[r]
    BY <1>0, <2>2, <2>3
  <2> QED BY ONLY <1>2, <2>2, <2>4
<1> QED BY <1>1, <1>2

LEMMA SendAtraparKeeps ==
  ASSUME IInv, undefined = "no", NEW s \in Sessions, SendAtrapar(s)
  PROVE  IInv'
<1> DEFINE m == Msg("atrapar", Goals[Owner[s]][goal[Owner[s]]])
<1>1. /\ tpc[s] = "walk" /\ goal[Owner[s]] < Len(Goals[Owner[s]])
      /\ tpc' = [tpc EXCEPT ![s] = "catch"]
      /\ out' = [out EXCEPT ![s] = Append(@, m)]
      /\ TrainerStep /\ in' = in /\ goal' = goal /\ nombres' = nombres /\ backlog' = backlog
  BY DEF SendAtrapar, TrainerStep, selector, queues, sessions, copies, fight
<1>2. TypeOK /\ Requests(s) /\ Battling(s) /\ Journeys /\ Picks
  BY DEF IInv
<1>3. m \in ToMap /\ m[1] = "atrapar"
  <2>1. Owner[s] \in Trainers /\ Goals[Owner[s]] \in Seq(Nests)
    BY Constants
  <2>2. goal[Owner[s]] \in DOMAIN Goals[Owner[s]]
    BY <1>2, <2>1 DEF TypeOK
  <2>3. Goals[Owner[s]][goal[Owner[s]]] \in Nests
    BY <2>1, <2>2
  <2> QED BY <2>3 DEF Msg, ToMap
<1> HIDE DEF m
<1>4. /\ out' \in [Sessions -> Seq(ToMap)]
      /\ \A r \in Sessions : r # s => out'[r] = out[r]
      /\ \A kind : Has(out'[s], kind) <=> Has(out[s], kind) \/ m[1] = kind
      /\ \A kind : Once(out[s], kind) /\ ~(Has(out[s], kind) /\ m[1] = kind) => Once(out'[s], kind)
      /\ \A X : Given(out[s], X) /\ (m[1] = "pokemon" => m[2] \in X) => Given(out'[s], X)
  BY <1>1, <1>2, <1>3, Asks
<1>5. tpc' \in [Sessions -> Places] /\ tpc'[s] = "catch" /\ \A r \in Sessions : r # s => tpc'[r] = tpc[r]
  BY <1>1, <1>2 DEF TypeOK, Places
<1>6. /\ Queues' /\ Detector' /\ Unreleased' /\ InQuiet' /\ BreaksForACause'
      /\ \A r \in Sessions :
           /\ Outside(r) /\ in'[r] = in[r] /\ out'[r] = out[r] => Outside(r)'
           /\ tpc'[r] = tpc[r] /\ in'[r] = in[r] /\ out'[r] = out[r] =>
                Requests(r)' /\ Battling(r)'
  <2>1. \A r \in Sessions :
           /\ tpc[r] \in {"dead", "closed"} => tpc'[r] = tpc[r]
           /\ ~Has(in[r], "batalla") /\ ~Has(out[r], "pokemon") =>
                ~Has(in'[r], "batalla") /\ ~Has(out'[r], "pokemon")
           /\ tpc[r] \in {"dead", "closed", "derailed"} \/ Has(in[r], "victima") =>
                tpc'[r] \in {"dead", "closed", "derailed"} \/ Has(in'[r], "victima")
    BY <1>1, <1>3, <1>4, <1>5
  <2> QED BY <1>1, <2>1, TrainerFrame
<1>7. TypeOK'
  BY <1>1, <1>2, <1>4, <1>5 DEF TypeOK, TrainerStep, queues, sessions, copies, fight
<1>8. Journeys'
  <2>1. \A r \in Sessions : r # s /\ Outside(r) => Outside(r)'
    BY <1>1, <1>4, <1>6
  <2> QED BY <1>1, <1>2, <2>1, JourneysMoved DEF Places
<1>9. Requests(s)'
  <2>1. Placed(s)'
    BY <1>1, <1>2 DEF Requests, Placed, TrainerStep, queues
  <2>2. /\ colaListos' = colaListos /\ buscada' = buscada
    BY <1>1 DEF TrainerStep, queues, sessions
  <2> QED BY <1>1, <1>2, <1>3, <1>4, <1>5, <2>1, <2>2 DEF Requests
<1>10. Battling(s)'
  <2>1. dpc' = dpc /\ freed' = freed /\ perdedor' = perdedor /\ Asking' = Asking
    BY <1>1 DEF TrainerStep, sessions, fight, Asking
  <2> QED BY <1>1, <1>2, <1>3, <1>4, <1>5, <2>1 DEF Battling
<1>11. Picks'
  <2>1. pokemons' = pokemons /\ freed' = freed
    BY <1>1 DEF TrainerStep, sessions
  <2>2. \A r \in Sessions : (tpc[r] = "dead" => tpc'[r] = "dead") /\ (tpc[r] = "new" => tpc'[r] = "new")
    BY <1>1, <1>5
  <2>3. \A r \in Sessions : r \notin freed /\ ~HasDied(Owner[r]) /\ tpc[r] # "new" =>
          /\ Range(nombres'[Owner[r]]) \subseteq Range(pokemons[r]) \cup {NONE}
          /\ Given(out'[r], Range(pokemons[r]) \cup {Previous[Owner[r]]})
    BY <1>1, <1>2, <1>3, <1>4 DEF Picks
  <2> QED BY <1>1, <1>2, <2>1, <2>2, <2>3, PicksOfTrainer
<1>12. \A r \in Sessions : Requests(r)' /\ Battling(r)'
  BY <1>1, <1>4, <1>5, <1>6, <1>9, <1>10
<1> QED BY <1>6, <1>7, <1>8, <1>11, <1>12 DEF IInv

LEMMA RecvLocateKeeps ==
  ASSUME IInv, undefined = "no", NEW s \in Sessions, RecvLocate(s)
  PROVE  IInv'
<1>1. PICK p \in {"walk", "derailed"} :
        /\ tpc' = [tpc EXCEPT ![s] = p]
        /\ p = "walk" <=> tpc[s] = "locate" /\ Head(in[s])[1] = "ubicacion"
  <2>1. tpc[s] \in Places
    BY DEF IInv, TypeOK
  <2>2. tpc' = [tpc EXCEPT ![s] = IF tpc[s] = "locate" /\ Head(in[s])[1] = "ubicacion"
                                  THEN "walk" ELSE "derailed"]
    BY DEF RecvLocate, IInv, TypeOK
  <2> QED BY <2>2
<1>2. /\ tpc[s] \in {"locate", "walk"} /\ in[s] # <<>>
      /\ in' = [in EXCEPT ![s] = Tail(@)]
      /\ TrainerStep /\ out' = out /\ goal' = goal /\ nombres' = nombres /\ backlog' = backlog
  BY DEF RecvLocate, TrainerStep, selector, queues, sessions, copies, fight
<1>3. TypeOK /\ Requests(s) /\ Battling(s) /\ Journeys /\ Picks
  BY DEF IInv
<1>4. /\ in' \in [Sessions -> Seq(ToTrainer)] /\ Head(in[s]) \in ToTrainer
      /\ \A r \in Sessions : r # s => in'[r] = in[r]
      /\ \A kind : Has(in[s], kind) <=> Has(in'[s], kind) \/ Head(in[s])[1] = kind
      /\ \A kind : Once(in[s], kind) => Once(in'[s], kind)
      /\ \A kind : Once(in[s], kind) /\ Head(in[s])[1] = kind => ~Has(in'[s], kind)
      /\ \A X : Given(in[s], X) =>
           Given(in'[s], X) /\ (Head(in[s])[1] = "pokemon" => Head(in[s])[2] \in X)
  BY <1>2, <1>3, Hears
<1>5. tpc' \in [Sessions -> Places] /\ tpc'[s] = p /\ \A r \in Sessions : r # s => tpc'[r] = tpc[r]
  BY <1>1, <1>3 DEF TypeOK, Places
<1>6. /\ Queues' /\ Detector' /\ Unreleased' /\ InQuiet' /\ BreaksForACause'
      /\ \A r \in Sessions :
           /\ Outside(r) /\ in'[r] = in[r] /\ out'[r] = out[r] => Outside(r)'
           /\ tpc'[r] = tpc[r] /\ in'[r] = in[r] /\ out'[r] = out[r] =>
                Requests(r)' /\ Battling(r)'
  <2>1. \A r \in Sessions :
           /\ tpc[r] \in {"dead", "closed"} => tpc'[r] = tpc[r]
           /\ ~Has(in[r], "batalla") /\ ~Has(out[r], "pokemon") =>
                ~Has(in'[r], "batalla") /\ ~Has(out'[r], "pokemon")
           /\ tpc[r] \in {"dead", "closed", "derailed"} \/ Has(in[r], "victima") =>
                tpc'[r] \in {"dead", "closed", "derailed"} \/ Has(in'[r], "victima")
    BY <1>1, <1>2, <1>4, <1>5
  <2> QED BY <1>2, <2>1, TrainerFrame
<1>7. TypeOK'
  BY <1>2, <1>3, <1>4, <1>5 DEF TypeOK, TrainerStep, queues, sessions, copies, fight
<1>8. Journeys'
  <2>1. \A r \in Sessions : r # s /\ Outside(r) => Outside(r)'
    BY <1>2, <1>4, <1>6
  <2> QED BY <1>1, <1>2, <1>3, <2>1, JourneysMoved DEF Places
<1>9. Requests(s)'
  <2>1. /\ colaListos' = colaListos /\ buscada' = buscada
    BY <1>2 DEF TrainerStep, queues, sessions
  <2>2. /\ s \in colaListos /\ ~Has(out[s], "atrapar")
        /\ ~(Has(out[s], "ubicar") /\ Has(in[s], "ubicacion"))
    BY <1>2, <1>3 DEF Requests
  <2>3. \A kind : Has(in'[s], kind) => Has(in[s], kind)
    BY <1>4
  <2>4. p = "walk" => /\ ~Has(in'[s], "pokemon") /\ ~Has(in'[s], "ubicacion")
                      /\ ~Has(out[s], "ubicar") /\ buscada[s] \in Nests
    BY <1>1, <1>3, <1>4 DEF Requests
  <2> QED BY <1>2, <1>3, <1>4, <1>5, <2>1, <2>2, <2>3, <2>4 DEF Requests
<1>10. Battling(s)'
  <2>1. dpc' = dpc /\ freed' = freed /\ perdedor' = perdedor /\ Asking' = Asking
    BY <1>2 DEF TrainerStep, sessions, fight, Asking
  <2> QED BY <1>2, <1>3, <1>4, <1>5, <2>1 DEF Battling
<1>11. Picks'
  <2>1. pokemons' = pokemons /\ freed' = freed
    BY <1>2 DEF TrainerStep, sessions
  <2>2. \A r \in Sessions : \A X : Given(in[r], X) => Given(in'[r], X)
    BY <1>4
  <2>3. \A r \in Sessions : (tpc[r] = "dead" => tpc'[r] = "dead") /\ (tpc[r] = "new" => tpc'[r] = "new")
    BY <1>2, <1>5
  <2>4. \A r \in Sessions : r \notin freed /\ ~HasDied(Owner[r]) /\ tpc[r] # "new" =>
          /\ Range(nombres'[Owner[r]]) \subseteq Range(pokemons[r]) \cup {NONE}
          /\ Given(out'[r], Range(pokemons[r]) \cup {Previous[Owner[r]]})
    BY <1>2, <1>3 DEF Picks
  <2> QED BY <1>3, <2>1, <2>2, <2>3, <2>4, PicksOfTrainer
<1>12. \A r \in Sessions : Requests(r)' /\ Battling(r)'
  BY <1>2, <1>4, <1>5, <1>6, <1>9, <1>10
<1> QED BY <1>6, <1>7, <1>8, <1>11, <1>12 DEF IInv

LEMMA QuitKeeps ==
  ASSUME IInv, undefined = "no", NEW s \in Sessions, Quit(s)
  PROVE  IInv'
<1>1. /\ tpc[s] \notin {"new", "backlog", "dead", "closed"}
      /\ tpc' = [tpc EXCEPT ![s] = "closed"]
      /\ TrainerStep /\ in' = in /\ out' = out /\ goal' = goal /\ nombres' = nombres /\ backlog' = backlog
  BY DEF Quit, TrainerStep, sockets, selector, queues, sessions, copies, fight
<1>2. TypeOK /\ Requests(s) /\ Battling(s) /\ Journeys /\ Picks
  BY DEF IInv
<1>3. tpc' \in [Sessions -> Places] /\ tpc'[s] = "closed" /\ \A r \in Sessions : r # s => tpc'[r] = tpc[r]
  BY <1>1, <1>2 DEF TypeOK, Places
<1>4. /\ Queues' /\ Detector' /\ Unreleased' /\ InQuiet' /\ BreaksForACause'
      /\ \A r \in Sessions :
           /\ Outside(r) /\ in'[r] = in[r] /\ out'[r] = out[r] => Outside(r)'
           /\ tpc'[r] = tpc[r] /\ in'[r] = in[r] /\ out'[r] = out[r] =>
                Requests(r)' /\ Battling(r)'
  <2>1. \A r \in Sessions :
           /\ tpc[r] \in {"dead", "closed"} => tpc'[r] = tpc[r]
           /\ ~Has(in[r], "batalla") /\ ~Has(out[r], "pokemon") =>
                ~Has(in'[r], "batalla") /\ ~Has(out'[r], "pokemon")
           /\ tpc[r] \in {"dead", "closed", "derailed"} \/ Has(in[r], "victima") =>
                tpc'[r] \in {"dead", "closed", "derailed"} \/ Has(in'[r], "victima")
    BY <1>1, <1>3
  <2> QED BY <1>1, <2>1, TrainerFrame
<1>5. TypeOK'
  BY <1>1, <1>2, <1>3 DEF TypeOK, TrainerStep, queues, sessions, copies, fight
<1>6. Journeys'
  <2>1. \A r \in Sessions : r # s /\ Outside(r) => Outside(r)'
    BY <1>1, <1>4
  <2> QED BY <1>1, <1>2, <2>1, JourneysMoved DEF Places
<1>7. Requests(s)'
  <2>1. /\ colaListos' = colaListos /\ buscada' = buscada
    BY <1>1 DEF TrainerStep, queues, sessions
  <2> QED BY <1>1, <1>2, <1>3, <2>1 DEF Requests
<1>8. Battling(s)'
  <2>1. dpc' = dpc /\ freed' = freed /\ perdedor' = perdedor /\ Asking' = Asking
    BY <1>1 DEF TrainerStep, sessions, fight, Asking
  <2> QED BY <1>1, <1>2, <1>3, <2>1 DEF Battling
<1>9. Picks'
  <2>1. pokemons' = pokemons /\ freed' = freed
    BY <1>1 DEF TrainerStep, sessions
  <2>2. \A r \in Sessions : (tpc[r] = "dead" => tpc'[r] = "dead") /\ (tpc[r] = "new" => tpc'[r] = "new")
    BY <1>1, <1>3
  <2>3. \A r \in Sessions : r \notin freed /\ ~HasDied(Owner[r]) /\ tpc[r] # "new" =>
          /\ Range(nombres'[Owner[r]]) \subseteq Range(pokemons[r]) \cup {NONE}
          /\ Given(out'[r], Range(pokemons[r]) \cup {Previous[Owner[r]]})
    BY <1>1, <1>2 DEF Picks
  <2> QED BY <1>1, <1>2, <2>1, <2>2, <2>3, PicksOfTrainer
<1>10. \A r \in Sessions : Requests(r)' /\ Battling(r)'
  BY <1>1, <1>3, <1>4, <1>7, <1>8
<1> QED BY <1>4, <1>5, <1>6, <1>9, <1>10 DEF IInv

LEMMA CatchFacts ==
  ASSUME IInv, NEW s \in Sessions, RecvCatch(s)
  PROVE  /\ TypeOK /\ Requests(s) /\ Battling(s) /\ Journeys /\ Picks
         /\ tpc[s] = "catch" /\ in[s] # <<>> /\ in' = [in EXCEPT ![s] = Tail(@)] /\ TrainerStep
         /\ in' \in [Sessions -> Seq(ToTrainer)] /\ Head(in[s]) \in ToTrainer
         /\ \A r \in Sessions : r # s => in'[r] = in[r]
         /\ \A kind : Has(in[s], kind) <=> Has(in'[s], kind) \/ Head(in[s])[1] = kind
         /\ \A kind : Once(in[s], kind) => Once(in'[s], kind)
         /\ \A kind : Once(in[s], kind) /\ Head(in[s])[1] = kind => ~Has(in'[s], kind)
         /\ \A X : Given(in[s], X) =>
              Given(in'[s], X) /\ (Head(in[s])[1] = "pokemon" => Head(in[s])[2] \in X)
<1>1. TypeOK /\ Requests(s) /\ Battling(s) /\ Journeys /\ Picks
  BY DEF IInv
<1>2. tpc[s] = "catch" /\ in[s] # <<>> /\ in' = [in EXCEPT ![s] = Tail(@)] /\ TrainerStep
  BY DEF RecvCatch, TrainerStep
<1> QED BY <1>1, <1>2, Hears

\* A message of a battle that it does not answer, or cannot answer.
LEMMA CatchIgnoresKeeps ==
  ASSUME IInv, undefined = "no", NEW s \in Sessions, RecvCatch(s),
         Head(in[s])[1] \notin {"pokemon", "victima"}, out' = out
  PROVE  IInv'
<1>1. PICK p \in {"catch", "closed"} : tpc' = [tpc EXCEPT ![s] = p]
  <2>1. tpc[s] = "catch" /\ tpc \in [Sessions -> Places]
    BY CatchFacts DEF TypeOK
  <2>2. tpc' = [tpc EXCEPT ![s] = "closed"] \/ tpc' = tpc
    BY DEF RecvCatch, trainer
  <2>3. tpc = [tpc EXCEPT ![s] = "catch"]
    BY <2>1
  <2> QED BY <2>2, <2>3
<1>2. goal' = goal /\ nombres' = nombres /\ backlog' = backlog
  BY DEF RecvCatch, trainer
<1>3. TypeOK /\ Requests(s) /\ Battling(s) /\ Journeys /\ Picks /\ TrainerStep /\ tpc[s] = "catch"
  BY CatchFacts
<1>4. /\ in' \in [Sessions -> Seq(ToTrainer)]
      /\ \A r \in Sessions : r # s => in'[r] = in[r]
      /\ \A kind : Has(in'[s], kind) => Has(in[s], kind)
      /\ Has(in[s], "victima") => Has(in'[s], "victima")
      /\ \A kind : Once(in[s], kind) => Once(in'[s], kind)
      /\ \A X : Given(in[s], X) => Given(in'[s], X)
  BY CatchFacts
<1>5. tpc' \in [Sessions -> Places] /\ tpc'[s] = p /\ \A r \in Sessions : r # s => tpc'[r] = tpc[r]
  BY <1>1, <1>3 DEF TypeOK, Places
<1>6. /\ Queues' /\ Detector' /\ Unreleased' /\ InQuiet' /\ BreaksForACause'
      /\ \A r \in Sessions :
           /\ Eaten(r) => Eaten(r)'
           /\ Outside(r) /\ in'[r] = in[r] /\ out'[r] = out[r] => Outside(r)'
           /\ tpc'[r] = tpc[r] /\ in'[r] = in[r] /\ out'[r] = out[r] =>
                Requests(r)' /\ Battling(r)'
  <2>1. \A r \in Sessions :
           /\ tpc[r] \in {"dead", "closed"} => tpc'[r] = tpc[r]
           /\ ~Has(in[r], "batalla") /\ ~Has(out[r], "pokemon") =>
                ~Has(in'[r], "batalla") /\ ~Has(out'[r], "pokemon")
           /\ tpc[r] \in {"dead", "closed", "derailed"} \/ Has(in[r], "victima") =>
                tpc'[r] \in {"dead", "closed", "derailed"} \/ Has(in'[r], "victima")
    BY <1>3, <1>4, <1>5
  <2> QED BY <1>3, <2>1, TrainerFrame
<1>7. TypeOK'
  BY <1>2, <1>3, <1>4, <1>5 DEF TypeOK, TrainerStep, queues, sessions, copies, fight
<1>8. Journeys'
  <2>1. \A r \in Sessions : r # s /\ Outside(r) => Outside(r)'
    BY <1>4, <1>6
  <2>2. goal[Owner[s]] < Len(Goals[Owner[s]])
    BY <1>3 DEF Journeys
  <2> QED BY <1>1, <1>2, <1>3, <2>1, <2>2, JourneysMoved DEF Places
<1>9. Requests(s)'
  <2>1. /\ colaListos' = colaListos /\ buscada' = buscada /\ freed' = freed /\ Blocked' = Blocked
        /\ reading' = reading
    BY <1>3 DEF TrainerStep, queues, sessions, Blocked
  <2>2. Placed(s) => Placed(s)'
    BY <1>4, <1>6, <2>1 DEF Placed
  <2> QED BY <1>3, <1>4, <1>5, <2>1, <2>2 DEF Requests
<1>10. Battling(s)'
  <2>1. dpc' = dpc /\ freed' = freed /\ perdedor' = perdedor /\ Asking' = Asking
    BY <1>3 DEF TrainerStep, sessions, fight, Asking
  <2> QED BY <1>3, <1>4, <1>5, <2>1 DEF Battling
<1>11. Picks'
  <2>1. pokemons' = pokemons /\ freed' = freed
    BY <1>3 DEF TrainerStep, sessions
  <2>2. \A r \in Sessions : (tpc[r] = "dead" => tpc'[r] = "dead") /\ (tpc[r] = "new" => tpc'[r] = "new")
    BY <1>3, <1>5
  <2>3. \A r \in Sessions : r \notin freed /\ ~HasDied(Owner[r]) /\ tpc[r] # "new" =>
          /\ Range(nombres'[Owner[r]]) \subseteq Range(pokemons[r]) \cup {NONE}
          /\ Given(out'[r], Range(pokemons[r]) \cup {Previous[Owner[r]]})
    BY <1>2, <1>3 DEF Picks
  <2>4. \A r \in Sessions : \A X : Given(in[r], X) => Given(in'[r], X)
    BY <1>4
  <2> QED BY <1>3, <2>1, <2>2, <2>3, <2>4, PicksOfTrainer
<1>12. \A r \in Sessions : Requests(r)' /\ Battling(r)'
  BY <1>4, <1>5, <1>6, <1>9, <1>10
<1> QED BY <1>6, <1>7, <1>8, <1>11, <1>12 DEF IInv

\* It answers with its best pokemon.
LEMMA CatchAnswersKeeps ==
  ASSUME IInv, undefined = "no", NEW s \in Sessions, RecvCatch(s), Head(in[s])[1] = "batalla",
         NEW x \in Best(Owner[s]), out' = [out EXCEPT ![s] = Append(@, Msg("pokemon", x))],
         tpc' = tpc
  PROVE  IInv'
<1> DEFINE m == Msg("pokemon", x)
<1>1. goal' = goal /\ nombres' = nombres /\ backlog' = backlog
  BY DEF RecvCatch, trainer
<1>2. TypeOK /\ Requests(s) /\ Battling(s) /\ Journeys /\ Picks /\ TrainerStep /\ tpc[s] = "catch"
  BY CatchFacts
<1>3. /\ in' \in [Sessions -> Seq(ToTrainer)]
      /\ \A r \in Sessions : r # s => in'[r] = in[r]
      /\ \A kind : Has(in'[s], kind) => Has(in[s], kind)
      /\ Has(in[s], "victima") => Has(in'[s], "victima")
      /\ Has(in[s], "batalla")
      /\ \A kind : Once(in[s], kind) => Once(in'[s], kind)
      /\ Once(in[s], "batalla") => ~Has(in'[s], "batalla")
      /\ \A X : Given(in[s], X) => Given(in'[s], X)
  BY CatchFacts
<1>4. m \in ToMap /\ m[1] = "pokemon" /\ m[2] = x /\ x \in Range(nombres[Owner[s]]) \cup {Previous[Owner[s]]}
      /\ x # NONE
  <2>1. x \in Range(nombres[Owner[s]]) \cup {Previous[Owner[s]]} /\ x # NONE
    BY DEF Best
  <2>2. Owner[s] \in Trainers /\ nombres[Owner[s]] \in [DOMAIN Goals[Owner[s]] -> Pokemons \cup {NONE}]
    BY <1>2, Constants DEF TypeOK
  <2>3. Range(nombres[Owner[s]]) \subseteq Pokemons \cup {NONE}
    BY <2>2 DEF Range
  <2>4. x \in DOMAIN Level
    BY <2>1, <2>2, <2>3, Constants
  <2> QED BY <2>1, <2>4 DEF Msg, ToMap
<1> HIDE DEF m
<1>5. /\ out' \in [Sessions -> Seq(ToMap)]
      /\ \A r \in Sessions : r # s => out'[r] = out[r]
      /\ \A kind : Has(out'[s], kind) <=> Has(out[s], kind) \/ m[1] = kind
      /\ \A kind : Once(out[s], kind) /\ ~(Has(out[s], kind) /\ m[1] = kind) => Once(out'[s], kind)
      /\ \A X : Given(out[s], X) /\ (m[1] = "pokemon" => m[2] \in X) => Given(out'[s], X)
  BY <1>2, <1>4, Asks DEF m
<1>6. /\ Queues' /\ Detector' /\ Unreleased' /\ InQuiet' /\ BreaksForACause'
      /\ \A r \in Sessions :
           /\ Eaten(r) => Eaten(r)'
           /\ Outside(r) /\ in'[r] = in[r] /\ out'[r] = out[r] => Outside(r)'
           /\ tpc'[r] = tpc[r] /\ in'[r] = in[r] /\ out'[r] = out[r] =>
                Requests(r)' /\ Battling(r)'
  <2>1. \A r \in Sessions :
           /\ tpc[r] \in {"dead", "closed"} => tpc'[r] = tpc[r]
           /\ ~Has(in[r], "batalla") /\ ~Has(out[r], "pokemon") =>
                ~Has(in'[r], "batalla") /\ ~Has(out'[r], "pokemon")
           /\ tpc[r] \in {"dead", "closed", "derailed"} \/ Has(in[r], "victima") =>
                tpc'[r] \in {"dead", "closed", "derailed"} \/ Has(in'[r], "victima")
    BY <1>2, <1>3, <1>5
  <2> QED BY <1>2, <2>1, TrainerFrame
<1>7. TypeOK'
  BY <1>1, <1>2, <1>3, <1>5 DEF TypeOK, TrainerStep, queues, sessions, copies, fight
<1>8. Journeys'
  <2>1. ASSUME NEW r \in Sessions, tpc[r] \in {"new", "backlog"}, Outside(r) PROVE Outside(r)'
    BY <1>2, <1>3, <1>5, <1>6, <2>1
  <2> QED BY <1>1, <1>2, <2>1, JourneysKept
<1>9. Requests(s)'
  <2>1. /\ colaListos' = colaListos /\ buscada' = buscada /\ freed' = freed /\ Blocked' = Blocked
        /\ reading' = reading
    BY <1>2 DEF TrainerStep, queues, sessions, Blocked
  <2>2. Placed(s) => Placed(s)'
    BY <1>3, <1>6, <2>1 DEF Placed
  <2> QED BY <1>2, <1>3, <1>4, <1>5, <2>1, <2>2 DEF Requests
<1>10. Battling(s)'
  <2>1. dpc' = dpc /\ freed' = freed /\ perdedor' = perdedor /\ Asking' = Asking
    BY <1>2 DEF TrainerStep, sessions, fight, Asking
  <2>2. ~Has(out[s], "pokemon")
    BY <1>2, <1>3 DEF Battling
  <2> QED BY <1>2, <1>3, <1>4, <1>5, <2>1, <2>2 DEF Battling
<1>11. Picks'
  <2>1. pokemons' = pokemons /\ freed' = freed
    BY <1>2 DEF TrainerStep, sessions
  <2>3. ASSUME NEW r \in Sessions, r \notin freed, ~HasDied(Owner[r]), tpc[r] # "new"
        PROVE  /\ Range(nombres'[Owner[r]]) \subseteq Range(pokemons[r]) \cup {NONE}
               /\ Given(out'[r], Range(pokemons[r]) \cup {Previous[Owner[r]]})
    <3>1. /\ Range(nombres[Owner[r]]) \subseteq Range(pokemons[r]) \cup {NONE}
          /\ Given(out[r], Range(pokemons[r]) \cup {Previous[Owner[r]]})
      BY <1>2, <2>3 DEF Picks
    <3>2. CASE r = s
      <4>1. x \in Range(pokemons[s]) \cup {Previous[Owner[s]]}
        BY <1>4, <3>1, <3>2
      <4> QED BY <1>1, <1>4, <1>5, <3>1, <3>2, <4>1
    <3> QED BY <1>1, <1>5, <3>1, <3>2
  <2>4. \A r \in Sessions : \A X : Given(in[r], X) => Given(in'[r], X)
    BY <1>3
  <2> QED BY <1>2, <2>1, <2>3, <2>4, PicksOfTrainer
<1>12. \A r \in Sessions : Requests(r)' /\ Battling(r)'
  BY <1>3, <1>5, <1>6, <1>9, <1>10
<1> QED BY <1>6, <1>7, <1>8, <1>11, <1>12 DEF IInv

\* The pokemon it waited for: it asks for the next.
LEMMA CatchPokemonKeeps ==
  ASSUME IInv, undefined = "no", NEW s \in Sessions, RecvCatch(s), Head(in[s])[1] = "pokemon"
  PROVE  IInv'
<1> DEFINE t == Owner[s]
           m == Ubicar(t, goal[t] + 1)
<1>1. /\ tpc' = [tpc EXCEPT ![s] = "locate"]
      /\ nombres' = [nombres EXCEPT ![t][goal[t]] = Head(in[s])[2]]
      /\ goal' = [goal EXCEPT ![t] = goal[t] + 1]
      /\ out' = [out EXCEPT ![s] = Append(@, m)]
      /\ backlog' = backlog
  BY DEF RecvCatch
<1>2. TypeOK /\ Requests(s) /\ Battling(s) /\ Journeys /\ Picks /\ TrainerStep /\ tpc[s] = "catch"
  BY CatchFacts
<1>3. /\ in' \in [Sessions -> Seq(ToTrainer)]
      /\ \A r \in Sessions : r # s => in'[r] = in[r]
      /\ \A kind : Has(in'[s], kind) => Has(in[s], kind)
      /\ Has(in[s], "victima") => Has(in'[s], "victima")
      /\ Has(in[s], "pokemon")
      /\ \A kind : Once(in[s], kind) => Once(in'[s], kind)
      /\ Once(in[s], "pokemon") => ~Has(in'[s], "pokemon")
      /\ \A X : Given(in[s], X) => Given(in'[s], X) /\ Head(in[s])[2] \in X
      /\ Head(in[s])[2] \in Pokemons
  BY CatchFacts, ToTrainerKinds
<1>4. /\ t \in Trainers /\ goal[t] + 1 \in DOMAIN Goals[t] /\ goal[t] + 1 \in Nat
      /\ goal[t] \in DOMAIN Goals[t]
      /\ nombres[t] \in [DOMAIN Goals[t] -> Pokemons \cup {NONE}]
      /\ Goals[t] \in Seq(Nests)
  <2>1. t \in Trainers /\ Goals[t] \in Seq(Nests)
    BY Constants
  <2>2. goal[t] \in Nat /\ goal[t] \in DOMAIN Goals[t] /\ goal[t] < Len(Goals[t])
        /\ nombres[t] \in [DOMAIN Goals[t] -> Pokemons \cup {NONE}]
    BY <1>2, <2>1 DEF TypeOK, Journeys
  <2>3. goal[t] + 1 \in 1 .. Len(Goals[t])
    BY <2>1, <2>2
  <2> QED BY <2>1, <2>2, <2>3
<1>5. m \in ToMap /\ m[1] = "ubicar"
  <2>1. Goals[t][goal[t] + 1] \in Nests
    BY <1>4
  <2> QED BY <2>1 DEF Ubicar, Msg, ToMap
<1> HIDE DEF m
<1>6. /\ out' \in [Sessions -> Seq(ToMap)]
      /\ \A r \in Sessions : r # s => out'[r] = out[r]
      /\ \A kind : Has(out'[s], kind) <=> Has(out[s], kind) \/ m[1] = kind
      /\ \A kind : Once(out[s], kind) /\ ~(Has(out[s], kind) /\ m[1] = kind) => Once(out'[s], kind)
      /\ \A X : Given(out[s], X) /\ (m[1] = "pokemon" => m[2] \in X) => Given(out'[s], X)
  BY <1>1, <1>2, <1>5, Asks
<1>7. tpc' \in [Sessions -> Places] /\ tpc'[s] = "locate" /\ \A r \in Sessions : r # s => tpc'[r] = tpc[r]
  BY <1>1, <1>2 DEF TypeOK, Places
<1>8. /\ Queues' /\ Detector' /\ Unreleased' /\ InQuiet' /\ BreaksForACause'
      /\ \A r \in Sessions :
           /\ Eaten(r) => Eaten(r)'
           /\ Outside(r) /\ in'[r] = in[r] /\ out'[r] = out[r] => Outside(r)'
           /\ tpc'[r] = tpc[r] /\ in'[r] = in[r] /\ out'[r] = out[r] =>
                Requests(r)' /\ Battling(r)'
  <2>1. \A r \in Sessions :
           /\ tpc[r] \in {"dead", "closed"} => tpc'[r] = tpc[r]
           /\ ~Has(in[r], "batalla") /\ ~Has(out[r], "pokemon") =>
                ~Has(in'[r], "batalla") /\ ~Has(out'[r], "pokemon")
           /\ tpc[r] \in {"dead", "closed", "derailed"} \/ Has(in[r], "victima") =>
                tpc'[r] \in {"dead", "closed", "derailed"} \/ Has(in'[r], "victima")
    BY <1>2, <1>3, <1>5, <1>6, <1>7
  <2> QED BY <1>2, <2>1, TrainerFrame
<1>9. /\ goal' \in [Trainers -> Nat] /\ goal'[t] = goal[t] + 1
      /\ \A u \in Trainers : u # t => goal'[u] = goal[u]
  <2>1. goal \in [Trainers -> Nat]
    BY <1>2 DEF TypeOK
  <2> QED BY <1>1, <1>4, <2>1
<1>17. /\ DOMAIN nombres' = Trainers
       /\ \A u \in Trainers : u # t => nombres'[u] = nombres[u]
  BY <1>1, <1>2, <1>4 DEF TypeOK
<1>18. nombres'[t] = [nombres[t] EXCEPT ![goal[t]] = Head(in[s])[2]]
  BY <1>1, <1>2, <1>4 DEF TypeOK
<1>10. /\ nombres'[t] \in [DOMAIN Goals[t] -> Pokemons \cup {NONE}]
       /\ Range(nombres'[t]) \subseteq Range(nombres[t]) \cup {Head(in[s])[2]}
  <2>1. PICK f : f = nombres[t]
    OBVIOUS
  <2> DEFINE g == [f EXCEPT ![goal[t]] = Head(in[s])[2]]
  <2>2. f \in [DOMAIN Goals[t] -> Pokemons \cup {NONE}]
    BY <1>4, <2>1
  <2>3. g \in [DOMAIN Goals[t] -> Pokemons \cup {NONE}]
    BY <1>3, <2>2
  <2>4. \A k \in DOMAIN g : k \in DOMAIN f /\ (g[k] = f[k] \/ g[k] = Head(in[s])[2])
    BY <2>2
  <2>5. Range(g) \subseteq Range(f) \cup {Head(in[s])[2]}
    BY <2>4 DEF Range
  <2> QED BY <1>18, <2>1, <2>3, <2>5
<1>11. TypeOK'
  <2>1. \A u \in Trainers : goal'[u] \in DOMAIN Goals[u]
                             /\ nombres'[u] \in [DOMAIN Goals[u] -> Pokemons \cup {NONE}]
    BY <1>2, <1>4, <1>9, <1>10, <1>17 DEF TypeOK
  <2> QED BY <1>1, <1>2, <1>3, <1>6, <1>7, <1>9, <1>17, <2>1
          DEF TypeOK, TrainerStep, queues, sessions, copies, fight
<1>12. Journeys'
  <2>1. \A r \in Sessions : r # s /\ Outside(r) => Outside(r)'
    BY <1>3, <1>6, <1>8
  <2>2. ASSUME NEW r \in Sessions, r # s, tpc[r] = "catch" PROVE goal'[Owner[r]] = goal[Owner[r]]
    <3>1. Owner[r] # t
      BY <1>2, <2>2 DEF Journeys
    <3>2. Owner[r] \in Trainers
      BY Constants
    <3> QED BY <1>9, <3>1, <3>2
  <2> QED BY <1>1, <1>2, <2>1, <2>2, JourneysMoved DEF Places
<1>13. Requests(s)'
  <2>1. /\ colaListos' = colaListos /\ buscada' = buscada
    BY <1>2 DEF TrainerStep, queues, sessions
  <2>2. /\ s \in colaListos /\ ~Has(out[s], "atrapar") /\ ~Has(out[s], "ubicar") /\ ~Has(in[s], "ubicacion")
        /\ ~Has(in'[s], "pokemon") /\ ~Has(in'[s], "ubicacion")
    BY <1>2, <1>3 DEF Requests
  <2> QED BY <1>2, <1>3, <1>5, <1>6, <1>7, <2>1, <2>2 DEF Requests
<1>14. Battling(s)'
  <2>1. dpc' = dpc /\ freed' = freed /\ perdedor' = perdedor /\ Asking' = Asking
    BY <1>2 DEF TrainerStep, sessions, fight, Asking
  <2> QED BY <1>2, <1>3, <1>5, <1>6, <1>7, <2>1 DEF Battling
<1>15. Picks'
  <2>1. pokemons' = pokemons /\ freed' = freed
    BY <1>2 DEF TrainerStep, sessions
  <2>2. \A r \in Sessions : (tpc[r] = "dead" => tpc'[r] = "dead") /\ (tpc[r] = "new" => tpc'[r] = "new")
    BY <1>2, <1>7
  <2>3. ASSUME NEW r \in Sessions, r \notin freed, ~HasDied(Owner[r]), tpc[r] # "new"
        PROVE  /\ Range(nombres'[Owner[r]]) \subseteq Range(pokemons[r]) \cup {NONE}
               /\ Given(out'[r], Range(pokemons[r]) \cup {Previous[Owner[r]]})
    <3>1. /\ Range(nombres[Owner[r]]) \subseteq Range(pokemons[r]) \cup {NONE}
          /\ Given(out[r], Range(pokemons[r]) \cup {Previous[Owner[r]]})
          /\ Given(in[r], Range(pokemons[r]))
      BY <1>2, <2>3 DEF Picks
    <3>2. CASE r = s
      <4>1. Head(in[s])[2] \in Range(pokemons[s])
        BY <1>3, <3>1, <3>2
      <4>2. Given(out'[s], Range(pokemons[s]) \cup {Previous[Owner[s]]})
        BY <1>5, <1>6, <3>1, <3>2
      <4> QED BY <1>10, <3>1, <3>2, <4>1, <4>2
    <3>3. CASE r # s
      <4>1. tpc[r] # "dead"
        BY <2>3 DEF HasDied
      <4>2. Owner[r] # t /\ Owner[r] \in Trainers
        BY <1>2, <2>3, <3>3, <4>1, Constants DEF Journeys
      <4> QED BY <1>6, <1>17, <3>1, <3>3, <4>2
    <3> QED BY <3>2, <3>3
  <2>4. \A r \in Sessions : \A X : Given(in[r], X) => Given(in'[r], X)
    BY <1>3
  <2> QED BY <1>2, <2>1, <2>2, <2>3, <2>4, PicksOfTrainer
<1>16. \A r \in Sessions : Requests(r)' /\ Battling(r)'
  BY <1>3, <1>6, <1>7, <1>8, <1>13, <1>14
<1> QED BY <1>8, <1>11, <1>12, <1>15, <1>16 DEF IInv

\* It is told that it died: its next session begins.
LEMMA CatchVictimaKeeps ==
  ASSUME IInv, undefined = "no", NEW s \in Sessions, RecvCatch(s), Head(in[s])[1] = "victima"
  PROVE  IInv'
<1> DEFINE t == Owner[s]
<1>1. PICK n : n = NextSession[s]
  OBVIOUS
<1>2. /\ tpc' = [r \in Sessions |-> IF r = s THEN "dead" ELSE IF r = n THEN "backlog" ELSE tpc[r]]
      /\ backlog' = IF n = NONE THEN backlog ELSE Append(backlog, n)
      /\ goal' = [goal EXCEPT ![t] = 1]
      /\ nombres' = nombres /\ out' = out
  BY <1>1 DEF RecvCatch
<1>3. TypeOK /\ Requests(s) /\ Battling(s) /\ Journeys /\ Picks /\ TrainerStep /\ tpc[s] = "catch"
  BY CatchFacts
<1>4. /\ in' \in [Sessions -> Seq(ToTrainer)]
      /\ \A r \in Sessions : r # s => in'[r] = in[r]
      /\ \A kind : Has(in'[s], kind) => Has(in[s], kind)
      /\ Has(in[s], "victima")
      /\ \A kind : Once(in[s], kind) => Once(in'[s], kind)
      /\ \A X : Given(in[s], X) => Given(in'[s], X)
  BY CatchFacts
<1>5. n \in Sessions \cup {NONE} /\ NONE \notin Sessions
  BY <1>1, Constants
<1>6. n # NONE => tpc[n] = "new" /\ n # s /\ Owner[n] = t /\ Outside(n) /\ n \notin Range(backlog)
      /\ \A q \in Sessions : NextSession[q] = n => q = s
  BY <1>1, <1>3, <1>5, Constants DEF Journeys
<1>7. /\ tpc'[s] = "dead" /\ (n # NONE => tpc'[n] = "backlog")
      /\ \A r \in Sessions \ {s, n} : tpc'[r] = tpc[r]
      /\ tpc' \in [Sessions -> Places]
  BY <1>2, <1>3, <1>5, <1>6 DEF TypeOK, Places
<1>8. /\ Queues' /\ Detector' /\ Unreleased' /\ InQuiet' /\ BreaksForACause'
      /\ \A r \in Sessions :
           /\ Outside(r) /\ in'[r] = in[r] /\ out'[r] = out[r] => Outside(r)'
           /\ tpc'[r] = tpc[r] /\ in'[r] = in[r] /\ out'[r] = out[r] =>
                Requests(r)' /\ Battling(r)'
  <2>1. n # NONE => ~Has(in[n], "victima")
    BY <1>6, NoMessage DEF Outside
  <2>2. \A r \in Sessions :
           /\ tpc[r] \in {"dead", "closed"} => tpc'[r] = tpc[r]
           /\ ~Has(in[r], "batalla") /\ ~Has(out[r], "pokemon") =>
                ~Has(in'[r], "batalla") /\ ~Has(out'[r], "pokemon")
           /\ tpc[r] \in {"dead", "closed", "derailed"} \/ Has(in[r], "victima") =>
                tpc'[r] \in {"dead", "closed", "derailed"} \/ Has(in'[r], "victima")
    BY <1>2, <1>3, <1>4, <1>5, <1>6, <1>7, <2>1
  <2> QED BY <1>3, <2>2, TrainerFrame
<1>9. /\ backlog' \in Seq(Sessions) /\ IsInjective(backlog')
      /\ Range(backlog') = Range(backlog) \cup ({n} \ {NONE})
  <2>1. backlog \in Seq(Sessions) /\ IsInjective(backlog)
    BY <1>3 DEF TypeOK, Journeys
  <2>2. CASE n = NONE
    BY <1>2, <2>1, <2>2
  <2>3. CASE n # NONE
    BY <1>2, <1>5, <1>6, <2>1, <2>3, AppendRange
  <2> QED BY <2>2, <2>3
<1>10. /\ goal' \in [Trainers -> Nat] /\ \A u \in Trainers : goal'[u] \in DOMAIN Goals[u]
       /\ \A u \in Trainers : u # t => goal'[u] = goal[u]
  <2>1. \A u \in Trainers : Goals[u] \in Seq(Nests) /\ Goals[u] # <<>>
    BY DeteccionAssumption
  <2>2. \A u \in Trainers : 1 \in DOMAIN Goals[u]
    BY <2>1
  <2> QED BY <1>2, <1>3, <2>2 DEF TypeOK
<1>11. TypeOK'
  BY <1>2, <1>3, <1>4, <1>7, <1>9, <1>10 DEF TypeOK, TrainerStep, queues, sessions, copies, fight
<1>12. Journeys'
  <2>1. ASSUME NEW r \in Sessions
        PROVE  /\ tpc'[r] = "backlog" <=> r \in Range(backlog')
               /\ tpc'[r] \in {"new", "backlog"} => Outside(r)'
    <3>1. tpc[r] = "backlog" <=> r \in Range(backlog)
      BY <1>3 DEF Journeys
    <3>2. tpc[r] \in {"new", "backlog"} => Outside(r)'
      BY <1>2, <1>3, <1>4, <1>8 DEF Journeys
    <3> QED BY <1>3, <1>5, <1>6, <1>7, <1>9, <3>1, <3>2
  <2>2. ASSUME NEW r \in Sessions, tpc'[r] # "dead", NextSession[r] # NONE
        PROVE  tpc'[NextSession[r]] = "new"
    <3>1. NextSession[r] \in Sessions /\ r # s
      BY <1>7, <2>2, Constants
    <3>2. tpc[r] # "dead"
      BY <1>5, <1>6, <1>7, <2>2, <3>1
    <3>3. tpc[NextSession[r]] = "new"
      BY <1>3, <2>2, <3>2 DEF Journeys
    <3>4. NextSession[r] # s /\ NextSession[r] # n
      BY <1>3, <1>6, <2>2, <3>1, <3>3
    <3> QED BY <1>7, <3>1, <3>3, <3>4
  <2>3. ASSUME NEW r \in Sessions, tpc'[r] = "catch" PROVE goal'[Owner[r]] < Len(Goals[Owner[r]])
    <3>1. r # s /\ tpc[r] = "catch"
      BY <1>5, <1>7, <2>3
    <3>2. Owner[r] # t /\ Owner[r] \in Trainers
      BY <1>3, <3>1, Constants DEF Journeys
    <3> QED BY <1>3, <1>10, <3>1, <3>2 DEF Journeys
  <2>4. ASSUME NEW q \in Sessions, NEW r \in Sessions, Owner[q] = Owner[r],
               tpc'[q] \notin {"new", "dead"}, tpc'[r] \notin {"new", "dead"}
        PROVE  q = r
    <3>1. q # s /\ r # s
      BY <1>7, <2>4
    <3>2. \A x \in Sessions : x # s /\ x # n /\ tpc'[x] \notin {"new", "dead"} => tpc[x] \notin {"new", "dead"}
      BY <1>7
    <3>3. \A x, y \in Sessions : Owner[x] = Owner[y] /\ tpc[x] \notin {"new", "dead"}
                                 /\ tpc[y] \notin {"new", "dead"} => x = y
      BY <1>3 DEF Journeys
    <3>4. \A x \in Sessions : x # s /\ x # n /\ tpc'[x] \notin {"new", "dead"} => Owner[x] # t
      BY <1>3, <3>2, <3>3
    <3> QED BY <1>5, <1>6, <2>4, <3>1, <3>2, <3>3, <3>4
  <2> QED BY <1>9, <2>1, <2>2, <2>3, <2>4 DEF Journeys
<1>13. Requests(s)'
  <2>1. /\ colaListos' = colaListos /\ buscada' = buscada
    BY <1>3 DEF TrainerStep, queues, sessions
  <2> QED BY <1>2, <1>3, <1>4, <1>7, <2>1 DEF Requests
<1>14. Battling(s)'
  <2>1. dpc' = dpc /\ freed' = freed /\ perdedor' = perdedor /\ Asking' = Asking
    BY <1>3 DEF TrainerStep, sessions, fight, Asking
  <2> QED BY <1>2, <1>3, <1>4, <1>7, <2>1 DEF Battling
<1>15. n # NONE => Requests(n)' /\ Battling(n)'
  <2>1. ASSUME n # NONE PROVE in'[n] = <<>> /\ out'[n] = <<>> /\ tpc'[n] = "backlog"
    BY <1>2, <1>4, <1>5, <1>6, <1>7, <2>1 DEF Outside
  <2> QED BY <2>1, NoMessage DEF Requests, Battling
<1>16. Picks'
  <2>1. pokemons' = pokemons /\ freed' = freed
    BY <1>3 DEF TrainerStep, sessions
  <2>2. \A r \in Sessions :
           /\ tpc[r] = "dead" => tpc'[r] = "dead"
           /\ tpc[r] = "new" /\ tpc'[r] # "new" => \E q \in Sessions : Owner[q] = Owner[r] /\ tpc'[q] = "dead"
    BY <1>3, <1>5, <1>6, <1>7
  <2>3. \A r \in Sessions : r \notin freed /\ ~HasDied(Owner[r]) /\ tpc[r] # "new" =>
          /\ Range(nombres'[Owner[r]]) \subseteq Range(pokemons[r]) \cup {NONE}
          /\ Given(out'[r], Range(pokemons[r]) \cup {Previous[Owner[r]]})
    BY <1>2, <1>3 DEF Picks
  <2>4. \A r \in Sessions : \A X : Given(in[r], X) => Given(in'[r], X)
    BY <1>4
  <2> QED BY <1>3, <2>1, <2>2, <2>3, <2>4, PicksOfTrainer
<1>17. \A r \in Sessions : Requests(r)' /\ Battling(r)'
  BY <1>2, <1>4, <1>5, <1>7, <1>8, <1>13, <1>14, <1>15
<1> QED BY <1>8, <1>11, <1>12, <1>16, <1>17 DEF IInv

LEMMA RecvCatchKeeps ==
  ASSUME IInv, undefined = "no", NEW s \in Sessions, RecvCatch(s)
  PROVE  IInv'
<1>1. CASE Head(in[s])[1] = "pokemon"
  BY <1>1, CatchPokemonKeeps
<1>2. CASE Head(in[s])[1] = "victima"
  BY <1>2, CatchVictimaKeeps
<1>3. CASE Head(in[s])[1] \notin {"pokemon", "victima"} /\ out' = out
  BY <1>3, CatchIgnoresKeeps
<1>4. CASE Head(in[s])[1] \notin {"pokemon", "victima"} /\ out' # out
  <2>1. Head(in[s])[1] = "batalla" /\ tpc' = tpc
    BY <1>4 DEF RecvCatch
  <2>2. PICK x \in Best(Owner[s]) : out' = [out EXCEPT ![s] = Append(@, Msg("pokemon", x))]
    BY <1>4, <2>1 DEF RecvCatch
  <2> QED BY <2>1, <2>2, CatchAnswersKeeps
<1> QED BY <1>1, <1>2, <1>3, <1>4

-----------------------------------------------------------------------------
(* The planner *)

\* A step that only breaks the map.
LEMMA Breaks ==
  ASSUME IInv, UNCHANGED <<trainer, sockets, queues, sessions, selector, dpc, copies, fight>>,
         undefined' \in {"no", "freedCopy", "freedTrainer", "gone", "moved", "stalePick", "doubleFree"},
         BreaksForACause'
  PROVE  IInv'
<1>1. /\ tpc' = tpc /\ goal' = goal /\ nombres' = nombres /\ backlog' = backlog /\ in' = in /\ out' = out
      /\ entrenadores' = entrenadores /\ colaListos' = colaListos /\ colaBloqueados' = colaBloqueados
      /\ buscada' = buscada /\ pokemons' = pokemons /\ freed' = freed /\ libres' = libres
      /\ master' = master /\ lectura' = lectura /\ reading' = reading /\ dpc' = dpc
      /\ filas' = filas /\ pedida' = pedida /\ deadlockeados' = deadlockeados
      /\ perdedor' = perdedor /\ elegido' = elegido
  BY DEF trainer, sockets, queues, sessions, selector, copies, fight
<1>2. Blocked' = Blocked /\ Asking' = Asking /\ Fighters' = Fighters /\ (Battle' <=> Battle)
      /\ (Quiet' <=> Quiet)
  BY <1>1 DEF Blocked, Asking, Fighters, Battle, Quiet
<1>3. \A s : (Eaten(s) <=> Eaten(s)') /\ (Outside(s) <=> Outside(s)') /\ (Gone(s) <=> Gone(s)')
  BY <1>1, <1>2 DEF Eaten, Outside, Gone
<1>4. TypeOK'
  BY <1>1 DEF IInv, TypeOK
<1>5. Journeys'
  BY <1>1, <1>3 DEF IInv, Journeys
<1>6. \A s \in Sessions : Requests(s)' /\ Battling(s)'
  <2>1. \A s \in Sessions : Requests(s) /\ Battling(s)
    BY DEF IInv
  <2> QED BY <1>1, <1>2, <1>3, <2>1 DEF Requests, Battling, Placed
<1>7. Queues' /\ Detector'
  BY <1>1, <1>2 DEF IInv, Queues, Detector
<1>8. Unreleased'
  BY <1>1, <1>2, <1>3 DEF IInv, Unreleased
<1>9. InQuiet'
  BY <1>1, <1>2, <1>3 DEF IInv, InQuiet
<1>10. Picks'
  BY <1>1 DEF IInv, Picks, HasDied
<1> QED BY <1>4, <1>5, <1>6, <1>7, <1>8, <1>9, <1>10 DEF IInv

LEMMA PlanFreedKeeps ==
  ASSUME IInv, undefined = "no", NEW s \in Sessions, PlanFreed(s)
  PROVE  IInv'
<1>1. ~Quiet
  BY DEF PlanFreed, IInv, InQuiet
<1>2. \E t \in Trainers : HasQuit(t)
  BY <1>1, Constants DEF Quiet, HasQuit
<1>3. (\E t \in Trainers : HasQuit(t))' /\ dpc' = dpc /\ filas' = filas
  BY <1>2 DEF HasQuit, PlanFreed, trainer, copies
<1>4. BreaksForACause'
  <2>1. undefined' = "freedTrainer"
    BY DEF PlanFreed
  <2> QED BY <1>3, <2>1 DEF BreaksForACause, IInv
<1>5. undefined' = "freedTrainer"
  BY DEF PlanFreed
<1> QED BY <1>4, <1>5, Breaks DEF PlanFreed

PlanStep == UNCHANGED <<trainer, entrenadores, freed, backlog, lectura, reading, dpc, copies, fight, undefined>>

\* What the planner does with the first request of a ready trainer.
LEMMA PlanFrame ==
  ASSUME IInv, undefined = "no", PlanStep, NEW s \in Sessions, s \in colaListos \ freed,
         in' \in [Sessions -> Seq(ToTrainer)], out' \in [Sessions -> Seq(ToMap)],
         buscada' \in [Sessions -> Nests \cup {NONE}], pokemons' \in [Sessions -> Seq(Pokemons)],
         libres' \in [Nests -> SUBSET Pokemons],
         \A r \in Sessions : r # s =>
           in'[r] = in[r] /\ out'[r] = out[r] /\ buscada'[r] = buscada[r] /\ pokemons'[r] = pokemons[r],
         \A kind \in {"batalla", "victima"} : Has(in'[s], kind) <=> Has(in[s], kind),
         Once(in'[s], "batalla"), Has(out'[s], "pokemon") => Has(out[s], "pokemon"),
         Once(out'[s], "pokemon"),
         Range(pokemons[s]) \subseteq Range(pokemons'[s]),
         \A X : Given(in[s], X) /\ Range(pokemons'[s]) \subseteq X => Given(in'[s], X),
         \A X : Given(out[s], X) => Given(out'[s], X),
         \/ UNCHANGED <<colaListos, colaBloqueados, master>>
         \/ /\ colaListos' = colaListos \ {s}
            /\ colaBloqueados' = Append(colaBloqueados, s)
            /\ master' = master \cup {s}
            /\ buscada'[s] \in Nests,
         Requests(s)'
  PROVE  IInv'
<1>1. /\ tpc' = tpc /\ goal' = goal /\ nombres' = nombres /\ backlog' = backlog
      /\ entrenadores' = entrenadores /\ freed' = freed
      /\ lectura' = lectura /\ reading' = reading /\ dpc' = dpc
      /\ filas' = filas /\ pedida' = pedida /\ deadlockeados' = deadlockeados
      /\ perdedor' = perdedor /\ elegido' = elegido /\ undefined' = undefined
  BY DEF PlanStep, trainer, copies, fight
<1>2. Asking' = Asking /\ Fighters' = Fighters /\ (Battle' <=> Battle) /\ (Quiet' <=> Quiet)
  BY <1>1 DEF Asking, Fighters, Battle, Quiet
<1>3. TypeOK /\ Requests(s) /\ Battling(s) /\ Journeys /\ Picks /\ Queues
  BY DEF IInv
<1>4. s \notin Blocked /\ s # reading
  BY <1>3 DEF Queues
<1>5. /\ colaBloqueados' \in Seq(Sessions) /\ IsInjective(colaBloqueados')
      /\ Blocked' = Blocked \/ (Blocked' = Blocked \cup {s} /\ s \in master' /\ buscada'[s] \in Nests)
  <2>1. colaBloqueados \in Seq(Sessions) /\ IsInjective(colaBloqueados)
    BY <1>3 DEF TypeOK, Queues
  <2>2. CASE colaBloqueados' = colaBloqueados
    BY <2>1, <2>2 DEF Blocked
  <2>3. CASE colaBloqueados' = Append(colaBloqueados, s)
    <3>1. PICK l : l = Append(colaBloqueados, s)
      OBVIOUS
    <3>2. l \in Seq(Sessions) /\ IsInjective(l) /\ Range(l) = Range(colaBloqueados) \cup {s}
      BY <1>4, <2>1, <3>1, AppendRange DEF Blocked
    <3>3. colaBloqueados' = l
      BY <2>3, <3>1
    <3>4. s \in master' /\ buscada'[s] \in Nests
      <4>1. colaBloqueados' # colaBloqueados
        BY <1>4, <3>2, <3>3 DEF Blocked
      <4> QED BY <4>1
    <3> QED BY <3>2, <3>3, <3>4 DEF Blocked
  <2> QED BY <2>2, <2>3
<1>6. /\ colaListos' \subseteq colaListos /\ s \in colaListos' \cup Blocked'
      /\ \A r \in Sessions : r # s => /\ r \in colaListos' <=> r \in colaListos
                                      /\ r \in master' <=> r \in master
                                      /\ r \in Blocked' <=> r \in Blocked
      /\ s \in Blocked' => s \notin colaListos'
      /\ master' \subseteq Sessions /\ (s \in master' => s \in master \/ s \in Blocked')
  <2>1. CASE UNCHANGED <<colaListos, colaBloqueados, master>>
    <3>1. Blocked' = Blocked
      BY <2>1 DEF Blocked
    <3> QED BY <1>3, <1>4, <2>1, <3>1 DEF TypeOK
  <2>2. CASE colaListos' = colaListos \ {s} /\ colaBloqueados' = Append(colaBloqueados, s)
             /\ master' = master \cup {s}
    <3>1. PICK l : l = Append(colaBloqueados, s)
      OBVIOUS
    <3>2. Range(l) = Range(colaBloqueados) \cup {s}
      BY <1>3, <3>1, AppendRange DEF TypeOK
    <3>3. Blocked' = Blocked \cup {s}
      BY <2>2, <3>1, <3>2 DEF Blocked
    <3> QED BY <1>3, <2>2, <3>3 DEF TypeOK
  <2> QED BY <2>1, <2>2
<1>7. ASSUME NEW r \in Sessions PROVE Eaten(r) => Eaten(r)' /\ r # s
  <2>1. Eaten(r) => r # s
    BY DEF Eaten
  <2> QED BY <1>1, <1>2, <1>6, <2>1 DEF Eaten
<1>8. TypeOK'
  BY <1>1, <1>3, <1>5, <1>6 DEF TypeOK
<1>9. Journeys'
  <2>1. ASSUME NEW r \in Sessions, Outside(r) PROVE Outside(r)'
    <3>1. r # s
      BY <2>1 DEF Outside
    <3> QED BY <1>1, <1>2, <1>6, <2>1, <3>1 DEF Outside
  <2> QED BY <1>1, <1>3, <2>1, JourneysKept
<1>10. ASSUME NEW r \in Sessions PROVE Requests(r)' /\ Battling(r)'
  <2>1. CASE r = s
    <3>1. Battling(s)'
      BY <1>1, <1>2, <1>3 DEF Battling
    <3> QED BY <2>1, <3>1
  <2>2. CASE r # s
    <3>1. r \in Blocked \cup {reading} => r \in Blocked' \cup {reading'}
      BY <1>1, <1>6, <2>2
    <3>2. (Requests(r) => Requests(r)') /\ (Battling(r) => Battling(r)')
      BY <1>1, <1>2, <1>6, <1>7, <2>2, <3>1, Untouched
    <3> QED BY <3>2 DEF IInv
  <2> QED BY <2>1, <2>2
<1>11. Queues'
  <2>1. \A r \in Blocked' : r \in Sessions
    BY <1>5, OnList DEF Blocked
  <2>2. ASSUME NEW r \in Blocked'
        PROVE  r \notin colaListos' \cup freed' \cup {reading'} /\ buscada'[r] \in Nests
    <3>1. r \in Sessions
      BY <2>1
    <3>2. CASE r = s
      BY <1>1, <1>4, <1>5, <1>6, <3>2
    <3>3. CASE r # s
      BY <1>1, <1>3, <1>6, <3>1, <3>3 DEF Queues
    <3> QED BY <3>2, <3>3
  <2>3. reading' \notin colaListos'
    BY <1>1, <1>3, <1>6 DEF Queues
  <2>4. IsInjective(entrenadores') /\ IsInjective(filas')
    BY <1>1, <1>3 DEF Queues
  <2> QED BY <1>5, <2>2, <2>3, <2>4 DEF Queues
<1>12. Detector'
  <2>1. dpc = "release" => perdedor \in Sessions
    BY <1>3 DEF IInv, TypeOK, Detector
  <2> QED BY <1>1, <2>1 DEF Detector, IInv
<1>13. Unreleased'
  <2>1. \A r \in Sessions : Gone(r) <=> Gone(r)'
    BY <1>1 DEF Gone
  <2>2. lectura \subseteq Sessions /\ master' \subseteq Sessions /\ reading \in Sessions \cup {NONE}
    BY <1>3, <1>6 DEF TypeOK
  <2>3. freed = {} => \A r \in master' : r \in Blocked' \/ Gone(r)'
    BY <1>4, <1>6, <2>1, <2>2 DEF Unreleased, IInv
  <2> QED BY <1>1, <1>2, <2>1, <2>2, <2>3 DEF Unreleased, IInv
<1>14. InQuiet'
  <2>1. \A r \in Sessions : r \in Blocked \cup {reading} => r \in Blocked' \cup {reading'}
    BY <1>1, <1>4, <1>6
  <2>2. dpc = "answer" => Fighters \subseteq Sessions
    BY <1>3, OnList DEF Fighters, IInv, TypeOK, Detector
  <2>3. dpc \in {"kill", "release"} => perdedor \in Sessions
    BY <1>3 DEF IInv, TypeOK, Detector
  <2>4. Range(deadlockeados) \subseteq Sessions
    BY <1>3, OnList DEF TypeOK
  <2> QED BY <1>1, <1>2, <1>6, <1>7, <2>1, <2>2, <2>3, <2>4 DEF InQuiet, IInv
<1>15. Picks'
  <2>1. ASSUME NEW r \in Sessions \ freed'
        PROVE  /\ Range(pokemons[r]) \subseteq Range(pokemons'[r])
               /\ Given(in'[r], Range(pokemons'[r]))
               /\ \A X : Given(out[r], X) => Given(out'[r], X)
    <3>1. Given(in[r], Range(pokemons[r]))
      BY <1>1, <1>3 DEF Picks
    <3>2. CASE r = s
      <4>1. Given(in[s], Range(pokemons'[s]))
        BY <3>1, <3>2, GivenMore
      <4> QED BY <3>2, <4>1
    <3> QED BY <3>1, <3>2
  <2> QED BY <1>1, <1>3, <2>1, PicksKept
<1>16. BreaksForACause'
  BY <1>1 DEF BreaksForACause, IInv, Detector
<1> QED BY <1>8, <1>9, <1>10, <1>11, <1>12, <1>13, <1>14, <1>15, <1>16 DEF IInv

LEMMA PlanOtherKeeps ==
  ASSUME IInv, undefined = "no", NEW s \in Sessions, PlanOther(s)
  PROVE  IInv'
<1>1. /\ s \in colaListos \ freed /\ out[s] # <<>> /\ Head(out[s])[1] = "pokemon"
      /\ out' = [out EXCEPT ![s] = Tail(@)]
      /\ PlanStep /\ in' = in /\ UNCHANGED <<colaListos, colaBloqueados, master>>
      /\ buscada' = buscada /\ pokemons' = pokemons /\ libres' = libres
  BY DEF PlanOther, Serving, PlanStep, trainer, queues, sessions, selector
<1>2. TypeOK /\ Requests(s) /\ Battling(s)
  BY DEF IInv
<1>3. /\ out' \in [Sessions -> Seq(ToMap)]
      /\ \A r \in Sessions : r # s => out'[r] = out[r]
      /\ \A kind : Has(out'[s], kind) => Has(out[s], kind)
      /\ \A kind : Once(out[s], kind) => Once(out'[s], kind)
      /\ \A X : Given(out[s], X) => Given(out'[s], X)
  BY <1>1, <1>2, Listens
<1>4. Requests(s)'
  <2>1. tpc' = tpc /\ Placed(s)'
    BY <1>1 DEF PlanStep, trainer, Placed
  <2> QED BY <1>1, <1>2, <1>3, <2>1 DEF Requests
<1>5. /\ in' \in [Sessions -> Seq(ToTrainer)] /\ buscada' \in [Sessions -> Nests \cup {NONE}]
      /\ pokemons' \in [Sessions -> Seq(Pokemons)] /\ libres' \in [Nests -> SUBSET Pokemons]
  BY <1>1, <1>2 DEF TypeOK
<1>6. /\ \A r \in Sessions : r # s =>
           in'[r] = in[r] /\ out'[r] = out[r] /\ buscada'[r] = buscada[r] /\ pokemons'[r] = pokemons[r]
      /\ \A kind \in {"batalla", "victima"} : Has(in'[s], kind) <=> Has(in[s], kind)
      /\ Once(in'[s], "batalla") /\ (Has(out'[s], "pokemon") => Has(out[s], "pokemon"))
      /\ Once(out'[s], "pokemon")
      /\ Range(pokemons[s]) \subseteq Range(pokemons'[s])
      /\ \A X : Given(in[s], X) /\ Range(pokemons'[s]) \subseteq X => Given(in'[s], X)
      /\ \A X : Given(out[s], X) => Given(out'[s], X)
  BY <1>1, <1>2, <1>3 DEF Battling
<1> QED BY <1>1, <1>3, <1>4, <1>5, <1>6, PlanFrame

LEMMA PlanUbicarKeeps ==
  ASSUME IInv, undefined = "no", NEW s \in Sessions, PlanUbicar(s)
  PROVE  IInv'
<1> DEFINE n == Head(out[s])[2]
           m == Msg("ubicacion", NONE)
<1>1. /\ s \in colaListos \ freed /\ out[s] # <<>> /\ Head(out[s])[1] = "ubicar"
      /\ out' = [out EXCEPT ![s] = Tail(@)]
      /\ in' = Sent(in, s, m)
      /\ buscada' = [buscada EXCEPT ![s] = n]
      /\ PlanStep /\ UNCHANGED <<colaListos, colaBloqueados, master>>
      /\ pokemons' = pokemons /\ libres' = libres
  BY DEF PlanUbicar, Serving, PlanStep, trainer, queues, sessions, selector
<1>2. TypeOK /\ Requests(s) /\ Battling(s)
  BY DEF IInv
<1>3. /\ out' \in [Sessions -> Seq(ToMap)]
      /\ \A r \in Sessions : r # s => out'[r] = out[r]
      /\ \A kind : Has(out[s], kind) <=> Has(out'[s], kind) \/ Head(out[s])[1] = kind
      /\ \A kind : Once(out[s], kind) => Once(out'[s], kind)
      /\ \A kind : Once(out[s], kind) /\ Head(out[s])[1] = kind => ~Has(out'[s], kind)
      /\ \A X : Given(out[s], X) => Given(out'[s], X)
      /\ n \in Nests
  <2>1. Head(out[s]) \in ToMap
    BY <1>1, <1>2, Listens
  <2>2. n \in Nests
    BY <1>1, <2>1, ToMapKinds
  <2> QED BY <1>1, <1>2, <2>2, Listens
<1>4. /\ m \in ToTrainer /\ m[1] = "ubicacion"
  BY DEF Msg, ToTrainer
<1> HIDE DEF m, n
<1>5. /\ in' \in [Sessions -> Seq(ToTrainer)]
      /\ \A r \in Sessions : r # s => in'[r] = in[r]
      /\ \A kind : Has(in'[s], kind) <=> Has(in[s], kind) \/ (~Gone(s) /\ m[1] = kind)
      /\ \A kind : Once(in[s], kind) /\ ~(Has(in[s], kind) /\ m[1] = kind) => Once(in'[s], kind)
      /\ \A X : Given(in[s], X) /\ (m[1] = "pokemon" => m[2] \in X) => Given(in'[s], X)
  BY <1>1, <1>2, <1>4, TellsOne
<1>6. /\ buscada' \in [Sessions -> Nests \cup {NONE}] /\ buscada'[s] = n
      /\ \A r \in Sessions : r # s => buscada'[r] = buscada[r]
  BY <1>1, <1>2, <1>3 DEF TypeOK
<1>7. Has(out[s], "ubicar") /\ ~Has(out'[s], "ubicar") /\ ~Has(in[s], "ubicacion")
  BY <1>1, <1>2, <1>3 DEF Requests
<1>8. Requests(s)'
  <2>1. tpc' = tpc
    BY <1>1 DEF PlanStep, trainer
  <2> QED BY <1>1, <1>2, <1>3, <1>4, <1>5, <1>6, <1>7, <2>1 DEF Requests
<1>9. /\ pokemons' \in [Sessions -> Seq(Pokemons)] /\ libres' \in [Nests -> SUBSET Pokemons]
  BY <1>1, <1>2 DEF TypeOK
<1>10. /\ \A r \in Sessions : r # s =>
           in'[r] = in[r] /\ out'[r] = out[r] /\ buscada'[r] = buscada[r] /\ pokemons'[r] = pokemons[r]
       /\ \A kind \in {"batalla", "victima"} : Has(in'[s], kind) <=> Has(in[s], kind)
       /\ Once(in'[s], "batalla") /\ (Has(out'[s], "pokemon") => Has(out[s], "pokemon"))
       /\ Once(out'[s], "pokemon")
       /\ Range(pokemons[s]) \subseteq Range(pokemons'[s])
       /\ \A X : Given(in[s], X) /\ Range(pokemons'[s]) \subseteq X => Given(in'[s], X)
       /\ \A X : Given(out[s], X) => Given(out'[s], X)
  BY <1>1, <1>2, <1>3, <1>4, <1>5, <1>6 DEF Battling
<1> QED BY <1>1, <1>3, <1>5, <1>6, <1>8, <1>9, <1>10, PlanFrame

LEMMA PlanAtraparKeeps ==
  ASSUME IInv, undefined = "no", NEW s \in Sessions, PlanAtrapar(s)
  PROVE  IInv'
<1> DEFINE n == Head(out[s])[2]
<1>1. /\ s \in colaListos \ freed /\ out[s] # <<>> /\ Head(out[s])[1] = "atrapar"
      /\ out' = [out EXCEPT ![s] = Tail(@)] /\ PlanStep
  BY DEF PlanAtrapar, Serving, PlanStep
<1>2. TypeOK /\ Requests(s) /\ Battling(s)
  BY DEF IInv
<1>3. /\ out' \in [Sessions -> Seq(ToMap)]
      /\ \A r \in Sessions : r # s => out'[r] = out[r]
      /\ \A kind : Has(out[s], kind) <=> Has(out'[s], kind) \/ Head(out[s])[1] = kind
      /\ \A kind : Once(out[s], kind) => Once(out'[s], kind)
      /\ \A kind : Once(out[s], kind) /\ Head(out[s])[1] = kind => ~Has(out'[s], kind)
      /\ \A X : Given(out[s], X) => Given(out'[s], X)
      /\ n \in Nests
  <2>1. Head(out[s]) \in ToMap
    BY <1>1, <1>2, Listens
  <2>2. n \in Nests
    BY <1>1, <2>1, ToMapKinds
  <2> QED BY <1>1, <1>2, <2>2, Listens
<1>4. /\ Has(out[s], "atrapar") /\ ~Has(out'[s], "atrapar") /\ buscada[s] \in Nests
      /\ tpc[s] \in {"catch", "dead", "closed"} /\ tpc' = tpc
      /\ tpc[s] = "catch" => ~Has(in[s], "pokemon")
  BY <1>1, <1>2, <1>3 DEF Requests, PlanStep, trainer
<1>5. Once(out'[s], "pokemon") /\ (Has(out'[s], "pokemon") => Has(out[s], "pokemon")) /\ Once(in[s], "batalla")
  BY <1>2, <1>3 DEF Battling
<1>6. CASE libres[n] = {}
  <2>1. /\ colaListos' = colaListos \ {s} /\ colaBloqueados' = Append(colaBloqueados, s)
        /\ master' = master \cup {s}
        /\ buscada' = buscada /\ pokemons' = pokemons /\ libres' = libres /\ in' = in
    BY <1>6 DEF PlanAtrapar
  <2>2. s \in Blocked'
    <3>1. PICK l : l = Append(colaBloqueados, s)
      OBVIOUS
    <3>2. s \in Range(l)
      BY <1>2, <3>1, AppendRange DEF TypeOK
    <3> QED BY <2>1, <3>1, <3>2 DEF Blocked
  <2>3. Requests(s)'
    <3>1. Placed(s)'
      BY <2>2 DEF Placed
    <3> QED BY <1>2, <1>3, <1>4, <2>1, <3>1 DEF Requests
  <2>4. /\ in' \in [Sessions -> Seq(ToTrainer)] /\ buscada' \in [Sessions -> Nests \cup {NONE}]
        /\ pokemons' \in [Sessions -> Seq(Pokemons)] /\ libres' \in [Nests -> SUBSET Pokemons]
    BY <1>2, <2>1 DEF TypeOK
  <2>5. /\ \A r \in Sessions : r # s =>
             in'[r] = in[r] /\ out'[r] = out[r] /\ buscada'[r] = buscada[r] /\ pokemons'[r] = pokemons[r]
        /\ \A kind \in {"batalla", "victima"} : Has(in'[s], kind) <=> Has(in[s], kind)
        /\ Once(in'[s], "batalla")
        /\ Range(pokemons[s]) \subseteq Range(pokemons'[s])
        /\ \A X : Given(in[s], X) /\ Range(pokemons'[s]) \subseteq X => Given(in'[s], X)
        /\ buscada'[s] \in Nests
    BY <1>3, <1>4, <1>5, <2>1
  <2> QED BY <1>1, <1>3, <1>5, <2>1, <2>3, <2>4, <2>5, PlanFrame
<1>7. CASE libres[n] # {}
  <2>1. PICK p \in libres[n] : p = CHOOSE x \in libres[n] : TRUE
    BY <1>7
  <2> DEFINE m == Msg("pokemon", p)
  <2>2. /\ UNCHANGED <<colaListos, colaBloqueados, master>>
        /\ buscada' = [buscada EXCEPT ![s] = NONE]
        /\ pokemons' = [pokemons EXCEPT ![s] = Append(@, p)]
        /\ libres' = [libres EXCEPT ![n] = libres[n] \ {p}]
        /\ in' = Sent(in, s, m)
    BY <1>7, <2>1 DEF PlanAtrapar
  <2>3. p \in Pokemons
    BY <1>2, <1>3, <2>1 DEF TypeOK
  <2>4. m \in ToTrainer /\ m[1] = "pokemon" /\ m[2] = p
    BY <2>3 DEF Msg, ToTrainer
  <2> HIDE DEF m, n
  <2>5. /\ in' \in [Sessions -> Seq(ToTrainer)]
        /\ \A r \in Sessions : r # s => in'[r] = in[r]
        /\ Gone(s) => in'[s] = in[s]
        /\ \A kind : Has(in'[s], kind) <=> Has(in[s], kind) \/ (~Gone(s) /\ m[1] = kind)
        /\ \A kind : Once(in[s], kind) /\ ~(Has(in[s], kind) /\ m[1] = kind) => Once(in'[s], kind)
        /\ \A X : Given(in[s], X) /\ (m[1] = "pokemon" => m[2] \in X) => Given(in'[s], X)
    BY <1>2, <2>2, <2>4, TellsOne
  <2>6. /\ buscada' \in [Sessions -> Nests \cup {NONE}]
        /\ \A r \in Sessions : r # s => buscada'[r] = buscada[r]
    BY <1>2, <2>2 DEF TypeOK
  <2>7. /\ pokemons' \in [Sessions -> Seq(Pokemons)] /\ Range(pokemons'[s]) = Range(pokemons[s]) \cup {p}
        /\ \A r \in Sessions : r # s => pokemons'[r] = pokemons[r]
    <3>1. pokemons \in [Sessions -> Seq(Pokemons)] /\ pokemons[s] \in Seq(Pokemons)
      BY <1>2 DEF TypeOK
    <3>2. PICK l : l = Append(pokemons[s], p)
      OBVIOUS
    <3>3. l \in Seq(Pokemons) /\ Range(l) = Range(pokemons[s]) \cup {p}
      BY <2>3, <3>1, <3>2, AppendRange
    <3>4. pokemons' = [pokemons EXCEPT ![s] = l]
      BY <2>2, <3>2
    <3>5. pokemons' \in [Sessions -> Seq(Pokemons)] /\ pokemons'[s] = l
          /\ \A r \in Sessions : r # s => pokemons'[r] = pokemons[r]
      BY <3>1, <3>3, <3>4
    <3> QED BY <3>3, <3>5
  <2>8. libres' \in [Nests -> SUBSET Pokemons]
    BY <1>2, <2>2 DEF TypeOK
  <2>9. tpc[s] # "catch" => Gone(s)
    BY <1>4 DEF Gone
  <2>10. Requests(s)'
    <3>1. Placed(s)'
      BY <1>1, <2>2 DEF Placed
    <3>2. Once(in'[s], "pokemon") /\ Once(in'[s], "ubicacion")
      BY <1>2, <1>4, <2>4, <2>5, <2>9 DEF Requests
    <3> QED BY <1>1, <1>2, <1>3, <1>4, <2>2, <2>4, <2>5, <3>1, <3>2 DEF Requests
  <2>11. /\ \A r \in Sessions : r # s =>
              in'[r] = in[r] /\ out'[r] = out[r] /\ buscada'[r] = buscada[r] /\ pokemons'[r] = pokemons[r]
         /\ \A kind \in {"batalla", "victima"} : Has(in'[s], kind) <=> Has(in[s], kind)
         /\ Once(in'[s], "batalla")
         /\ Range(pokemons[s]) \subseteq Range(pokemons'[s])
         /\ \A X : Given(in[s], X) /\ Range(pokemons'[s]) \subseteq X => Given(in'[s], X)
    BY <1>3, <1>5, <2>4, <2>5, <2>6, <2>7
  <2> QED BY <1>1, <1>3, <1>5, <2>2, <2>5, <2>6, <2>7, <2>8, <2>10, <2>11, PlanFrame
<1> QED BY <1>6, <1>7

-----------------------------------------------------------------------------
(* A trainer is released *)

Gives(S, s, X) ==
  /\ colaBloqueados' \in Seq(Sessions) /\ IsInjective(colaBloqueados')
  /\ Blocked' = Blocked \ (S \cup {s})
  /\ colaListos' = (colaListos \cup S) \ X
  /\ master' \subseteq master /\ freed' = freed \cup {s}
  /\ buscada' \in [Sessions -> Nests \cup {NONE}] /\ pokemons' \in [Sessions -> Seq(Pokemons)]
  /\ libres' \in [Nests -> SUBSET Pokemons] /\ in' \in [Sessions -> Seq(ToTrainer)]
  /\ \A r \in Sessions \ S :
       buscada'[r] = buscada[r] /\ in'[r] = in[r] /\ (r # s => pokemons'[r] = pokemons[r])
  /\ \A r \in S : \E p \in Pokemons :
       /\ pokemons'[r] = Append(pokemons[r], p)
       /\ in'[r] = IF Gone(r) THEN in[r] ELSE Append(in[r], Msg("pokemon", p))

\* Those of the blocked that are given a pokemon.
LEMMA LiberarFacts ==
  ASSUME TypeOK, NEW s \in Sessions, NEW B \in Seq(Sessions), IsInjective(B), Range(B) = Blocked \ {s},
         NEW W, NEW X, Liberar(s, B, W), colaListos' = Liberados(s, B).listos \ X
  PROVE  \E S \in SUBSET (Blocked \ {s}) : Gives(S, s, X)
<1>1. PICK a, S : a = Liberados(s, B) /\ S = Served(a, B)
  OBVIOUS
<1>2. Follows(a, s, B)
  BY <1>1, Liberates
<1>3. /\ colaBloqueados' = a.bloqueados /\ buscada' = a.buscada /\ pokemons' = a.pokemons
      /\ libres' = a.libres /\ in' = a.in /\ master' = a.master \ W /\ freed' = freed \cup {s}
      /\ colaListos' = a.listos \ X
  BY <1>1 DEF Liberar
<1>4. /\ a.bloqueados \in Seq(Sessions) /\ a.buscada \in [Sessions -> Nests \cup {NONE}]
      /\ a.pokemons \in [Sessions -> Seq(Pokemons)] /\ a.libres \in [Nests -> SUBSET Pokemons]
      /\ a.in \in [Sessions -> Seq(ToTrainer)]
  BY <1>2 DEF Follows, Books
<1>5. /\ IsInjective(a.bloqueados) /\ Range(a.bloqueados) \subseteq Blocked \ {s}
      /\ a.listos = colaListos \cup S /\ a.master = master \ S
      /\ \A r \in Sessions : r \notin S =>
           a.buscada[r] = buscada[r] /\ a.in[r] = in[r] /\ (r # s => a.pokemons[r] = pokemons[r])
      /\ \A r \in S : \E p \in Pokemons :
           /\ a.pokemons[r] = Append(pokemons[r], p)
           /\ a.in[r] = IF Gone(r) THEN in[r] ELSE Append(in[r], Msg("pokemon", p))
  BY <1>1, <1>2 DEF Follows
<1>6. S = (Blocked \ {s}) \ Range(a.bloqueados)
  BY <1>1 DEF Served
<1>7. Blocked' = Range(a.bloqueados)
  BY <1>3 DEF Blocked
<1>8. Blocked' = Blocked \ (S \cup {s})
  BY <1>5, <1>6, <1>7
<1>9. S \in SUBSET (Blocked \ {s})
  BY <1>6
<1> HIDE DEF Blocked
<1>10. Gives(S, s, X)
  BY <1>3, <1>4, <1>5, <1>8, <1>9 DEF Gives
<1> QED BY <1>9, <1>10

\* Its trainer's first entry of the list goes; the order of the others stays.
LEMMA LiberarList ==
  ASSUME TypeOK, Queues, NEW s \in Sessions, entrenadores' = Unlisted(entrenadores, Owner, s)
  PROVE  /\ entrenadores' \in Seq(Sessions) /\ IsInjective(entrenadores')
         /\ Range(entrenadores') \subseteq Range(entrenadores)
         /\ (\A i, j \in DOMAIN entrenadores :
               i < j /\ Owner[entrenadores[i]] = Owner[entrenadores[j]] =>
                 entrenadores[i] = s /\ entrenadores[j] # s)
            => /\ s \notin Range(entrenadores')
               /\ \A i, j \in DOMAIN entrenadores' :
                    i < j => Owner[entrenadores'[i]] # Owner[entrenadores'[j]]
<1>1. PICK e, f : e = entrenadores /\ f = Unlisted(e, Owner, s)
  OBVIOUS
<1>2. e \in Seq(Sessions) /\ IsInjective(e)
  BY <1>1 DEF TypeOK, Queues
<1>3. /\ f \in Seq(Sessions)
      /\ \A k \in DOMAIN f : \E i \in DOMAIN e : e[i] = f[k]
      /\ \A k, l \in DOMAIN f : k < l => \E i, j \in DOMAIN e : i < j /\ e[i] = f[k] /\ e[j] = f[l]
      /\ \A i \in DOMAIN e : IsFirst(e, Owner, s, i) =>
           \A k \in DOMAIN f : \E j \in DOMAIN e : j # i /\ e[j] = f[k]
  <2>1. e \in Seq(Sessions) /\ f = Unlisted(e, Owner, s)
    BY <1>1, <1>2
  <2> QED BY <2>1, UnlistedFacts, SMT
<1>4. DOMAIN e = 1 .. Len(e) /\ DOMAIN f = 1 .. Len(f) /\ Len(e) \in Nat /\ Len(f) \in Nat
  BY <1>2, <1>3
<1>5. \A i, j \in DOMAIN e : e[i] = e[j] => i = j
  BY <1>2 DEF IsInjective
<1>6. \A i, j \in DOMAIN e : i < j \/ j < i \/ i = j
  BY <1>4
<1>7. \A i, j \in DOMAIN f : i < j \/ j < i \/ i = j
  BY <1>4
<1>8. \A i, j \in DOMAIN e : i < j => i # j
  BY <1>4
<1>9. IsInjective(f)
  <2>1. ASSUME NEW k \in DOMAIN f, NEW l \in DOMAIN f, f[k] = f[l], k < l PROVE FALSE
    BY <1>3, <1>5, <1>8, <2>1
  <2>2. \A k, l \in DOMAIN f : f[k] = f[l] => k = l
    BY <1>7, <2>1
  <2> QED BY <2>2 DEF IsInjective
<1>10. Range(f) \subseteq Range(e)
  BY <1>3 DEF Range
<1>11. ASSUME \A i, j \in DOMAIN e : i < j /\ Owner[e[i]] = Owner[e[j]] => e[i] = s /\ e[j] # s
       PROVE  /\ s \notin Range(f)
              /\ \A i, j \in DOMAIN f : i < j => Owner[f[i]] # Owner[f[j]]
  <2>1. s \notin Range(f)
    <3>1. CASE s \notin Range(e)
      BY <1>10, <3>1
    <3>2. CASE s \in Range(e)
      <4>1. PICK i \in DOMAIN e : e[i] = s
        BY <3>2 DEF Range
      <4>2. IsFirst(e, Owner, s, i)
        BY <1>11, <4>1 DEF IsFirst
      <4>3. \A k \in DOMAIN f : \E j \in DOMAIN e : j # i /\ e[j] = f[k]
        BY <1>3, <4>1, <4>2
      <4>4. \A k \in DOMAIN f : f[k] # s
        BY <1>5, <4>1, <4>3
      <4> QED BY <4>4 DEF Range
    <3> QED BY <3>1, <3>2
  <2>2. ASSUME NEW k \in DOMAIN f, NEW l \in DOMAIN f, k < l, Owner[f[k]] = Owner[f[l]] PROVE FALSE
    <3>1. f[k] = s
      BY <1>3, <1>11, <2>2
    <3> QED BY <2>1, <3>1 DEF Range
  <2> QED BY <2>1, <2>2
<1>12. entrenadores' = f
  BY <1>1
<1>13. entrenadores = e
  BY <1>1
<1> HIDE DEF Range
<1> QED BY <1>3, <1>9, <1>10, <1>11, <1>12, <1>13

\* What a release keeps, whoever makes it.
Released(s) ==
  /\ TypeOK' /\ Journeys' /\ Queues' /\ Unreleased' /\ Picks' /\ BreaksForACause'
  /\ \A r \in Sessions : /\ Requests(r)' /\ Battling(r)'
                         /\ Has(in'[r], "victima") <=> Has(in[r], "victima")
  /\ freed' = freed \cup {s} /\ colaListos' \subseteq colaListos \cup (Blocked \ {s})
  /\ Range(entrenadores') \subseteq Range(entrenadores)
  /\ (\A i, j \in DOMAIN entrenadores :
        i < j /\ Owner[entrenadores[i]] = Owner[entrenadores[j]] =>
          entrenadores[i] = s /\ entrenadores[j] # s)
     => /\ s \notin Range(entrenadores')
        /\ \A i, j \in DOMAIN entrenadores' :
             i < j => Owner[entrenadores'[i]] # Owner[entrenadores'[j]]

LEMMA LiberarKeeps ==
  ASSUME IInv, NEW s \in Sessions, s \notin freed, tpc[s] \notin {"new", "backlog"},
         NEW B \in Seq(Sessions), IsInjective(B), Range(B) = Blocked \ {s},
         NEW W, NEW X \in SUBSET {s}, Liberar(s, B, W), colaListos' = Liberados(s, B).listos \ X,
         X # {} => out[s] = <<>> /\ Gone(s),
         tpc[s] = "catch" => Has(in[s], "victima"),
         UNCHANGED <<trainer, out, backlog, lectura>>,
         reading' = reading \/ (reading = s /\ reading' = NONE),
         (UNCHANGED <<dpc, copies, fight>>) \/ (dpc = "release" /\ perdedor = s /\ Forget),
         undefined' \in {"no", "doubleFree"}
  PROVE  Released(s)
<1>1. TypeOK /\ Journeys /\ Queues /\ Picks /\ \A r \in Sessions : Requests(r) /\ Battling(r)
  BY DEF IInv
<1>2. PICK S \in SUBSET (Blocked \ {s}) :
        /\ colaBloqueados' \in Seq(Sessions) /\ IsInjective(colaBloqueados')
        /\ Blocked' = Blocked \ (S \cup {s})
        /\ colaListos' = (colaListos \cup S) \ X
        /\ master' \subseteq master /\ freed' = freed \cup {s}
        /\ buscada' \in [Sessions -> Nests \cup {NONE}] /\ pokemons' \in [Sessions -> Seq(Pokemons)]
        /\ libres' \in [Nests -> SUBSET Pokemons] /\ in' \in [Sessions -> Seq(ToTrainer)]
        /\ \A r \in Sessions \ S :
             buscada'[r] = buscada[r] /\ in'[r] = in[r] /\ (r # s => pokemons'[r] = pokemons[r])
        /\ \A r \in S : \E p \in Pokemons :
             /\ pokemons'[r] = Append(pokemons[r], p)
             /\ in'[r] = IF Gone(r) THEN in[r] ELSE Append(in[r], Msg("pokemon", p))
  <2>1. PICK S \in SUBSET (Blocked \ {s}) : Gives(S, s, X)
    BY <1>1, LiberarFacts
  <2> QED BY <2>1 DEF Gives
<1>3. /\ entrenadores' \in Seq(Sessions) /\ IsInjective(entrenadores')
      /\ Range(entrenadores') \subseteq Range(entrenadores)
      /\ (\A i, j \in DOMAIN entrenadores :
            i < j /\ Owner[entrenadores[i]] = Owner[entrenadores[j]] =>
              entrenadores[i] = s /\ entrenadores[j] # s)
         => /\ s \notin Range(entrenadores')
            /\ \A i, j \in DOMAIN entrenadores' :
                 i < j => Owner[entrenadores'[i]] # Owner[entrenadores'[j]]
  BY <1>1, LiberarList DEF Liberar
<1>4. /\ tpc' = tpc /\ goal' = goal /\ nombres' = nombres /\ out' = out /\ backlog' = backlog
      /\ lectura' = lectura
  BY DEF trainer
<1>5. Blocked \subseteq Sessions /\ S \subseteq Sessions /\ s \notin S /\ S \subseteq Blocked
  BY <1>1, OnList DEF Blocked, TypeOK
<1>6. ASSUME NEW r \in S
      PROVE  \E p \in Pokemons :
               /\ Range(pokemons'[r]) = Range(pokemons[r]) \cup {p}
               /\ \A kind : Has(in'[r], kind) <=> Has(in[r], kind) \/ (~Gone(r) /\ kind = "pokemon")
               /\ \A kind : Once(in[r], kind) /\ (kind = "pokemon" => Gone(r) \/ ~Has(in[r], kind))
                    => Once(in'[r], kind)
               /\ Given(in[r], Range(pokemons[r])) => Given(in'[r], Range(pokemons'[r]))
  <2>1. r \in Sessions /\ pokemons[r] \in Seq(Pokemons) /\ in[r] \in Seq(ToTrainer)
    BY <1>1, <1>5 DEF TypeOK
  <2>2. PICK p \in Pokemons :
          /\ pokemons'[r] = Append(pokemons[r], p)
          /\ in'[r] = IF Gone(r) THEN in[r] ELSE Append(in[r], Msg("pokemon", p))
    BY <1>2
  <2>3. PICK l : l = Append(pokemons[r], p)
    OBVIOUS
  <2>4. Range(l) = Range(pokemons[r]) \cup {p}
    BY <2>1, <2>3, AppendRange
  <2>5. Range(pokemons'[r]) = Range(pokemons[r]) \cup {p}
    BY <2>2, <2>3, <2>4
  <2>6. CASE Gone(r)
    <3>1. in'[r] = in[r]
      BY <2>2, <2>6
    <3>2. Given(in[r], Range(pokemons[r])) => Given(in'[r], Range(pokemons'[r]))
      BY <2>5, <3>1, GivenMore
    <3> QED BY <2>5, <2>6, <3>1, <3>2
  <2>7. CASE ~Gone(r)
    <3>1. PICK m, q : m = Msg("pokemon", p) /\ q = Append(in[r], m)
      OBVIOUS
    <3>2. m \in ToTrainer /\ m[1] = "pokemon" /\ m[2] = p
      BY <3>1 DEF Msg, ToTrainer
    <3>3. /\ \A kind : Has(q, kind) <=> Has(in[r], kind) \/ m[1] = kind
          /\ \A kind : Once(in[r], kind) /\ ~(Has(in[r], kind) /\ m[1] = kind) => Once(q, kind)
          /\ \A Y : Given(in[r], Y) /\ (m[1] = "pokemon" => m[2] \in Y) => Given(q, Y)
      BY <2>1, <3>1, <3>2, HasAppend
    <3>4. in'[r] = q
      BY <2>2, <2>7, <3>1
    <3>5. Given(in[r], Range(pokemons[r])) => Given(in'[r], Range(pokemons'[r]))
      <4>1. Given(in[r], Range(pokemons[r])) => Given(in[r], Range(pokemons'[r]))
        BY <2>5, GivenMore
      <4>2. p \in Range(pokemons'[r])
        BY <2>5
      <4> QED BY <3>2, <3>3, <3>4, <4>1, <4>2
    <3> QED BY <2>5, <2>7, <3>2, <3>3, <3>4, <3>5
  <2> QED BY <2>6, <2>7
<1>7. ASSUME NEW r \in Sessions, NEW kind, kind # "pokemon"
      PROVE  (Has(in'[r], kind) <=> Has(in[r], kind)) /\ (Once(in[r], kind) => Once(in'[r], kind))
  BY <1>2, <1>6, <1>7
<1>8. /\ dpc' \in Steps /\ filas' \in Seq(Sessions) /\ pedida' \in Seq(Nests \cup {NONE})
      /\ Len(pedida') = Len(filas') /\ IsInjective(filas') /\ Range(filas') \subseteq Range(filas)
      /\ deadlockeados' \in Seq(Sessions) /\ perdedor' \in Sessions \cup {NONE} /\ elegido' \in BOOLEAN
      /\ Fighters' \subseteq Fighters \cup {NONE}
      /\ dpc' = "spin" => Len(filas') = 1
  <2>1. CASE UNCHANGED <<dpc, copies, fight>>
    BY <1>1, <2>1 DEF TypeOK, copies, fight, Queues, Fighters, IInv, Detector
  <2>2. CASE Forget
    <3>1. IsInjective(<<>>) /\ Range(<<>>) = {}
      BY DEF IsInjective, Range
    <3>2. /\ dpc' = "sleep" /\ filas' = <<>> /\ pedida' = <<>>
          /\ deadlockeados' = <<>> /\ perdedor' = NONE /\ elegido' = FALSE
      BY <2>2 DEF Forget
    <3>3. Fighters' = {NONE}
      BY <3>1, <3>2 DEF Fighters
    <3>4. <<>> \in Seq(Sessions) /\ <<>> \in Seq(Nests \cup {NONE}) /\ Len(<<>>) = 0
      OBVIOUS
    <3>5. dpc' \in Steps /\ dpc' # "spin"
      BY <3>2 DEF Steps
    <3> QED BY <3>1, <3>2, <3>3, <3>4, <3>5
  <2> QED BY <2>1, <2>2
<1>9. /\ dpc = "answer" => dpc' = "answer" /\ Asking' = Asking
      /\ dpc = "release" => (dpc' = "release" /\ perdedor' = perdedor) \/ perdedor \in freed'
      /\ dpc' = "answer" => dpc = "answer" /\ Asking' = Asking
  BY <1>2 DEF fight, Asking, Forget
<1>10. TypeOK'
  <2>1. colaListos' \subseteq Sessions /\ master' \subseteq Sessions /\ freed' \subseteq Sessions
        /\ reading' \in Sessions \cup {NONE}
    BY <1>1, <1>2, <1>5 DEF TypeOK
  <2> QED BY <1>1, <1>2, <1>3, <1>4, <1>8, <2>1 DEF TypeOK
<1>11. Journeys'
  <2>1. ASSUME NEW r \in Sessions, tpc[r] \in {"new", "backlog"}, Outside(r) PROVE Outside(r)'
    <3>1. r # s /\ r \notin S /\ r # NONE
      BY <1>5, <2>1, Constants DEF Outside
    <3>2. in'[r] = <<>> /\ out'[r] = <<>> /\ pokemons'[r] = <<>>
      BY <1>2, <1>4, <2>1, <3>1 DEF Outside
    <3>3. r \notin Blocked' \cup colaListos' \cup master' \cup lectura' \cup {reading'} \cup freed'
      BY <1>2, <1>4, <2>1, <3>1 DEF Outside
    <3>4. r \notin Range(entrenadores') \cup Range(filas') \cup Fighters'
      BY <1>3, <1>8, <2>1, <3>1 DEF Outside
    <3> QED BY <3>2, <3>3, <3>4 DEF Outside
  <2> QED BY <1>1, <1>4, <2>1, JourneysKept
<1>12. ASSUME NEW r \in Sessions PROVE Battling(r)'
  <2>1. Battling(r)
    BY <1>1
  <2>2. /\ Has(in'[r], "batalla") <=> Has(in[r], "batalla")
        /\ Once(in[r], "batalla") => Once(in'[r], "batalla")
        /\ Has(in'[r], "victima") <=> Has(in[r], "victima")
    BY <1>7
  <2>3. freed \subseteq freed'
    BY <1>2
  <2> QED BY <1>4, <1>9, <2>1, <2>2, <2>3 DEF Battling
<1>13. ASSUME NEW r \in Sessions PROVE Requests(r)'
  <2>1. CASE r = s
    <3>1. Requests(s) /\ in'[s] = in[s] /\ buscada'[s] = buscada[s] /\ s \in freed'
      BY <1>1, <1>2, <1>5
    <3>2. tpc[s] = "catch" => Placed(s)'
      BY <3>1 DEF Placed
    <3>3. s \in colaListos => s \in colaListos' \/ (out[s] = <<>> /\ Gone(s))
      BY <1>2
    <3>4. out[s] = <<>> => ~Has(out[s], "atrapar")
      BY NoMessage
    <3> QED BY <1>4, <2>1, <3>1, <3>2, <3>3, <3>4 DEF Requests, Gone
  <2>2. CASE r \in S
    <3>1. Requests(r) /\ r \in Blocked /\ r \notin colaListos /\ r # s
      BY <1>1, <1>5, <2>2 DEF Queues
    <3>2. r \in colaListos'
      BY <1>2, <2>2, <3>1
    <3>3. tpc[r] \notin {"locate", "walk", "derailed"} /\ ~Has(out[r], "atrapar")
      BY <3>1 DEF Requests
    <3>4. tpc[r] \notin {"new", "backlog"}
      BY <1>1, <3>1 DEF Journeys, Outside
    <3>5. tpc[r] = "catch" \/ Gone(r)
      BY <1>1, <3>3, <3>4 DEF TypeOK, Places, Gone
    <3>6. tpc[r] = "catch" => ~Has(in[r], "pokemon")
      BY <3>1 DEF Requests
    <3>7. Once(in'[r], "pokemon") /\ Once(in'[r], "ubicacion")
          /\ (Has(in'[r], "ubicacion") <=> Has(in[r], "ubicacion"))
      <4>1. Once(in[r], "pokemon") /\ Once(in[r], "ubicacion")
        BY <3>1 DEF Requests
      <4>2. Once(in'[r], "pokemon")
        BY <1>6, <2>2, <3>5, <3>6, <4>1
      <4> QED BY <1>7, <4>1, <4>2
    <3>8. Placed(r)'
      BY <3>2 DEF Placed
    <3> QED BY <1>4, <3>1, <3>2, <3>3, <3>7, <3>8 DEF Requests
  <2>3. CASE r # s /\ r \notin S
    <3>1. in'[r] = in[r] /\ buscada'[r] = buscada[r] /\ (r \in colaListos' <=> r \in colaListos)
          /\ (r \in Blocked' <=> r \in Blocked)
      BY <1>2, <2>3
    <3>2. r \in Blocked \cup {reading} => r \in Blocked' \cup {reading'}
      BY <2>3, <3>1
    <3>3. Eaten(r) => Eaten(r)'
      BY <1>2, <1>4, <1>9, <3>1 DEF Eaten
    <3>4. dpc = "release" /\ r = perdedor => r \in freed' \/ (dpc' = "release" /\ r = perdedor')
      BY <1>9
    <3>5. dpc = "answer" /\ r = Asking => dpc' = "answer" /\ r = Asking'
      BY <1>9
    <3>6. freed \subseteq freed' /\ tpc'[r] = tpc[r] /\ out'[r] = out[r]
      BY <1>2, <1>4
    <3>7. Requests(r) => Requests(r)'
      BY <3>1, <3>2, <3>3, <3>4, <3>5, <3>6, Untouched
    <3> QED BY <1>1, <3>7
  <2> QED BY <2>1, <2>2, <2>3
<1>14. Queues'
  <2>1. ASSUME NEW r \in Blocked'
        PROVE  r \notin colaListos' \cup freed' \cup {reading'} /\ buscada'[r] \in Nests
    <3>1. r \in Blocked /\ r # s /\ r \notin S /\ r \in Sessions
      BY <1>2, <1>5, <2>1
    <3>2. r \notin colaListos \cup freed \cup {reading} /\ buscada[r] \in Nests /\ r # NONE
      BY <1>1, <3>1, Constants DEF Queues
    <3> QED BY <1>2, <3>1, <3>2
  <2>2. reading' \notin colaListos'
    <3>1. reading \notin colaListos /\ reading \notin S /\ NONE \notin colaListos'
      BY <1>1, <1>5, <1>10, Constants DEF Queues, TypeOK
    <3> QED BY <1>2, <3>1
  <2> QED BY <1>2, <1>3, <1>8, <2>1, <2>2 DEF Queues
<1>15. Unreleased'
  BY <1>2 DEF Unreleased
<1>16. Picks'
  <2>1. ASSUME NEW r \in Sessions \ freed'
        PROVE  /\ Range(pokemons[r]) \subseteq Range(pokemons'[r])
               /\ Given(in'[r], Range(pokemons'[r]))
               /\ \A Y : Given(out[r], Y) => Given(out'[r], Y)
    <3>1. r \notin freed /\ r # s
      BY <1>2
    <3>2. Given(in[r], Range(pokemons[r]))
      BY <1>1, <3>1 DEF Picks
    <3>3. CASE r \in S
      BY <1>4, <1>6, <3>2, <3>3
    <3>4. CASE r \notin S
      <4>1. in'[r] = in[r] /\ pokemons'[r] = pokemons[r]
        BY <1>2, <3>1, <3>4
      <4> QED BY <1>4, <3>2, <4>1
    <3> QED BY <3>3, <3>4
  <2>2. freed \subseteq freed'
    BY <1>2
  <2> QED BY <1>1, <1>4, <2>1, <2>2, PicksKept
<1>17. BreaksForACause'
  BY <1>8 DEF BreaksForACause
<1>18. colaListos' \subseteq colaListos \cup (Blocked \ {s})
  BY <1>2
<1>19. \A r \in Sessions : Has(in'[r], "victima") <=> Has(in[r], "victima")
  BY <1>7
<1> QED BY <1>2, <1>3, <1>10, <1>11, <1>12, <1>13, <1>14, <1>15, <1>16, <1>17, <1>18, <1>19 DEF Released

LEMMA PlanGoneKeeps ==
  ASSUME IInv, undefined = "no", NEW s \in Sessions, PlanGone(s)
  PROVE  IInv'
<1>1. /\ s \in colaListos \ freed /\ out[s] = <<>> /\ Gone(s)
      /\ Liberar(s, colaBloqueados, {})
      /\ colaListos' = Liberados(s, colaBloqueados).listos \ {s}
      /\ UNCHANGED <<trainer, out, backlog, lectura, reading, dpc, copies, fight, undefined>>
  BY DEF PlanGone
<1>2. TypeOK /\ Queues /\ Requests(s) /\ Battling(s)
  BY DEF IInv
<1>3. s \notin Blocked /\ s # reading
  BY <1>1, <1>2 DEF Queues
<1>4. /\ colaBloqueados \in Seq(Sessions) /\ IsInjective(colaBloqueados)
      /\ Range(colaBloqueados) = Blocked \ {s}
  BY <1>2, <1>3 DEF TypeOK, Queues, Blocked
<1>5. tpc[s] \notin {"new", "backlog", "catch"}
  BY <1>1 DEF Gone
<1>6. /\ UNCHANGED <<trainer, out, backlog, lectura>> /\ reading' = reading
      /\ UNCHANGED <<dpc, copies, fight>> /\ undefined' \in {"no", "doubleFree"}
  BY <1>1
<1>7. Released(s)
  BY <1>1, <1>4, <1>5, <1>6, LiberarKeeps
<1>8. Detector'
  <2>1. dpc = "release" => perdedor \in Sessions
    BY <1>2 DEF IInv, TypeOK, Detector
  <2> QED BY <1>6, <1>7, <2>1 DEF Detector, IInv, Released, copies, fight, trainer
<1>9. ~Quiet
  <2>1. ASSUME Quiet PROVE FALSE
    <3>1. tpc[s] = "dead"
      BY <1>1, <2>1 DEF Gone, Quiet
    <3>2. dpc = "release" /\ s = perdedor
      BY <1>1, <1>2, <3>1 DEF Battling
    <3>3. perdedor \in Blocked \cup {reading}
      BY <1>1, <2>1, <3>2 DEF InQuiet, IInv
    <3> QED BY <1>3, <3>2, <3>3
  <2> QED BY <2>1
<1>10. InQuiet'
  BY <1>6, <1>9 DEF InQuiet, Quiet, trainer
<1> QED BY <1>7, <1>8, <1>10 DEF Released, IInv

LEMMA PlanKeeps ==
  ASSUME IInv, undefined = "no", NEW s \in Sessions, Plan(s)
  PROVE  IInv'
BY PlanFreedKeeps, PlanUbicarKeeps, PlanAtraparKeeps, PlanOtherKeeps, PlanGoneKeeps DEF Plan

-----------------------------------------------------------------------------
(* manejar_select *)

\* What it reads is the end of a connection, or what a trainer sent.
LEMMA ReadGoneKeeps ==
  ASSUME IInv, undefined = "no", NEW s \in Sessions, s = reading, Read, out[s] = <<>>, s \notin freed
  PROVE  IInv'
<1>1. /\ Gone(s)
      /\ Liberar(s, colaBloqueados, {s})
      /\ colaListos' = Liberados(s, colaBloqueados).listos
      /\ UNCHANGED <<trainer, out, backlog, lectura, dpc, copies, fight, undefined>>
      /\ reading' = NONE
  BY DEF Read, Readable
<1>2. TypeOK /\ Queues /\ Requests(s) /\ Battling(s) /\ NONE \notin Sessions
  BY Constants DEF IInv
<1>3. s \notin Blocked /\ s \notin colaListos
  BY <1>2 DEF Queues
<1>4. /\ colaBloqueados \in Seq(Sessions) /\ IsInjective(colaBloqueados)
      /\ Range(colaBloqueados) = Blocked \ {s}
  BY <1>2, <1>3 DEF TypeOK, Queues, Blocked
<1>5. tpc[s] \notin {"new", "backlog", "catch"}
  BY <1>1 DEF Gone
<1>6. /\ UNCHANGED <<trainer, out, backlog, lectura>>
      /\ UNCHANGED <<dpc, copies, fight>> /\ undefined' \in {"no", "doubleFree"}
      /\ colaListos' = Liberados(s, colaBloqueados).listos \ {} /\ {} \in SUBSET {s}
  BY <1>1
<1>7. Released(s)
  BY <1>1, <1>4, <1>5, <1>6, LiberarKeeps
<1>8. Detector'
  <2>1. dpc = "release" => perdedor \in Sessions
    BY <1>2 DEF IInv, TypeOK, Detector
  <2> QED BY <1>6, <1>7, <2>1 DEF Detector, IInv, Released, copies, fight, trainer
<1>9. ASSUME Quiet PROVE InQuiet'
  <2>1. tpc[s] = "dead"
    BY <1>1, <1>9 DEF Gone, Quiet
  <2>2. dpc = "release" /\ s = perdedor
    BY <1>2, <2>1 DEF Battling
  <2>3. /\ colaListos \cap freed = {} /\ Range(entrenadores) \cap freed = {}
        /\ \E r \in freed : r # reading
        /\ \A i, j \in DOMAIN entrenadores :
             i < j /\ Owner[entrenadores[i]] = Owner[entrenadores[j]] =>
               entrenadores[i] = s /\ entrenadores[j] # s
    BY <1>2, <1>9, <2>2 DEF InQuiet, IInv
  <2>4. /\ freed' = freed \cup {s} /\ colaListos' \subseteq colaListos \cup (Blocked \ {s})
        /\ Range(entrenadores') \subseteq Range(entrenadores)
        /\ s \notin Range(entrenadores')
        /\ \A i, j \in DOMAIN entrenadores' :
             i < j => Owner[entrenadores'[i]] # Owner[entrenadores'[j]]
    BY <1>7, <2>3 DEF Released
  <2>5. colaListos' \cap freed' = {}
    BY <1>2, <1>3, <2>3, <2>4 DEF Queues
  <2>6. Range(entrenadores') \cap freed' = {}
    BY <2>3, <2>4
  <2>7. dpc' = "release" /\ perdedor' = perdedor /\ tpc'[perdedor'] = "dead" /\ perdedor' \in freed'
        /\ \E r \in freed' : r # perdedor'
    BY <1>6, <2>1, <2>2, <2>3, <2>4 DEF fight, trainer
  <2> QED BY <1>1, <2>4, <2>5, <2>6, <2>7 DEF InQuiet
<1>10. InQuiet'
  BY <1>6, <1>9 DEF InQuiet, Quiet, trainer
<1> QED BY <1>7, <1>8, <1>10 DEF Released, IInv

\* The end of a connection that the detector has destroyed.
LEMMA ReadFreedKeeps ==
  ASSUME IInv, undefined = "no", NEW s \in Sessions, s = reading, Read, out[s] = <<>>, s \in freed
  PROVE  IInv'
<1>1. /\ Gone(s) /\ undefined' = "freedTrainer" /\ reading' = NONE
      /\ UNCHANGED <<trainer, sockets, queues, sessions, backlog, master, lectura, dpc, copies, fight>>
  BY DEF Read, Readable
<1>2. TypeOK /\ Queues /\ Journeys /\ Picks /\ \A r \in Sessions : Requests(r) /\ Battling(r)
  BY DEF IInv
<1>3. /\ tpc' = tpc /\ goal' = goal /\ nombres' = nombres /\ backlog' = backlog /\ in' = in /\ out' = out
      /\ entrenadores' = entrenadores /\ colaListos' = colaListos /\ colaBloqueados' = colaBloqueados
      /\ buscada' = buscada /\ pokemons' = pokemons /\ freed' = freed /\ libres' = libres
      /\ master' = master /\ lectura' = lectura /\ dpc' = dpc
      /\ filas' = filas /\ pedida' = pedida /\ deadlockeados' = deadlockeados
      /\ perdedor' = perdedor /\ elegido' = elegido
  BY <1>1 DEF trainer, sockets, queues, sessions, copies, fight
<1>4. Blocked' = Blocked /\ Asking' = Asking /\ Fighters' = Fighters /\ (Battle' <=> Battle)
      /\ (Quiet' <=> Quiet) /\ Blocked \subseteq Sessions
  BY <1>2, <1>3, OnList DEF Blocked, Asking, Fighters, Battle, Quiet, TypeOK
<1>5. reading' = NONE /\ NONE \notin Sessions /\ s = reading /\ s \in freed
  BY <1>1, Constants
<1>6. \A r \in Sessions : ~Eaten(r) /\ (Outside(r) => Outside(r)')
  BY <1>3, <1>4, <1>5 DEF Eaten, Outside
<1>7. TypeOK'
  BY <1>1, <1>2, <1>3, <1>5 DEF TypeOK
<1>8. Journeys'
  BY <1>2, <1>3, <1>6, JourneysKept
<1>9. ASSUME NEW r \in Sessions PROVE Requests(r)' /\ Battling(r)'
  <2>1. CASE r = s
    <3>1. tpc[s] \in {"dead", "closed"} /\ Requests(s) /\ Battling(s)
      BY <1>1, <1>2 DEF Gone
    <3>2. Requests(s)'
      BY <1>3, <3>1 DEF Requests
    <3>3. Battling(s)'
      BY <1>3, <1>4, <3>1 DEF Battling
    <3> QED BY <2>1, <3>2, <3>3
  <2>2. CASE r # s
    <3>1. r \in Blocked \cup {reading} => r \in Blocked' \cup {reading'}
      BY <1>4, <1>5, <2>2
    <3> QED BY <1>2, <1>3, <1>4, <1>6, <3>1, Untouched
  <2> QED BY <2>1, <2>2
<1>10. Queues'
  BY <1>2, <1>3, <1>4, <1>5 DEF Queues, TypeOK
<1>11. Detector'
  BY <1>3, <1>4 DEF Detector, IInv
<1>12. Unreleased'
  BY <1>3, <1>5 DEF Unreleased
<1>13. ASSUME Quiet PROVE tpc[s] = "dead" /\ \E r \in freed : r # s
  <2>1. tpc[s] = "dead"
    BY <1>1, <1>13 DEF Gone, Quiet
  <2> QED BY <1>5, <1>13, <2>1 DEF InQuiet, IInv
<1>14. ASSUME Quiet PROVE InQuiet'
  <2>1. /\ colaListos \cap freed = {} /\ Range(entrenadores) \cap freed = {}
        /\ \A i, j \in DOMAIN entrenadores :
             i < j /\ Owner[entrenadores[i]] = Owner[entrenadores[j]] =>
               dpc = "release" /\ entrenadores[i] = perdedor /\ entrenadores[j] # perdedor
        /\ dpc \in {"reduce", "confirm"} => Range(filas) \cap freed = {}
        /\ dpc \in {"confirm", "lock", "answer", "kill"} => Fighters \cap freed = {}
    BY <1>14 DEF InQuiet, IInv
  <2>2. /\ dpc = "lock" => \A q \in Range(deadlockeados) : q \in Blocked \cup {reading}
        /\ dpc = "answer" => \A q \in Fighters : q \in Blocked \cup {reading} \/ Eaten(q)
        /\ dpc = "kill" => perdedor \in Blocked \cup {reading}
        /\ dpc = "release" =>
             IF perdedor \in freed
             THEN tpc[perdedor] = "dead" /\ \E r \in freed : r # perdedor
             ELSE perdedor \in Blocked \cup {reading}
    BY <1>14 DEF InQuiet, IInv
  <2>3. Range(deadlockeados) \subseteq Fighters /\ perdedor \in Fighters
    BY DEF Fighters
  <2>4. Fighters \subseteq Sessions \cup {NONE}
    BY <1>2, OnList DEF Fighters, TypeOK
  <2>5. dpc = "lock" => \A q \in Range(deadlockeados) : q \in Blocked
    BY <1>5, <2>1, <2>2, <2>3
  <2>6. dpc = "answer" => \A q \in Fighters : q \in Blocked
    <3>1. ASSUME NEW q \in Fighters, dpc = "answer" PROVE q \in Blocked
      <4>1. q \notin freed /\ ~Eaten(q)
        BY <1>5, <2>1, <3>1 DEF Eaten
      <4> QED BY <1>5, <2>2, <3>1, <4>1
    <3> QED BY <3>1
  <2>7. dpc = "kill" => perdedor \in Blocked
    BY <1>5, <2>1, <2>2, <2>3
  <2>8. dpc = "release" =>
             IF perdedor \in freed
             THEN tpc[perdedor] = "dead" /\ \E r \in freed : r # perdedor
             ELSE perdedor \in Blocked
    BY <1>5, <2>2
  <2> QED BY <1>3, <1>4, <1>5, <2>1, <2>5, <2>6, <2>7, <2>8 DEF InQuiet
<1>15. InQuiet'
  BY <1>4, <1>14 DEF InQuiet
<1>16. Picks'
  BY <1>2, <1>3 DEF Picks, HasDied
<1>17. BreaksForACause'
  <2>1. CASE Quiet
    <3>1. \E r, q \in freed' : r # q /\ tpc'[q] = "dead"
      BY <1>3, <1>5, <1>13, <2>1
    <3> QED BY <1>1, <1>3, <3>1 DEF BreaksForACause, IInv
  <2>2. CASE ~Quiet
    <3>1. \E t \in Trainers : HasQuit(t)
      BY <2>2, Constants DEF Quiet, HasQuit
    <3>2. (\E t \in Trainers : HasQuit(t))'
      BY <1>3, <3>1 DEF HasQuit
    <3> QED BY <1>1, <1>3, <3>2 DEF BreaksForACause, IInv
  <2> QED BY <2>1, <2>2
<1> QED BY <1>7, <1>8, <1>9, <1>10, <1>11, <1>12, <1>15, <1>16, <1>17 DEF IInv

\* Only an answer in a battle, or what a trainer that hung up sent before.
LEMMA WhatIsRead ==
  ASSUME IInv, NEW s \in Sessions, s = reading, out[s] # <<>>
  PROVE  /\ s \notin Blocked \cup colaListos
         /\ tpc[s] \in {"catch", "dead", "closed"}
         /\ tpc[s] \in {"catch", "dead"} => Has(out[s], "pokemon") /\ dpc = "answer" /\ s = Asking
<1>1. TypeOK /\ Queues /\ Journeys /\ Requests(s) /\ Battling(s)
  BY DEF IInv
<1>2. s \notin Blocked \cup colaListos
  BY <1>1 DEF Queues
<1>3. tpc[s] \in {"catch", "dead", "closed"}
  <2>1. tpc[s] \in Places
    BY <1>1 DEF TypeOK
  <2>2. tpc[s] \notin {"new", "backlog"}
    BY <1>1 DEF Journeys, Outside
  <2>3. tpc[s] \notin {"locate", "walk", "derailed"}
    BY <1>1, <1>2 DEF Requests
  <2> QED BY <2>1, <2>2, <2>3 DEF Places
<1>4. PICK q \in Seq(ToMap) : q = out[s]
  BY <1>1 DEF TypeOK
<1>5. Head(q) \in ToMap /\ Has(q, Head(q)[1])
  BY <1>4, HasTail
<1>6. Head(q)[1] \in {"pokemon", "ubicar", "atrapar"}
  BY <1>5, ToMapKinds
<1>7. ASSUME tpc[s] \in {"catch", "dead"} PROVE Has(out[s], "pokemon")
  <2>1. ~Has(out[s], "ubicar") /\ ~Has(out[s], "atrapar")
    BY <1>1, <1>2, <1>7 DEF Requests
  <2> QED BY <1>4, <1>5, <1>6, <2>1
<1>8. Has(out[s], "pokemon") => dpc = "answer" /\ s = Asking
  BY <1>1 DEF Battling
<1> QED BY <1>2, <1>3, <1>7, <1>8

LEMMA AskedFights ==
  ASSUME TypeOK, Detector, dpc = "answer"
  PROVE  Asking \in Fighters
<1>1. CASE elegido
  <2>1. deadlockeados \in Seq(Sessions) /\ deadlockeados # <<>>
    BY DEF TypeOK, Detector
  <2>2. Head(deadlockeados) \in Range(deadlockeados)
    BY <2>1, TailRange
  <2> QED BY <1>1, <2>2 DEF Asking, Fighters
<1>2. CASE ~elegido
  BY <1>2 DEF Asking, Fighters
<1> QED BY <1>1, <1>2

\* The select thread may get the answer that the detector waits for.
LEMMA ReadAnswerKeeps ==
  ASSUME IInv, undefined = "no", NEW s \in Sessions, s = reading, Read, out[s] # <<>>
  PROVE  IInv'
<1>1. /\ out' = [out EXCEPT ![s] = <<>>] /\ reading' = NONE /\ undefined' = undefined
      /\ UNCHANGED <<trainer, in, queues, sessions, backlog, master, lectura, dpc, copies, fight>>
  BY DEF Read
<1>2. TypeOK /\ Queues /\ Journeys /\ Picks /\ Detector /\ \A r \in Sessions : Requests(r) /\ Battling(r)
  BY DEF IInv
<1>3. /\ tpc' = tpc /\ goal' = goal /\ nombres' = nombres /\ backlog' = backlog /\ in' = in
      /\ entrenadores' = entrenadores /\ colaListos' = colaListos /\ colaBloqueados' = colaBloqueados
      /\ buscada' = buscada /\ pokemons' = pokemons /\ freed' = freed /\ libres' = libres
      /\ master' = master /\ lectura' = lectura /\ dpc' = dpc
      /\ filas' = filas /\ pedida' = pedida /\ deadlockeados' = deadlockeados
      /\ perdedor' = perdedor /\ elegido' = elegido
  BY <1>1 DEF trainer, queues, sessions, copies, fight
<1>4. Blocked' = Blocked /\ Asking' = Asking /\ Fighters' = Fighters /\ (Battle' <=> Battle)
      /\ (Quiet' <=> Quiet) /\ Blocked \subseteq Sessions
  BY <1>2, <1>3, OnList DEF Blocked, Asking, Fighters, Battle, Quiet, TypeOK
<1>5. reading' = NONE /\ NONE \notin Sessions /\ s = reading
  BY <1>1, Constants
<1>6. /\ out' \in [Sessions -> Seq(ToMap)] /\ out'[s] = <<>>
      /\ \A r \in Sessions : r # s => out'[r] = out[r]
  BY <1>1, <1>2 DEF TypeOK
<1>7. \A r \in Sessions : ~Eaten(r) /\ (Outside(r) => Outside(r)')
  BY <1>3, <1>4, <1>5, <1>6 DEF Eaten, Outside
<1>8. TypeOK'
  BY <1>1, <1>2, <1>3, <1>5, <1>6 DEF TypeOK
<1>9. Journeys'
  BY <1>2, <1>3, <1>7, JourneysKept
<1>10. /\ s \notin Blocked \cup colaListos
       /\ tpc[s] \in {"catch", "dead", "closed"}
       /\ tpc[s] \in {"catch", "dead"} => Has(out[s], "pokemon") /\ dpc = "answer" /\ s = Asking
  BY WhatIsRead
<1>11. \A kind : ~Has(out'[s], kind) /\ Once(out'[s], kind)
  BY <1>6, NoMessage
<1>12. tpc[s] = "catch" => Eaten(s)'
  <2>1. tpc[s] = "catch" => freed # {}
    BY <1>5 DEF Unreleased, IInv, Gone
  <2>2. Has(out[s], "pokemon") => ~Has(in[s], "batalla")
    BY <1>2 DEF Battling
  <2> QED BY <1>3, <1>4, <1>5, <1>10, <1>11, <2>1, <2>2 DEF Eaten
<1>13. ASSUME NEW r \in Sessions PROVE Requests(r)' /\ Battling(r)'
  <2>1. CASE r = s
    <3>1. Requests(s) /\ Battling(s)
      BY <1>2
    <3>2. Requests(s)'
      BY <1>3, <1>10, <1>11, <1>12, <3>1 DEF Requests, Placed
    <3>3. Battling(s)'
      BY <1>3, <1>4, <1>11, <3>1 DEF Battling
    <3> QED BY <2>1, <3>2, <3>3
  <2>2. CASE r # s
    <3>1. r \in Blocked \cup {reading} => r \in Blocked' \cup {reading'}
      BY <1>4, <1>5, <2>2
    <3> QED BY <1>2, <1>3, <1>4, <1>6, <1>7, <2>2, <3>1, Untouched
  <2> QED BY <2>1, <2>2
<1>14. Queues'
  BY <1>2, <1>3, <1>4, <1>5 DEF Queues, TypeOK
<1>15. Detector'
  BY <1>2, <1>3, <1>4 DEF Detector
<1>16. Unreleased'
  BY <1>3, <1>4, <1>5 DEF Unreleased, IInv, Gone
<1>17. ASSUME Quiet PROVE InQuiet'
  <2>1. tpc[s] # "closed" /\ dpc = "answer" /\ s = Asking
    BY <1>10, <1>17 DEF Quiet
  <2>2. Fighters \cap freed = {} /\ s \in Fighters
    BY <1>2, <1>17, <2>1, AskedFights DEF InQuiet, IInv
  <2>3. tpc[s] # "dead"
    BY <1>2, <2>1, <2>2 DEF Battling
  <2>4. Eaten(s)'
    BY <1>10, <1>12, <2>1, <2>3
  <2>5. \A q \in Fighters : q \in Blocked \cup {reading} \/ Eaten(q)
    BY <1>17, <2>1 DEF InQuiet, IInv
  <2>6. \A q \in Fighters : q \in Blocked \/ Eaten(q)'
    BY <1>5, <2>4, <2>5 DEF Eaten
  <2>7. /\ colaListos \cap freed = {} /\ Range(entrenadores) \cap freed = {}
        /\ \A i, j \in DOMAIN entrenadores :
             i < j /\ Owner[entrenadores[i]] = Owner[entrenadores[j]] =>
               dpc = "release" /\ entrenadores[i] = perdedor /\ entrenadores[j] # perdedor
    BY <1>17 DEF InQuiet, IInv
  <2> QED BY <1>3, <1>4, <1>5, <2>1, <2>2, <2>6, <2>7 DEF InQuiet
<1>18. InQuiet'
  BY <1>4, <1>17 DEF InQuiet
<1>19. Picks'
  <2>1. \A r \in Sessions : \A X : Given(out[r], X) => Given(out'[r], X)
    BY <1>6, NoMessage
  <2>2. \A r \in Sessions \ freed' : Given(in'[r], Range(pokemons'[r]))
    BY <1>2, <1>3 DEF Picks
  <2> QED BY <1>2, <1>3, <2>1, <2>2, PicksKept
<1>20. BreaksForACause'
  BY <1>1, <1>3 DEF BreaksForACause, IInv
<1> QED BY <1>8, <1>9, <1>13, <1>14, <1>15, <1>16, <1>18, <1>19, <1>20 DEF IInv

LEMMA ReadKeeps ==
  ASSUME IInv, undefined = "no", Read
  PROVE  IInv'
<1>1. reading \in Sessions
  BY DEF Read, IInv, TypeOK
<1>2. PICK s \in Sessions : s = reading
  BY <1>1
<1> QED BY <1>2, ReadAnswerKeeps, ReadFreedKeeps, ReadGoneKeeps

\* A trainer is accepted when it can have only one entry, or its last one is to go.
LEMMA AcceptKeeps ==
  ASSUME IInv, undefined = "no", Accept
  PROVE  IInv'
<1>1. PICK s : s = Head(backlog)
  OBVIOUS
<1>2. TypeOK /\ Queues /\ Journeys /\ Picks /\ Detector /\ \A r \in Sessions : Requests(r) /\ Battling(r)
  BY DEF IInv
<1> DEFINE m == Ubicar(Owner[s], 1)
<1>3. /\ lectura = {} /\ reading = NONE /\ backlog # <<>> /\ backlog' = Tail(backlog)
      /\ tpc' = [tpc EXCEPT ![s] = "locate"] /\ out' = [out EXCEPT ![s] = <<m>>]
      /\ entrenadores' = Append(entrenadores, s) /\ colaListos' = colaListos \cup {s}
      /\ goal' = goal /\ nombres' = nombres /\ in' = in /\ colaBloqueados' = colaBloqueados
      /\ buscada' = buscada /\ pokemons' = pokemons /\ freed' = freed /\ libres' = libres
      /\ master' = master /\ lectura' = lectura /\ reading' = reading /\ dpc' = dpc
      /\ filas' = filas /\ pedida' = pedida /\ deadlockeados' = deadlockeados
      /\ perdedor' = perdedor /\ elegido' = elegido /\ undefined' = undefined
  BY <1>1 DEF Accept, sessions, copies, fight
<1>4. /\ backlog' \in Seq(Sessions) /\ s \in Sessions /\ Range(backlog) = Range(backlog') \cup {s}
      /\ IsInjective(backlog') /\ s \notin Range(backlog')
  <2>1. PICK b \in Seq(Sessions) : b = backlog /\ b # <<>> /\ IsInjective(b)
    BY <1>2, <1>3 DEF TypeOK, Journeys
  <2>2. /\ Tail(b) \in Seq(Sessions) /\ Head(b) \in Sessions
        /\ Range(b) = Range(Tail(b)) \cup {Head(b)}
        /\ IsInjective(Tail(b)) /\ Head(b) \notin Range(Tail(b))
    BY <2>1, TailRange
  <2> QED BY <1>1, <1>3, <2>1, <2>2
<1>5. /\ tpc[s] = "backlog" /\ in[s] = <<>> /\ out[s] = <<>> /\ pokemons[s] = <<>>
      /\ s \notin Blocked \cup colaListos \cup master \cup lectura \cup {reading} \cup freed
      /\ s \notin Range(entrenadores) \cup Range(filas) \cup Fighters
  BY <1>2, <1>4 DEF Journeys, Outside
<1>6. tpc'[s] = "locate" /\ \A r \in Sessions : r # s => tpc'[r] = tpc[r]
  BY <1>2, <1>3, <1>4 DEF TypeOK
<1>7. m \in ToMap /\ m[1] = "ubicar"
  <2>1. Goals[Owner[s]] \in Seq(Nests) /\ Goals[Owner[s]] # <<>>
    BY <1>4, Constants
  <2>2. Goals[Owner[s]][1] \in Nests
    BY <2>1
  <2> QED BY <2>2 DEF ToMap, Ubicar, Msg
<1> HIDE DEF m
<1>8. out'[s] = <<m>> /\ (\A r \in Sessions : r # s => out'[r] = out[r]) /\ out' \in [Sessions -> Seq(ToMap)]
  BY <1>2, <1>3, <1>4, <1>7 DEF TypeOK
<1>9. /\ \A kind : Has(out'[s], kind) <=> kind = "ubicar"
      /\ \A kind : Once(out'[s], kind)
      /\ \A X : Given(out'[s], X)
  <2>1. PICK q : q = <<m>>
    OBVIOUS
  <2>2. DOMAIN q = {1} /\ q[1][1] = "ubicar"
    BY <1>7, <2>1
  <2>3. /\ \A kind : Has(q, kind) <=> kind = "ubicar"
        /\ \A kind : Once(q, kind)
        /\ \A X : Given(q, X)
    BY <2>2 DEF Has, Once, Given
  <2> QED BY <1>8, <2>1, <2>3
<1>10. /\ Blocked' = Blocked /\ Asking' = Asking /\ Fighters' = Fighters /\ (Battle' <=> Battle)
       /\ (Quiet' <=> Quiet) /\ Blocked \subseteq Sessions
  <2>1. Quiet' <=> Quiet
    BY <1>4, <1>5, <1>6 DEF Quiet
  <2> QED BY <1>2, <1>3, <2>1, OnList DEF Blocked, Asking, Fighters, Battle, TypeOK
<1>11. /\ entrenadores' \in Seq(Sessions) /\ IsInjective(entrenadores')
       /\ Range(entrenadores') = Range(entrenadores) \cup {s}
  <2>1. entrenadores \in Seq(Sessions) /\ IsInjective(entrenadores)
    BY <1>2 DEF TypeOK, Queues
  <2> QED BY <1>3, <1>4, <1>5, <2>1, AppendRange
<1>12. ASSUME NEW r \in Sessions PROVE Eaten(r) => Eaten(r)' /\ r # s
  <2>1. Eaten(r) => r # s
    BY <1>2, <1>5, AskedFights DEF Eaten
  <2> QED BY <1>3, <1>8, <1>10, <2>1 DEF Eaten
<1>13. ASSUME NEW r \in Sessions, r # s PROVE Outside(r) => Outside(r)'
  BY <1>3, <1>8, <1>10, <1>11, <1>13 DEF Outside
<1>14. TypeOK'
  <2>1. tpc' \in [Sessions -> Places]
    BY <1>2, <1>3, <1>4 DEF TypeOK, Places
  <2>2. colaListos' \subseteq Sessions
    BY <1>2, <1>3, <1>4 DEF TypeOK
  <2> QED BY <1>2, <1>3, <1>4, <1>8, <1>11, <2>1, <2>2 DEF TypeOK
<1>15. Journeys'
  <2>1. ASSUME NEW r \in Sessions
        PROVE  /\ tpc'[r] = "backlog" <=> r \in Range(backlog')
               /\ tpc'[r] \in {"new", "backlog"} => Outside(r)'
               /\ tpc'[r] # "dead" /\ NextSession[r] # NONE => tpc'[NextSession[r]] = "new"
               /\ tpc'[r] = "catch" => goal'[Owner[r]] < Len(Goals[Owner[r]])
    <3>1. tpc'[r] = "backlog" <=> r \in Range(backlog')
      BY <1>2, <1>4, <1>6 DEF Journeys
    <3>2. tpc'[r] \in {"new", "backlog"} => Outside(r)'
      BY <1>2, <1>6, <1>13 DEF Journeys
    <3>3. tpc'[r] # "dead" /\ NextSession[r] # NONE => tpc'[NextSession[r]] = "new"
      <4> SUFFICES ASSUME tpc'[r] # "dead", NextSession[r] # NONE PROVE tpc'[NextSession[r]] = "new"
        OBVIOUS
      <4>1. tpc[r] # "dead"
        BY <1>5, <1>6
      <4>2. NextSession[r] \in Sessions /\ tpc[NextSession[r]] = "new"
        BY <1>2, <4>1, Constants DEF Journeys
      <4> QED BY <1>5, <1>6, <4>2
    <3>4. tpc'[r] = "catch" => goal'[Owner[r]] < Len(Goals[Owner[r]])
      BY <1>2, <1>3, <1>6 DEF Journeys
    <3> QED BY <3>1, <3>2, <3>3, <3>4
  <2>2. \A q, r \in Sessions :
          Owner[q] = Owner[r] /\ tpc'[q] \notin {"new", "dead"} /\ tpc'[r] \notin {"new", "dead"} => q = r
    <3>1. \A q \in Sessions : tpc'[q] \notin {"new", "dead"} => tpc[q] \notin {"new", "dead"}
      BY <1>5, <1>6
    <3> QED BY <1>2, <3>1 DEF Journeys
  <2> QED BY <1>4, <2>1, <2>2 DEF Journeys
<1>16. ASSUME NEW r \in Sessions PROVE Requests(r)' /\ Battling(r)'
  <2>1. CASE r = s
    <3>1. \A kind : ~Has(in'[s], kind) /\ Once(in'[s], kind)
      BY <1>3, <1>5, NoMessage
    <3>2. s \in colaListos' /\ tpc'[s] = "locate"
      BY <1>3, <1>6
    <3>3. Requests(s)'
      BY <1>9, <3>1, <3>2 DEF Requests
    <3>4. Battling(s)'
      BY <1>9, <3>1, <3>2 DEF Battling
    <3> QED BY <2>1, <3>3, <3>4
  <2>2. CASE r # s
    <3>1. /\ r \in Blocked \cup {reading} => r \in Blocked' \cup {reading'}
          /\ r \in colaListos' <=> r \in colaListos
          /\ tpc'[r] = tpc[r] /\ in'[r] = in[r] /\ out'[r] = out[r] /\ buscada'[r] = buscada[r]
      BY <1>3, <1>6, <1>8, <1>10, <2>2
    <3>2. /\ dpc = "answer" /\ r = Asking => dpc' = "answer" /\ r = Asking'
          /\ dpc = "release" /\ r = perdedor => r \in freed' \/ (dpc' = "release" /\ r = perdedor')
          /\ freed \subseteq freed'
      BY <1>3, <1>10
    <3> QED BY <1>2, <1>12, <3>1, <3>2, Untouched
  <2> QED BY <2>1, <2>2
<1>17. Queues'
  BY <1>2, <1>3, <1>5, <1>10, <1>11, Constants DEF Queues
<1>18. Detector'
  <2>1. dpc = "release" => perdedor \in Sessions /\ perdedor # s
    BY <1>2, <1>5 DEF Detector, TypeOK, Fighters
  <2> QED BY <1>2, <1>3, <1>6, <2>1 DEF Detector
<1>19. Unreleased'
  <2>1. \A r \in Sessions : r # s => (Gone(r)' <=> Gone(r))
    BY <1>6 DEF Gone
  <2>2. master \subseteq Sessions
    BY <1>2 DEF TypeOK
  <2> QED BY <1>3, <1>5, <1>10, <2>1, <2>2 DEF Unreleased, IInv
<1>20. ASSUME Quiet PROVE InQuiet'
  <2>1. /\ colaListos \cap freed = {} /\ Range(entrenadores) \cap freed = {}
        /\ dpc \in {"reduce", "confirm"} => Range(filas) \cap freed = {}
        /\ dpc \in {"confirm", "lock", "answer", "kill"} => Fighters \cap freed = {}
        /\ dpc = "lock" => \A q \in Range(deadlockeados) : q \in Blocked \cup {reading}
        /\ dpc = "answer" => \A q \in Fighters : q \in Blocked \cup {reading} \/ Eaten(q)
        /\ dpc = "kill" => perdedor \in Blocked \cup {reading}
        /\ dpc = "release" =>
             IF perdedor \in freed
             THEN tpc[perdedor] = "dead" /\ \E r \in freed : r # perdedor
             ELSE perdedor \in Blocked \cup {reading}
    BY <1>20 DEF InQuiet, IInv
  <2>2. \A i, j \in DOMAIN entrenadores :
          i < j /\ Owner[entrenadores[i]] = Owner[entrenadores[j]] =>
            dpc = "release" /\ entrenadores[i] = perdedor /\ entrenadores[j] # perdedor
    BY <1>20 DEF InQuiet, IInv
  <2>3. ASSUME NEW q \in Range(entrenadores), Owner[q] = Owner[s]
        PROVE  dpc = "release" /\ q = perdedor
    <3>1. q \in Sessions /\ q # s
      BY <1>2, <1>5, <2>3, OnList DEF TypeOK
    <3>2. tpc[q] \notin {"new", "backlog"}
      BY <1>2, <2>3, <3>1 DEF Journeys, Outside
    <3>3. tpc[q] = "dead"
      BY <1>2, <1>4, <1>5, <2>3, <3>1, <3>2 DEF Journeys
    <3> QED BY <1>2, <2>1, <2>3, <3>1, <3>3 DEF Battling
  <2>4. ASSUME NEW i \in DOMAIN entrenadores', NEW j \in DOMAIN entrenadores', i < j,
               Owner[entrenadores'[i]] = Owner[entrenadores'[j]]
        PROVE  dpc = "release" /\ entrenadores'[i] = perdedor /\ entrenadores'[j] # perdedor
    <3>1. PICK e \in Seq(Sessions) : e = entrenadores
      BY <1>2 DEF TypeOK
    <3>2. PICK f : f = Append(e, s)
      OBVIOUS
    <3>3. /\ DOMAIN f = 1 .. Len(e) + 1 /\ DOMAIN e = 1 .. Len(e) /\ Len(e) \in Nat
          /\ f[Len(e) + 1] = s /\ \A k \in 1 .. Len(e) : f[k] = e[k]
      BY <3>1, <3>2
    <3>4. entrenadores' = f /\ i \in 1 .. Len(e) + 1 /\ j \in 1 .. Len(e) + 1 /\ i \in 1 .. Len(e)
      <4>1. entrenadores' = f
        BY <1>3, <3>1, <3>2
      <4> QED BY <2>4, <3>3, <4>1
    <3>5. CASE j \in 1 .. Len(e)
      BY <2>2, <2>4, <3>1, <3>3, <3>4, <3>5
    <3>6. CASE j = Len(e) + 1
      <4>1. e[i] \in Range(entrenadores) /\ Owner[e[i]] = Owner[s]
        BY <2>4, <3>1, <3>3, <3>4, <3>6 DEF Range
      <4>2. dpc = "release" /\ e[i] = perdedor
        BY <2>3, <4>1
      <4>3. perdedor # s
        BY <1>5 DEF Fighters
      <4> QED BY <3>3, <3>4, <3>6, <4>2, <4>3
    <3>7. j \in 1 .. Len(e) \/ j = Len(e) + 1
      BY <3>3, <3>4
    <3> QED BY <3>5, <3>6, <3>7
  <2>5. colaListos' \cap freed' = {} /\ Range(entrenadores') \cap freed' = {}
    BY <1>3, <1>5, <1>11, <2>1
  <2>6. dpc = "answer" => \A q \in Fighters : q \in Blocked \cup {reading} \/ Eaten(q)'
    <3>1. ASSUME NEW q \in Fighters, dpc = "answer" PROVE q \in Blocked \cup {reading} \/ Eaten(q)'
      <4>1. q \in Sessions \/ q = NONE
        BY <1>2, OnList DEF Fighters, TypeOK
      <4> QED BY <1>3, <1>12, <2>1, <3>1, <4>1
    <3> QED BY <3>1
  <2>7. dpc = "release" /\ perdedor \in freed => tpc'[perdedor] = "dead"
    <3>1. perdedor \in freed => perdedor \in Sessions /\ perdedor # s
      BY <1>2, <1>5 DEF TypeOK
    <3> QED BY <1>6, <2>1, <3>1
  <2> HIDE DEF Range
  <2> QED BY <1>3, <1>10, <2>1, <2>4, <2>5, <2>6, <2>7 DEF InQuiet
<1>21. InQuiet'
  BY <1>10, <1>20 DEF InQuiet
<1>22. Picks'
  <2>1. ASSUME NEW r \in Sessions
        PROVE  /\ tpc[r] = "dead" => tpc'[r] = "dead"
               /\ tpc[r] = "new" => tpc'[r] = "new"
               /\ \A X : Given(in[r], X) => Given(in'[r], X)
               /\ r \notin freed /\ ~HasDied(Owner[r]) /\ tpc[r] # "new" =>
                    /\ Range(nombres'[Owner[r]]) \subseteq Range(pokemons[r]) \cup {NONE}
                    /\ Given(out'[r], Range(pokemons[r]) \cup {Previous[Owner[r]]})
    <3>1. CASE r = s
      BY <1>2, <1>3, <1>5, <1>6, <1>9, <3>1 DEF Picks
    <3>2. CASE r # s
      BY <1>2, <1>3, <1>6, <1>8, <3>2 DEF Picks
    <3> QED BY <3>1, <3>2
  <2> QED BY <1>2, <1>3, <2>1, PicksOfTrainer
<1>23. BreaksForACause'
  BY <1>3 DEF BreaksForACause, IInv
<1> QED BY <1>14, <1>15, <1>16, <1>17, <1>18, <1>19, <1>21, <1>22, <1>23 DEF IInv

\* A step that changes only what was reported.
LEMMA Reports ==
  ASSUME IInv, UNCHANGED <<trainer, sockets, queues, sessions, backlog, master, reading, dpc, copies,
                           fight, undefined>>,
         lectura' \subseteq master \cup lectura,
         freed = {} /\ ~Battle => \A s \in lectura' : Gone(s)
  PROVE  IInv'
<1>1. /\ tpc' = tpc /\ goal' = goal /\ nombres' = nombres /\ backlog' = backlog /\ in' = in /\ out' = out
      /\ entrenadores' = entrenadores /\ colaListos' = colaListos /\ colaBloqueados' = colaBloqueados
      /\ buscada' = buscada /\ pokemons' = pokemons /\ freed' = freed /\ libres' = libres
      /\ master' = master /\ reading' = reading /\ dpc' = dpc
      /\ filas' = filas /\ pedida' = pedida /\ deadlockeados' = deadlockeados
      /\ perdedor' = perdedor /\ elegido' = elegido /\ undefined' = undefined
  BY DEF trainer, sockets, queues, sessions, copies, fight
<1>2. /\ Blocked' = Blocked /\ Asking' = Asking /\ Fighters' = Fighters /\ (Battle' <=> Battle)
      /\ (Quiet' <=> Quiet)
  BY <1>1 DEF Blocked, Asking, Fighters, Battle, Quiet
<1>3. \A s : (Eaten(s) <=> Eaten(s)') /\ (Outside(s) => Outside(s)') /\ (Gone(s) <=> Gone(s)')
  BY <1>1, <1>2 DEF Eaten, Outside, Gone
<1>4. TypeOK'
  BY <1>1 DEF IInv, TypeOK
<1>5. Journeys'
  BY <1>1, <1>3, JourneysKept DEF IInv
<1>6. \A s \in Sessions : Requests(s)' /\ Battling(s)'
  <2>1. \A s \in Sessions : Requests(s) /\ Battling(s)
    BY DEF IInv
  <2> QED BY <1>1, <1>2, <1>3, <2>1 DEF Requests, Battling, Placed
<1>7. Queues' /\ Detector'
  BY <1>1, <1>2 DEF IInv, Queues, Detector
<1>8. Unreleased'
  BY <1>1, <1>2, <1>3 DEF IInv, Unreleased
<1>9. InQuiet'
  BY <1>1, <1>2, <1>3 DEF IInv, InQuiet
<1>10. Picks'
  BY <1>1 DEF IInv, Picks, HasDied
<1>11. BreaksForACause'
  <2>1. (\A t : HasQuit(t) <=> HasQuit(t)') /\ (\A t : HasDied(t) <=> HasDied(t)')
    BY <1>1 DEF HasQuit, HasDied
  <2> QED BY <1>1, <1>2, <2>1 DEF IInv, BreaksForACause
<1> QED BY <1>4, <1>5, <1>6, <1>7, <1>8, <1>9, <1>10, <1>11 DEF IInv

\* A blocked trainer sends nothing before a battle.
LEMMA SelectKeeps ==
  ASSUME IInv, undefined = "no", Select
  PROVE  IInv'
<1>1. TypeOK /\ Queues /\ Journeys /\ \A r \in Sessions : Requests(r) /\ Battling(r)
  BY DEF IInv
<1>2. ASSUME NEW s \in master, Readable(s), freed = {}, ~Battle PROVE Gone(s)
  <2> SUFFICES ASSUME ~Gone(s) PROVE FALSE
    OBVIOUS
  <2>1. s \in Sessions /\ s \in Blocked /\ out[s] # <<>>
    BY <1>1, <1>2 DEF TypeOK, Unreleased, IInv, Readable
  <2>2. s \notin colaListos
    BY <1>1, <2>1 DEF Queues
  <2>3. PICK q \in Seq(ToMap) : q = out[s]
    BY <1>1, <2>1 DEF TypeOK
  <2>4. Head(q) \in ToMap /\ Has(q, Head(q)[1])
    BY <2>1, <2>3, HasTail
  <2>5. Head(q)[1] \in {"pokemon", "ubicar", "atrapar"}
    BY <2>4, ToMapKinds
  <2>6. ~Has(q, "pokemon") /\ ~Has(q, "atrapar")
    BY <1>1, <1>2, <2>1, <2>2, <2>3 DEF Battling, Requests, Battle
  <2>7. Has(q, "ubicar")
    BY <2>4, <2>5, <2>6
  <2>8. tpc[s] \in Places /\ tpc[s] \notin {"new", "backlog"}
    BY <1>1, <2>1 DEF TypeOK, Journeys, Outside
  <2>9. tpc[s] \notin {"locate", "walk", "derailed", "catch"}
    BY <1>1, <2>1, <2>2, <2>3, <2>7 DEF Requests
  <2> QED BY <2>8, <2>9 DEF Places, Gone
<1>3. /\ UNCHANGED <<trainer, sockets, queues, sessions, backlog, master, reading, dpc, copies, fight, undefined>>
      /\ lectura' = {s \in master : Readable(s)}
  BY DEF Select
<1> QED BY <1>2, <1>3, Reports

LEMMA TakeKeeps ==
  ASSUME IInv, undefined = "no", NEW s \in Sessions, Take(s)
  PROVE  IInv'
<1>1. CASE s \notin Range(colaBloqueados)
  <2>1. /\ UNCHANGED <<trainer, sockets, queues, sessions, backlog, master, reading, dpc, copies, fight, undefined>>
        /\ lectura' = lectura \ {s}
    BY <1>1 DEF Take, queues
  <2>2. lectura' \subseteq master \cup lectura /\ (freed = {} /\ ~Battle => \A r \in lectura' : Gone(r))
    BY <2>1 DEF Unreleased, IInv
  <2> QED BY <2>1, <2>2, Reports
<1>2. CASE s \in Range(colaBloqueados)
  <2>1. /\ s \in lectura /\ reading = NONE /\ ~Battle /\ lectura' = lectura \ {s} /\ reading' = s
        /\ colaBloqueados' = RemoveFirst(colaBloqueados, s)
        /\ tpc' = tpc /\ goal' = goal /\ nombres' = nombres /\ backlog' = backlog /\ in' = in /\ out' = out
        /\ entrenadores' = entrenadores /\ colaListos' = colaListos
        /\ buscada' = buscada /\ pokemons' = pokemons /\ freed' = freed /\ libres' = libres
        /\ master' = master /\ dpc' = dpc
        /\ filas' = filas /\ pedida' = pedida /\ deadlockeados' = deadlockeados
        /\ perdedor' = perdedor /\ elegido' = elegido /\ undefined' = undefined
    BY <1>2 DEF Take, trainer, sockets, sessions, copies, fight
  <2>2. TypeOK /\ Queues /\ Journeys /\ Picks /\ Detector /\ \A r \in Sessions : Requests(r) /\ Battling(r)
    BY DEF IInv
  <2>3. /\ colaBloqueados' \in Seq(Sessions) /\ IsInjective(colaBloqueados')
        /\ Blocked' = Blocked \ {s} /\ Blocked \subseteq Sessions /\ s \in Blocked
    <3>1. PICK b \in Seq(Sessions) : b = colaBloqueados /\ IsInjective(b)
      BY <2>2 DEF TypeOK, Queues
    <3>2. PICK f : f = RemoveFirst(b, s)
      OBVIOUS
    <3>3. f \in Seq(Sessions) /\ IsInjective(f) /\ Range(f) = Range(b) \ {s}
      BY <3>1, <3>2, RemoveFirstRange
    <3>4. Range(b) \subseteq Sessions
      BY <3>1, OnList
    <3> HIDE DEF Range
    <3> QED BY <1>2, <2>1, <3>1, <3>2, <3>3, <3>4 DEF Blocked
  <2>4. /\ Asking' = Asking /\ Fighters' = Fighters /\ (Battle' <=> Battle) /\ (Quiet' <=> Quiet)
        /\ \A r : Gone(r)' <=> Gone(r)
    BY <2>1 DEF Asking, Fighters, Battle, Quiet, Gone
  <2>5. \A r \in Sessions : ~Eaten(r)
    BY <2>1 DEF Eaten, Battle
  <2>6. TypeOK'
    BY <2>1, <2>2, <2>3 DEF TypeOK
  <2>7. Journeys'
    <3>1. ASSUME NEW r \in Sessions, Outside(r) PROVE Outside(r)'
      <4>1. r # s
        BY <2>3, <3>1 DEF Outside
      <4> QED BY <2>1, <2>3, <2>4, <3>1, <4>1 DEF Outside
    <3> QED BY <2>1, <2>2, <3>1, JourneysKept
  <2>8. ASSUME NEW r \in Sessions PROVE Requests(r)' /\ Battling(r)'
    <3>1. r \in Blocked \cup {reading} => r \in Blocked' \cup {reading'}
      BY <2>1, <2>3, Constants
    <3>2. dpc # "answer" /\ dpc # "release"
      BY <2>1 DEF Battle
    <3>3. /\ tpc'[r] = tpc[r] /\ in'[r] = in[r] /\ out'[r] = out[r] /\ buscada'[r] = buscada[r]
          /\ r \in colaListos' <=> r \in colaListos
          /\ freed \subseteq freed'
      BY <2>1
    <3>4. Requests(r) /\ Battling(r)
      BY <2>2
    <3> QED BY <2>5, <3>1, <3>2, <3>3, <3>4, Untouched
  <2>9. Queues'
    BY <2>1, <2>2, <2>3 DEF Queues
  <2>10. Detector'
    BY <2>1, <2>2 DEF Detector
  <2>11. Unreleased'
    <3>1. freed = {} => Gone(s) /\ \A r \in lectura : Gone(r)
      BY <2>1 DEF Unreleased, IInv
    <3>2. freed = {} => \A r \in master : r \in Blocked \/ Gone(r)
      BY DEF Unreleased, IInv
    <3> QED BY <2>1, <2>3, <2>4, <3>1, <3>2 DEF Unreleased
  <2>12. ASSUME Quiet PROVE InQuiet'
    <3>1. \E r \in freed : r # s
      <4>1. s \notin freed
        BY <2>2, <2>3 DEF Queues
      <4>2. freed # {}
        <5> SUFFICES ASSUME freed = {} PROVE FALSE
          OBVIOUS
        <5>1. tpc[s] = "dead"
          BY <2>1, <2>12 DEF Unreleased, IInv, Gone, Quiet
        <5> QED BY <2>1, <2>2, <5>1 DEF Battling, Battle
      <4> QED BY <4>1, <4>2
    <3>2. /\ colaListos \cap freed = {} /\ Range(entrenadores) \cap freed = {}
          /\ \A i, j \in DOMAIN entrenadores :
               i < j /\ Owner[entrenadores[i]] = Owner[entrenadores[j]] =>
                 dpc = "release" /\ entrenadores[i] = perdedor /\ entrenadores[j] # perdedor
          /\ dpc \in {"reduce", "confirm"} => Range(filas) \cap freed = {}
          /\ dpc \in {"confirm", "lock", "answer", "kill"} => Fighters \cap freed = {}
          /\ dpc = "lock" => \A q \in Range(deadlockeados) : q \in Blocked \cup {reading}
      BY <2>12 DEF InQuiet, IInv
    <3>3. dpc = "lock" => \A q \in Range(deadlockeados) : q \in Blocked' \cup {reading'}
      <4>1. ASSUME NEW q \in Range(deadlockeados), dpc = "lock" PROVE q \in Blocked' \cup {reading'}
        <5>1. q \in Sessions
          BY <2>2, <4>1, OnList DEF TypeOK
        <5> QED BY <2>1, <2>3, <3>2, <4>1, <5>1, Constants
      <4> QED BY <4>1
    <3>4. dpc \notin {"answer", "kill", "release"}
      BY <2>1 DEF Battle
    <3> QED BY <2>1, <2>4, <3>1, <3>2, <3>3, <3>4 DEF InQuiet
  <2>13. InQuiet'
    BY <2>4, <2>12 DEF InQuiet
  <2>14. Picks'
    BY <2>1, <2>2 DEF Picks, HasDied
  <2>15. BreaksForACause'
    BY <2>1 DEF BreaksForACause, IInv
  <2> QED BY <2>6, <2>7, <2>8, <2>9, <2>10, <2>11, <2>13, <2>14, <2>15 DEF IInv
<1> QED BY <1>1, <1>2

LEMMA MainKeeps ==
  ASSUME IInv, undefined = "no", Main
  PROVE  IInv'
BY AcceptKeeps, SelectKeeps, TakeKeeps, ReadKeeps DEF Main

-----------------------------------------------------------------------------
(* The detector, out of a battle *)

ChecksFrame == UNCHANGED <<trainer, sockets, queues, sessions, selector, undefined>>

Checking ==
  /\ filas' \in Seq(Sessions) /\ pedida' \in Seq(Nests \cup {NONE}) /\ Len(pedida') = Len(filas')
  /\ IsInjective(filas') /\ Range(filas') \subseteq Range(filas) \cup Range(entrenadores)
  /\ deadlockeados' \in Seq(Sessions) /\ perdedor' = NONE /\ elegido' = FALSE
  /\ Range(deadlockeados') \subseteq Range(filas) \cup Range(deadlockeados)
  /\ dpc' \in {"sleep", "reduce", "spin", "confirm", "lock"}
  /\ dpc' \in {"confirm", "lock"} => Len(deadlockeados') >= 2
  /\ dpc' = "spin" => Len(filas') = 1
  /\ Quiet => /\ dpc' \in {"reduce", "confirm"} => Range(filas') \cap freed = {}
              /\ dpc' \in {"confirm", "lock"} => Range(deadlockeados') \cap freed = {}
              /\ dpc' = "lock" => \A r \in Range(deadlockeados') : r \in Blocked \cup {reading}

LEMMA ChecksKeep ==
  ASSUME IInv, undefined = "no", ChecksFrame, dpc \in {"sleep", "reduce", "confirm"}, Checking
  PROVE  IInv'
<1>1. /\ tpc' = tpc /\ goal' = goal /\ nombres' = nombres /\ backlog' = backlog /\ in' = in /\ out' = out
      /\ entrenadores' = entrenadores /\ colaListos' = colaListos /\ colaBloqueados' = colaBloqueados
      /\ buscada' = buscada /\ pokemons' = pokemons /\ freed' = freed /\ libres' = libres
      /\ master' = master /\ lectura' = lectura /\ reading' = reading /\ undefined' = undefined
  BY DEF ChecksFrame, trainer, sockets, queues, sessions, selector
<1>2. TypeOK /\ Queues /\ Journeys /\ Picks /\ Detector /\ \A r \in Sessions : Requests(r) /\ Battling(r)
  BY DEF IInv
<1>3. /\ Blocked' = Blocked /\ (Quiet' <=> Quiet) /\ ~Battle /\ ~Battle' /\ perdedor = NONE
      /\ \A r : Gone(r)' <=> Gone(r)
  BY <1>1, <1>2 DEF Blocked, Quiet, Battle, Gone, Checking, Detector
<1>4. Fighters' \subseteq Range(filas) \cup Fighters /\ Fighters' \subseteq Range(deadlockeados') \cup {NONE}
  BY <1>3 DEF Fighters, Checking
<1>5. \A r \in Sessions : ~Eaten(r) /\ (Outside(r) => Outside(r)')
  BY <1>1, <1>3, <1>4 DEF Eaten, Outside, Battle, Checking
<1>6. TypeOK'
  BY <1>1, <1>2 DEF TypeOK, Checking, Steps
<1>7. Journeys'
  BY <1>1, <1>2, <1>5, JourneysKept
<1>8. ASSUME NEW r \in Sessions PROVE Requests(r)' /\ Battling(r)'
  <2>1. /\ r \in Blocked \cup {reading} => r \in Blocked' \cup {reading'}
        /\ dpc # "answer" /\ dpc # "release" /\ ~Eaten(r)
        /\ tpc'[r] = tpc[r] /\ in'[r] = in[r] /\ out'[r] = out[r] /\ buscada'[r] = buscada[r]
        /\ r \in colaListos' <=> r \in colaListos
        /\ freed \subseteq freed'
    BY <1>1, <1>3, <1>5 DEF Battle
  <2> QED BY <1>2, <2>1, Untouched
<1>9. Queues'
  BY <1>1, <1>2, <1>3 DEF Queues, Checking
<1>10. Detector'
  BY <1>3 DEF Detector, Checking, Battle
<1>11. Unreleased'
  BY <1>1, <1>3 DEF Unreleased, IInv
<1>12. ASSUME Quiet PROVE InQuiet'
  <2>1. /\ colaListos \cap freed = {} /\ Range(entrenadores) \cap freed = {}
        /\ reading # NONE => \E r \in freed : r # reading
    BY <1>12 DEF InQuiet, IInv
  <2>2. \A i, j \in DOMAIN entrenadores :
          i < j /\ Owner[entrenadores[i]] = Owner[entrenadores[j]] =>
            dpc = "release" /\ entrenadores[i] = perdedor /\ entrenadores[j] # perdedor
    BY <1>12 DEF InQuiet, IInv
  <2>3. \A i, j \in DOMAIN entrenadores : ~(i < j /\ Owner[entrenadores[i]] = Owner[entrenadores[j]])
    BY <2>2
  <2>4. NONE \notin freed
    BY <1>2, Constants DEF TypeOK
  <2>5. dpc' \in {"confirm", "lock"} => Fighters' \cap freed = {}
    BY <1>4, <1>12, <2>4 DEF Checking
  <2>6. dpc' \notin {"answer", "kill", "release"}
    BY <1>3 DEF Battle
  <2>7. /\ dpc' \in {"reduce", "confirm"} => Range(filas') \cap freed = {}
        /\ dpc' = "lock" => \A r \in Range(deadlockeados') : r \in Blocked \cup {reading}
    BY <1>12 DEF Checking
  <2> QED BY <1>1, <1>3, <2>1, <2>3, <2>5, <2>6, <2>7 DEF InQuiet
<1>13. InQuiet'
  BY <1>3, <1>12 DEF InQuiet
<1>14. Picks'
  BY <1>1, <1>2 DEF Picks, HasDied
<1>15. BreaksForACause'
  <2>1. dpc' = "spin" => Len(filas') = 1
    BY DEF Checking
  <2> QED BY <1>1, <2>1 DEF BreaksForACause
<1> QED BY <1>6, <1>7, <1>8, <1>9, <1>10, <1>11, <1>13, <1>14, <1>15 DEF IInv

LEMMA NoList == /\ <<>> \in Seq(Sessions) /\ Range(<<>>) = {} /\ IsInjective(<<>>) /\ Len(<<>>) = 0
                /\ <<>> \in Seq(Nests \cup {NONE})
<1>1. DOMAIN <<>> = {}
  OBVIOUS
<1> QED BY <1>1 DEF Range, IsInjective

LEMMA ForgetKeeps ==
  ASSUME IInv, undefined = "no", ChecksFrame, dpc \in {"sleep", "reduce", "confirm"}, Forget
  PROVE  IInv'
<1>1. Checking
  <2>1. /\ dpc' = "sleep" /\ filas' = <<>> /\ pedida' = <<>>
        /\ deadlockeados' = <<>> /\ perdedor' = NONE /\ elegido' = FALSE
    BY DEF Forget
  <2> QED BY <2>1, NoList DEF Checking
<1> QED BY <1>1, ChecksKeep

LEMMA DuplicateKeeps ==
  ASSUME IInv, undefined = "no", DetectDuplicate
  PROVE  IInv'
<1>1. /\ dpc = "sleep" /\ filas' = entrenadores /\ dpc' = "reduce" /\ ChecksFrame
      /\ pedida' = [i \in DOMAIN entrenadores |-> buscada[entrenadores[i]]]
      /\ deadlockeados' = deadlockeados /\ perdedor' = perdedor /\ elegido' = elegido
  BY DEF DetectDuplicate, ChecksFrame, fight
<1>2. TypeOK /\ Queues /\ Detector
  BY DEF IInv
<1>3. pedida' \in Seq(Nests \cup {NONE}) /\ Len(pedida') = Len(entrenadores)
  <2>1. PICK e \in Seq(Sessions) : e = entrenadores
    BY <1>2 DEF TypeOK
  <2>2. PICK f : f = [i \in 1 .. Len(e) |-> buscada[e[i]]]
    OBVIOUS
  <2>3. DOMAIN e = 1 .. Len(e) /\ Len(e) \in Nat /\ \A i \in 1 .. Len(e) : e[i] \in Sessions
    BY <2>1
  <2>4. buscada \in [Sessions -> Nests \cup {NONE}]
    BY <1>2 DEF TypeOK
  <2>5. f \in [1 .. Len(e) -> Nests \cup {NONE}]
    BY <2>2, <2>3, <2>4
  <2>6. f \in Seq(Nests \cup {NONE}) /\ Len(f) = Len(e)
    BY <2>3, <2>5
  <2>7. pedida' = f
    BY <1>1, <2>1, <2>2, <2>3
  <2> QED BY <2>1, <2>6, <2>7
<1>4. perdedor = NONE /\ elegido = FALSE
  BY <1>1, <1>2 DEF Detector
<1>5. Quiet => Range(entrenadores) \cap freed = {}
  BY DEF InQuiet, IInv
<1>6. entrenadores \in Seq(Sessions) /\ deadlockeados \in Seq(Sessions) /\ IsInjective(entrenadores)
  BY <1>2 DEF TypeOK, Queues
<1>7. Checking
  BY <1>1, <1>3, <1>4, <1>5, <1>6 DEF Checking
<1> QED BY <1>1, <1>7, ChecksKeep

\* While nobody hangs up each trainer that is found has one session, so that one of its
\* sessions blocked is the one that was copied.
LEMMA ConfirmKeeps ==
  ASSUME IInv, undefined = "no", DetectConfirm
  PROVE  IInv'
<1>1. dpc = "confirm" /\ ChecksFrame
  BY DEF DetectConfirm, ChecksFrame
<1>2. CASE ~\A s \in Range(deadlockeados) : EstaBloqueado(s)
  <2>1. Forget
    BY <1>2 DEF DetectConfirm
  <2> QED BY <1>1, <2>1, ForgetKeeps
<1>3. CASE \A s \in Range(deadlockeados) : EstaBloqueado(s)
  <2>1. /\ dpc' = "lock" /\ filas' = filas /\ pedida' = pedida
        /\ deadlockeados' = deadlockeados /\ perdedor' = perdedor /\ elegido' = elegido
    BY <1>3 DEF DetectConfirm, copies, fight
  <2>2. TypeOK /\ Queues /\ Journeys /\ Detector /\ \A r \in Sessions : Battling(r)
    BY DEF IInv
  <2>3. /\ perdedor = NONE /\ elegido = FALSE /\ Len(deadlockeados) >= 2
        /\ deadlockeados \in Seq(Sessions) /\ filas \in Seq(Sessions)
        /\ pedida \in Seq(Nests \cup {NONE}) /\ Len(pedida) = Len(filas) /\ IsInjective(filas)
    BY <1>1, <2>2 DEF Detector, TypeOK, Queues
  <2>4. Quiet => Fighters \cap freed = {}
    BY <1>1 DEF InQuiet, IInv
  <2>5. Range(deadlockeados) \subseteq Fighters
    BY DEF Fighters
  <2>6. ASSUME Quiet, NEW s \in Range(deadlockeados) PROVE s \in Blocked
    <3>1. s \in Sessions /\ s \in Fighters /\ s \notin freed
      BY <2>3, <2>4, <2>5, <2>6, OnList
    <3>2. tpc[s] \notin {"new", "dead"}
      BY <1>1, <2>2, <3>1 DEF Battling, Journeys, Outside
    <3>3. PICK r \in Range(colaBloqueados) : Owner[r] = Owner[s]
      BY <1>3, <2>6 DEF EstaBloqueado
    <3>4. r \in Sessions /\ r \in Blocked
      BY <2>2, <3>3, OnList DEF TypeOK, Blocked
    <3>5. r \notin freed
      BY <2>2, <3>4 DEF Queues
    <3>6. tpc[r] \notin {"new", "dead"}
      BY <1>1, <2>2, <3>4, <3>5 DEF Battling, Journeys, Outside
    <3>7. r = s
      BY <2>2, <3>1, <3>2, <3>3, <3>4, <3>6 DEF Journeys
    <3> QED BY <3>4, <3>7
  <2>7. Checking
    BY <2>1, <2>3, <2>4, <2>5, <2>6 DEF Checking
  <2> QED BY <1>1, <2>7, ChecksKeep
<1> QED BY <1>2, <1>3

-----------------------------------------------------------------------------
(* The detector, in a battle *)

FightsFrame == UNCHANGED <<trainer, queues, sessions, selector, copies, undefined>>

Battles == {"batalla", "gano", "perdio"}

\* A message of a battle, which is not what the trainer waits for.
Battled(before, after) ==
  /\ \A kind : kind \notin Battles => /\ Has(after, kind) <=> Has(before, kind)
                                      /\ Once(before, kind) => Once(after, kind)
  /\ \A X : Given(before, X) => Given(after, X)

\* What the detector asks and tells the trainers that fight, one of which is to answer.
Fighting ==
  /\ in' \in [Sessions -> Seq(ToTrainer)] /\ out' \in [Sessions -> Seq(ToMap)]
  /\ dpc' \in {"answer", "kill"} /\ deadlockeados' \in Seq(Sessions) /\ perdedor' \in Sessions
  /\ elegido' \in BOOLEAN /\ Fighters' \subseteq Fighters
  /\ dpc' = "answer" => deadlockeados' # <<>>
  /\ dpc' = "kill" => elegido' = FALSE
  /\ Quiet => \A r \in Fighters' : r \in Blocked \cup {reading}
  /\ \A r \in Sessions :
       /\ r \notin Fighters => in'[r] = in[r] /\ out'[r] = out[r]
       /\ Battled(in[r], in'[r])
       /\ \A kind : kind # "pokemon" =>
            /\ Has(out'[r], kind) <=> Has(out[r], kind)
            /\ Once(out[r], kind) => Once(out'[r], kind)
       /\ ~Has(out'[r], "pokemon") /\ Once(in'[r], "batalla")
       /\ Has(in'[r], "batalla") => dpc' = "answer" /\ r = Asking'
       /\ \A X : Given(out[r], X) => Given(out'[r], X)

LEMMA FightsKeep ==
  ASSUME IInv, undefined = "no", FightsFrame, dpc \in {"lock", "answer"},
         \A r \in Sessions : ~Eaten(r), Fighting
  PROVE  IInv'
<1>1. /\ tpc' = tpc /\ goal' = goal /\ nombres' = nombres /\ backlog' = backlog
      /\ entrenadores' = entrenadores /\ colaListos' = colaListos /\ colaBloqueados' = colaBloqueados
      /\ buscada' = buscada /\ pokemons' = pokemons /\ freed' = freed /\ libres' = libres
      /\ master' = master /\ lectura' = lectura /\ reading' = reading /\ undefined' = undefined
      /\ filas' = filas /\ pedida' = pedida
  BY DEF FightsFrame, trainer, queues, sessions, selector, copies
<1>2. TypeOK /\ Queues /\ Journeys /\ Picks /\ Detector /\ \A r \in Sessions : Requests(r) /\ Battling(r)
  BY DEF IInv
<1>3. /\ Blocked' = Blocked /\ (Quiet' <=> Quiet) /\ Battle' /\ perdedor' # NONE
      /\ \A r : Gone(r)' <=> Gone(r)
  BY <1>1, Constants DEF Blocked, Quiet, Battle, Gone, Fighting
<1>4. \A r \in Sessions : Outside(r) => Outside(r)'
  BY <1>1, <1>3 DEF Outside, Fighting
<1>5. TypeOK'
  BY <1>1, <1>2 DEF TypeOK, Fighting, Steps
<1>6. Journeys'
  BY <1>1, <1>2, <1>4, JourneysKept
<1>7. ASSUME NEW r \in Sessions PROVE Requests(r)' /\ Battling(r)'
  <2>1. Requests(r) /\ Battling(r) /\ ~Eaten(r)
    BY <1>2
  <2>2. \A kind : kind \in {"ubicacion", "pokemon", "victima"} =>
          /\ Has(in'[r], kind) <=> Has(in[r], kind)
          /\ Once(in[r], kind) => Once(in'[r], kind)
    BY DEF Fighting, Battled, Battles
  <2>3. \A kind : kind \in {"ubicar", "atrapar"} =>
          /\ Has(out'[r], kind) <=> Has(out[r], kind)
          /\ Once(out[r], kind) => Once(out'[r], kind)
    BY DEF Fighting
  <2>4. Placed(r) => Placed(r)'
    BY <1>1, <1>3, <2>1, <2>2 DEF Placed
  <2>5. Requests(r)'
    <3>1. tpc'[r] = tpc[r] /\ buscada'[r] = buscada[r] /\ colaListos' = colaListos
      BY <1>1
    <3>2. \A kind \in {"ubicar", "atrapar"} : Once(out'[r], kind)
      BY <2>1, <2>3 DEF Requests
    <3>3. \A kind \in {"ubicacion", "pokemon"} : Once(in'[r], kind)
      BY <2>1, <2>2 DEF Requests
    <3>4. /\ Has(in'[r], "ubicacion") <=> Has(in[r], "ubicacion")
          /\ Has(in'[r], "pokemon") <=> Has(in[r], "pokemon")
          /\ Has(out'[r], "ubicar") <=> Has(out[r], "ubicar")
          /\ Has(out'[r], "atrapar") <=> Has(out[r], "atrapar")
      BY <2>2, <2>3
    <3> QED BY <2>1, <2>4, <3>1, <3>2, <3>3, <3>4 DEF Requests
  <2>6. Battling(r)'
    <3>1. /\ ~Has(out'[r], "pokemon") /\ Once(in'[r], "batalla")
          /\ Has(in'[r], "batalla") => dpc' = "answer" /\ r = Asking'
      BY DEF Fighting
    <3>2. Once(out'[r], "pokemon")
      BY <3>1 DEF Has, Once
    <3>3. Has(in'[r], "victima") \/ tpc'[r] = "dead" => r \in freed'
      BY <1>1, <2>1, <2>2 DEF Battling
    <3> QED BY <3>1, <3>2, <3>3 DEF Battling
  <2> QED BY <2>5, <2>6
<1>8. Queues'
  BY <1>1, <1>2, <1>3 DEF Queues
<1>9. Detector'
  BY <1>3 DEF Detector, Fighting, Battle
<1>10. Unreleased'
  BY <1>1, <1>3 DEF Unreleased, IInv
<1>11. ASSUME Quiet PROVE InQuiet'
  <2>1. /\ colaListos \cap freed = {} /\ Range(entrenadores) \cap freed = {}
        /\ reading # NONE => \E r \in freed : r # reading
        /\ Fighters \cap freed = {}
    BY <1>11 DEF InQuiet, IInv
  <2>2. \A i, j \in DOMAIN entrenadores :
          i < j /\ Owner[entrenadores[i]] = Owner[entrenadores[j]] =>
            dpc = "release" /\ entrenadores[i] = perdedor /\ entrenadores[j] # perdedor
    BY <1>11 DEF InQuiet, IInv
  <2>3. \A i, j \in DOMAIN entrenadores : ~(i < j /\ Owner[entrenadores[i]] = Owner[entrenadores[j]])
    BY <2>2
  <2>4. /\ Fighters' \cap freed = {} /\ \A r \in Fighters' : r \in Blocked \cup {reading}
        /\ dpc' \in {"answer", "kill"}
    BY <1>11, <2>1 DEF Fighting
  <2>5. perdedor' \in Fighters'
    BY DEF Fighters
  <2> QED BY <1>1, <1>3, <2>1, <2>3, <2>4, <2>5 DEF InQuiet
<1>12. InQuiet'
  BY <1>3, <1>11 DEF InQuiet
<1>13. Picks'
  <2>1. \A r \in Sessions : \A X : Given(out[r], X) => Given(out'[r], X)
    BY DEF Fighting
  <2>2. \A r \in Sessions \ freed' : Given(in'[r], Range(pokemons'[r]))
    <3>1. \A r \in Sessions : \A X : Given(in[r], X) => Given(in'[r], X)
      BY DEF Fighting, Battled
    <3> QED BY <1>1, <1>2, <3>1 DEF Picks
  <2> QED BY <1>1, <1>2, <2>1, <2>2, PicksKept
<1>14. BreaksForACause'
  <2>1. dpc' # "spin"
    BY DEF Fighting
  <2> QED BY <1>1, <2>1 DEF BreaksForACause
<1> QED BY <1>5, <1>6, <1>7, <1>8, <1>9, <1>10, <1>12, <1>13, <1>14 DEF IInv

BattleSent(to, told, s, kind0) ==
  /\ told \in [Sessions -> Seq(ToTrainer)]
  /\ \A r \in Sessions : r # s => told[r] = to[r]
  /\ \A r \in Sessions : Battled(to[r], told[r])
  /\ \A r \in Sessions : ~Has(to[r], "batalla") => Once(told[r], "batalla")
  /\ \A r \in Sessions : ~Has(to[r], "batalla") /\ Has(told[r], "batalla") => r = s
  /\ kind0 # "batalla" /\ ~Has(to[s], "batalla") => ~Has(told[s], "batalla")

LEMMA BattleMessage ==
  ASSUME NEW to \in [Sessions -> Seq(ToTrainer)], NEW s \in Sessions,
         NEW kind0 \in Battles, NEW told, told = Sent(to, s, Msg(kind0, NONE))
  PROVE  BattleSent(to, told, s, kind0)
<1>1. PICK m \in ToTrainer : m = Msg(kind0, NONE) /\ m[1] = kind0
  <2>1. Msg(kind0, NONE) \in ToTrainer
    BY DEF Msg, ToTrainer, Battles
  <2>2. Msg(kind0, NONE)[1] = kind0
    BY DEF Msg
  <2> QED BY <2>1, <2>2
<1>2. told = Sent(to, s, m)
  BY <1>1
<1>3. Told(to, told, s, m)
  BY <1>2, Tells
<1>4. /\ told \in [Sessions -> Seq(ToTrainer)]
      /\ \A r \in Sessions : r # s => told[r] = to[r]
      /\ \A kind : Has(told[s], kind) => Has(to[s], kind) \/ m[1] = kind
  BY <1>3 DEF Told
<1>8. kind0 # "batalla" /\ ~Has(to[s], "batalla") => ~Has(told[s], "batalla")
  BY <1>1, <1>4
<1>5. Battled(to[s], told[s])
  <2>1. m[1] # "pokemon"
    BY <1>1 DEF Battles
  <2>2. \A X : Given(to[s], X) => Given(told[s], X)
    BY <1>3, <2>1 DEF Told
  <2>3. \A kind : kind \notin Battles => m[1] # kind
    BY <1>1
  <2>4. \A kind : kind \notin Battles => (Has(told[s], kind) <=> Has(to[s], kind))
    BY <1>3, <2>3 DEF Told
  <2>5. \A kind : kind \notin Battles => (Once(to[s], kind) => Once(told[s], kind))
    BY <1>3, <2>3 DEF Told
  <2> QED BY <2>2, <2>4, <2>5 DEF Battled
<1>6. \A r \in Sessions : Battled(to[r], told[r])
  BY <1>4, <1>5 DEF Battled
<1>7. ASSUME NEW r \in Sessions, ~Has(to[r], "batalla") PROVE Once(told[r], "batalla")
  <2>1. Once(to[r], "batalla")
    BY <1>7 DEF Has, Once
  <2>2. CASE r = s
    <3>1. Once(told[s], "batalla")
      BY <1>3, <1>7, <2>1, <2>2 DEF Told
    <3> QED BY <2>2, <3>1
  <2> QED BY <1>4, <2>1, <2>2
<1> QED BY <1>4, <1>6, <1>7, <1>8 DEF BattleSent

LEMMA LockKeeps ==
  ASSUME IInv, undefined = "no", DetectLock
  PROVE  IInv'
<1>1. /\ dpc = "lock" /\ FightsFrame /\ perdedor' = Head(deadlockeados) /\ deadlockeados' = Tail(deadlockeados)
      /\ in' = AskBattle(in, Head(deadlockeados)) /\ dpc' = "answer" /\ out' = out /\ elegido' = elegido
  BY DEF DetectLock, FightsFrame
<1>2. TypeOK /\ Detector /\ \A r \in Sessions : Battling(r)
  BY DEF IInv
<1>3. elegido = FALSE /\ Len(deadlockeados) >= 2
  BY <1>1, <1>2 DEF Detector
<1>4. PICK d \in Seq(Sessions) : d = deadlockeados /\ d # <<>> /\ Tail(d) # <<>>
  <2>1. PICK d \in Seq(Sessions) : d = deadlockeados
    BY <1>2 DEF TypeOK
  <2>2. Len(d) >= 2
    BY <1>3, <2>1
  <2>3. d # <<>> /\ Tail(d) # <<>>
    BY <2>2
  <2> QED BY <2>1, <2>3
<1>5. /\ Tail(d) \in Seq(Sessions) /\ Head(d) \in Sessions /\ Range(d) = Range(Tail(d)) \cup {Head(d)}
  BY <1>4, TailRange
<1>6. PICK s \in Sessions : s = Head(d)
  BY <1>5
<1>7. /\ perdedor' = s /\ deadlockeados' = Tail(d) /\ Asking' = s /\ s \in Fighters
      /\ Fighters' = Range(deadlockeados) /\ Fighters' \subseteq Fighters
  <2>1. perdedor' = s /\ deadlockeados' = Tail(d)
    BY <1>1, <1>4, <1>6
  <2>2. Asking' = s
    BY <1>1, <1>3, <2>1 DEF Asking
  <2> HIDE DEF Range
  <2>3. s \in Fighters /\ Fighters' = Range(deadlockeados)
    BY <1>4, <1>5, <1>6, <2>1 DEF Fighters
  <2> QED BY <2>1, <2>2, <2>3 DEF Fighters
<1>8. \A r \in Sessions : ~Has(in[r], "batalla") /\ ~Has(out[r], "pokemon") /\ ~Eaten(r)
  BY <1>1, <1>2 DEF Battling, Eaten
<1>9. in \in [Sessions -> Seq(ToTrainer)] /\ out \in [Sessions -> Seq(ToMap)]
      /\ in' = Sent(in, s, Msg("batalla", NONE)) /\ "batalla" \in Battles
  BY <1>1, <1>2, <1>4, <1>6 DEF TypeOK, AskBattle, Battles
<1>10. BattleSent(in, in', s, "batalla")
  BY <1>9, BattleMessage
<1>11. Quiet => \A r \in Fighters' : r \in Blocked \cup {reading}
  BY <1>1, <1>7 DEF InQuiet, IInv
<1>12. ASSUME NEW r \in Sessions
       PROVE  /\ r \notin Fighters => in'[r] = in[r] /\ out'[r] = out[r]
              /\ ~Has(out'[r], "pokemon") /\ Once(in'[r], "batalla")
              /\ Has(in'[r], "batalla") => dpc' = "answer" /\ r = Asking'
  BY <1>1, <1>7, <1>8, <1>10 DEF BattleSent
<1>13. in' \in [Sessions -> Seq(ToTrainer)] /\ \A r \in Sessions : Battled(in[r], in'[r])
  BY <1>10 DEF BattleSent
<1>14. Fighting
  BY <1>1, <1>3, <1>4, <1>5, <1>7, <1>9, <1>11, <1>12, <1>13 DEF Fighting
<1> QED BY <1>1, <1>8, <1>14, FightsKeep

LEMMA BattledOn ==
  ASSUME NEW a, NEW b, NEW d, Battled(a, b), Battled(b, d)
  PROVE  Battled(a, d)
<1>1. \A X : Given(a, X) => Given(d, X)
  BY DEF Battled
<1>2. ASSUME NEW kind, kind \notin Battles
      PROVE  (Has(d, kind) <=> Has(a, kind)) /\ (Once(a, kind) => Once(d, kind))
  <2>1. (Has(b, kind) <=> Has(a, kind)) /\ (Once(a, kind) => Once(b, kind))
    BY <1>2 DEF Battled
  <2>2. (Has(d, kind) <=> Has(b, kind)) /\ (Once(b, kind) => Once(d, kind))
    BY <1>2 DEF Battled
  <2> QED BY <2>1, <2>2
<1> QED BY <1>1, <1>2 DEF Battled

\* What has come from the trainer that was asked.
LEMMA AnswerFacts ==
  ASSUME IInv, DetectAnswer
  PROVE  /\ TypeOK /\ Detector /\ FightsFrame /\ dpc = "answer" /\ Asking \in Sessions
         /\ Asking \in Fighters /\ perdedor \in Sessions /\ perdedor \in Fighters
         /\ out' \in [Sessions -> Seq(ToMap)]
         /\ \A r \in Sessions :
              /\ ~Eaten(r) /\ ~Has(in[r], "batalla")
              /\ r # Asking => out'[r] = out[r]
              /\ \A kind : kind # "pokemon" => /\ Has(out'[r], kind) <=> Has(out[r], kind)
                                               /\ Once(out[r], kind) => Once(out'[r], kind)
              /\ \A X : Given(out[r], X) => Given(out'[r], X)
              /\ ~Has(out'[r], "pokemon")
         /\ Quiet => \A r \in Fighters : r \in Blocked \cup {reading}
<1>1. TypeOK /\ Detector /\ \A r \in Sessions : Battling(r)
  BY DEF IInv
<1>2. /\ dpc = "answer" /\ FightsFrame /\ out[Asking] # <<>> /\ Head(out[Asking])[1] = "pokemon"
      /\ out' = [out EXCEPT ![Asking] = Tail(@)]
  BY DEF DetectAnswer, Answered, FightsFrame
<1>3. perdedor \in Sessions /\ perdedor \in Fighters
  BY <1>1, <1>2 DEF Detector, TypeOK, Fighters
<1>4. Asking \in Fighters
  BY <1>1, <1>2, AskedFights
<1>5. Asking \in Sessions
  <2>1. Range(deadlockeados) \subseteq Sessions
    BY <1>1, OnList DEF TypeOK
  <2> QED BY <1>3, <1>4, <2>1 DEF Fighters
<1>6. PICK a \in Sessions : a = Asking
  BY <1>5
<1>7. /\ out' \in [Sessions -> Seq(ToMap)] /\ \A r \in Sessions : r # a => out'[r] = out[r]
      /\ \A kind : Has(out[a], kind) <=> Has(out'[a], kind) \/ Head(out[a])[1] = kind
      /\ \A kind : Once(out[a], kind) => Once(out'[a], kind)
      /\ \A kind : Once(out[a], kind) /\ Head(out[a])[1] = kind => ~Has(out'[a], kind)
      /\ \A X : Given(out[a], X) => Given(out'[a], X)
  <2>1. out[a] # <<>> /\ out' = [out EXCEPT ![a] = Tail(@)]
    BY <1>2, <1>6
  <2>2. PICK b, l : b = out[a] /\ l = Tail(b)
    OBVIOUS
  <2>3. b \in Seq(ToMap) /\ b # <<>> /\ out \in [Sessions -> Seq(ToMap)]
    BY <1>1, <2>1, <2>2 DEF TypeOK
  <2>4. /\ l \in Seq(ToMap)
        /\ \A kind : Has(b, kind) <=> Has(l, kind) \/ Head(b)[1] = kind
        /\ \A kind : Once(b, kind) => Once(l, kind)
        /\ \A kind : Once(b, kind) /\ Head(b)[1] = kind => ~Has(l, kind)
        /\ \A X : Given(b, X) => Given(l, X)
    BY <2>2, <2>3, HasTail
  <2>5. out' \in [Sessions -> Seq(ToMap)] /\ out'[a] = l /\ \A r \in Sessions : r # a => out'[r] = out[r]
    BY <2>1, <2>2, <2>3, <2>4
  <2> QED BY ONLY <2>2, <2>4, <2>5
<1>8. Has(out[a], "pokemon") /\ Head(out[a])[1] = "pokemon" /\ ~Has(out'[a], "pokemon")
  BY <1>1, <1>2, <1>6, <1>7 DEF Battling
<1>9. ASSUME NEW r \in Sessions
      PROVE  /\ ~Eaten(r) /\ ~Has(in[r], "batalla") /\ ~Has(out'[r], "pokemon")
             /\ \A kind : kind # "pokemon" => /\ Has(out'[r], kind) <=> Has(out[r], kind)
                                              /\ Once(out[r], kind) => Once(out'[r], kind)
             /\ \A X : Given(out[r], X) => Given(out'[r], X)
  <2>1. CASE r = a
    <3>1. ~Eaten(a) /\ ~Has(in[a], "batalla")
      BY <1>1, <1>8 DEF Eaten, Battling
    <3>2. \A kind : kind # "pokemon" => /\ Has(out'[a], kind) <=> Has(out[a], kind)
                                        /\ Once(out[a], kind) => Once(out'[a], kind)
      BY <1>7, <1>8
    <3>3. in[r] = in[a] /\ out[r] = out[a] /\ out'[r] = out'[a] /\ (Eaten(r) <=> Eaten(a))
      BY <2>1
    <3> QED BY ONLY <1>7, <1>8, <3>1, <3>2, <3>3
  <2>2. CASE r # a
    <3>1. out'[r] = out[r] /\ ~Eaten(r)
      BY <1>6, <1>7, <2>2 DEF Eaten
    <3>2. ~Has(in[r], "batalla") /\ ~Has(out[r], "pokemon")
      BY <1>1, <1>6, <2>2 DEF Battling
    <3> QED BY <3>1, <3>2
  <2> QED BY <2>1, <2>2
<1>10. Quiet => \A r \in Fighters : r \in Blocked \cup {reading}
  <2>1. ASSUME Quiet, NEW r \in Fighters PROVE r \in Blocked \cup {reading}
    <3>1. r \in Blocked \cup {reading} \/ Eaten(r)
      BY <1>2, <2>1 DEF InQuiet, IInv
    <3>2. Eaten(r) => r \in Sessions
      BY <1>5 DEF Eaten
    <3> QED BY <1>9, <3>1, <3>2
  <2> QED BY <2>1
<1> QED BY <1>1, <1>2, <1>3, <1>4, <1>5, <1>6, <1>7, <1>9, <1>10

\* entrenador1 has chosen: entrenador2 is asked.
LEMMA FirstAnswerKeeps ==
  ASSUME IInv, undefined = "no", DetectAnswer, ~elegido
  PROVE  IInv'
<1>1. /\ elegido' = TRUE /\ in' = AskBattle(in, Head(deadlockeados))
      /\ dpc' = dpc /\ deadlockeados' = deadlockeados /\ perdedor' = perdedor
  BY DEF DetectAnswer
<1>2. /\ TypeOK /\ Detector /\ FightsFrame /\ dpc = "answer" /\ perdedor \in Sessions
      /\ out' \in [Sessions -> Seq(ToMap)]
      /\ \A r \in Sessions :
           /\ ~Eaten(r) /\ ~Has(in[r], "batalla")
           /\ \A kind : kind # "pokemon" => /\ Has(out'[r], kind) <=> Has(out[r], kind)
                                            /\ Once(out[r], kind) => Once(out'[r], kind)
           /\ \A X : Given(out[r], X) => Given(out'[r], X)
           /\ ~Has(out'[r], "pokemon")
      /\ Quiet => \A r \in Fighters : r \in Blocked \cup {reading}
  BY AnswerFacts
<1>3. Asking \in Fighters /\ \A r \in Sessions : r # Asking => out'[r] = out[r]
  BY AnswerFacts
<1>4. PICK s \in Sessions : s = Head(deadlockeados) /\ s \in Range(deadlockeados)
  <2>1. PICK d \in Seq(Sessions) : d = deadlockeados /\ d # <<>>
    BY <1>2 DEF TypeOK, Detector
  <2>2. Head(d) \in Sessions /\ Range(d) = Range(Tail(d)) \cup {Head(d)}
    BY <2>1, TailRange
  <2> QED BY <2>1, <2>2
<1>5. Asking' = s /\ Fighters' = Fighters /\ s \in Fighters
  BY <1>1, <1>4 DEF Asking, Fighters
<1>6. /\ in \in [Sessions -> Seq(ToTrainer)] /\ "batalla" \in Battles
      /\ in' = Sent(in, s, Msg("batalla", NONE)) /\ deadlockeados \in Seq(Sessions) /\ deadlockeados # <<>>
  BY <1>1, <1>2, <1>4 DEF TypeOK, Detector, AskBattle, Battles
<1>7. BattleSent(in, in', s, "batalla")
  BY <1>6, BattleMessage
<1>8. ASSUME NEW r \in Sessions
      PROVE  /\ r \notin Fighters => in'[r] = in[r] /\ out'[r] = out[r]
             /\ ~Has(out'[r], "pokemon") /\ Once(in'[r], "batalla")
             /\ Has(in'[r], "batalla") => dpc' = "answer" /\ r = Asking'
  BY <1>1, <1>2, <1>3, <1>5, <1>7 DEF BattleSent
<1>9. in' \in [Sessions -> Seq(ToTrainer)] /\ \A r \in Sessions : Battled(in[r], in'[r])
  BY <1>7 DEF BattleSent
<1>10. Fighting
  BY <1>1, <1>2, <1>5, <1>6, <1>8, <1>9 DEF Fighting
<1> QED BY <1>2, <1>10, FightsKeep

\* Both have chosen: they are told, and the loser fights the next one or dies.
LEMMA SecondAnswerKeeps ==
  ASSUME IInv, undefined = "no", DetectAnswer, elegido
  PROVE  IInv'
<1>15. PICK loser \in {perdedor, Asking}, winner \in {perdedor, Asking} :
         LET told == Sent(Sent(in, winner, Msg("gano", NONE)), loser, Msg("perdio", NONE)) IN
         /\ perdedor' = loser /\ deadlockeados' = Tail(deadlockeados) /\ elegido' = FALSE
         /\ \/ Len(deadlockeados) = 1 /\ dpc' = "kill" /\ in' = told
            \/ Len(deadlockeados) # 1 /\ dpc' = dpc /\ in' = AskBattle(told, loser)
  <2>1. PICK loser \in {perdedor, Asking} :
          LET winner == IF loser = perdedor THEN Asking ELSE perdedor
              told == Sent(Sent(in, winner, Msg("gano", NONE)), loser, Msg("perdio", NONE))
          IN
          /\ perdedor' = loser
          /\ deadlockeados' = Tail(deadlockeados)
          /\ elegido' = FALSE
          /\ IF Len(deadlockeados) = 1
             THEN dpc' = "kill" /\ in' = told
             ELSE UNCHANGED dpc /\ in' = AskBattle(told, loser)
    BY DEF DetectAnswer
  <2>2. PICK winner \in {perdedor, Asking} : winner = IF loser = perdedor THEN Asking ELSE perdedor
    OBVIOUS
  <2> QED BY <2>1, <2>2
<1>16. PICK one : one = Sent(in, winner, Msg("gano", NONE))
  OBVIOUS
<1>17. PICK two : two = Sent(one, loser, Msg("perdio", NONE))
  OBVIOUS
<1>1. /\ perdedor' = loser /\ deadlockeados' = Tail(deadlockeados) /\ elegido' = FALSE
      /\ \/ Len(deadlockeados) = 1 /\ dpc' = "kill" /\ in' = two
         \/ Len(deadlockeados) # 1 /\ dpc' = dpc /\ in' = AskBattle(two, loser)
  BY <1>15, <1>16, <1>17
<1>2. /\ TypeOK /\ Detector /\ FightsFrame /\ dpc = "answer"
      /\ out' \in [Sessions -> Seq(ToMap)]
      /\ \A r \in Sessions :
           /\ ~Eaten(r) /\ ~Has(in[r], "batalla")
           /\ \A kind : kind # "pokemon" => /\ Has(out'[r], kind) <=> Has(out[r], kind)
                                            /\ Once(out[r], kind) => Once(out'[r], kind)
           /\ \A X : Given(out[r], X) => Given(out'[r], X)
           /\ ~Has(out'[r], "pokemon")
      /\ Quiet => \A r \in Fighters : r \in Blocked \cup {reading}
  BY AnswerFacts
<1>3. /\ Asking \in Fighters /\ \A r \in Sessions : r # Asking => out'[r] = out[r]
      /\ loser \in Sessions /\ winner \in Sessions /\ loser \in Fighters /\ winner \in Fighters
  BY <1>1, AnswerFacts
<1>4. PICK d \in Seq(Sessions) : d = deadlockeados /\ d # <<>>
  BY <1>2 DEF TypeOK, Detector
<1>5. Tail(d) \in Seq(Sessions) /\ Range(Tail(d)) \subseteq Range(deadlockeados)
      /\ (Len(d) # 1 => Tail(d) # <<>>)
  <2>1. Tail(d) \in Seq(Sessions) /\ Range(d) = Range(Tail(d)) \cup {Head(d)}
    BY <1>4, TailRange
  <2>2. Len(d) # 1 => Tail(d) # <<>>
    <3>1. Len(Tail(d)) = Len(d) - 1 /\ Len(d) \in Nat
      BY <1>4
    <3>2. Tail(d) = <<>> => Len(Tail(d)) = 0
      BY NoList
    <3> QED BY <3>1, <3>2
  <2> QED BY <1>4, <2>1, <2>2
<1>6. Fighters' \subseteq Fighters /\ Asking' = loser
  <2>1. perdedor' = loser /\ elegido' = FALSE /\ deadlockeados' = Tail(d)
    BY <1>1, <1>4
  <2>2. Asking' = loser
    BY <2>1 DEF Asking
  <2>3. Range(deadlockeados') \subseteq Range(deadlockeados)
    BY <1>5, <2>1
  <2> HIDE DEF Range
  <2> QED BY <1>3, <2>1, <2>2, <2>3 DEF Fighters
<1>7. in \in [Sessions -> Seq(ToTrainer)] /\ {"batalla", "gano", "perdio"} \subseteq Battles
  BY <1>2 DEF TypeOK, Battles
<1>8. BattleSent(in, one, winner, "gano")
  BY <1>16, <1>3, <1>7, BattleMessage
<1>9. BattleSent(one, two, loser, "perdio")
  <2>1. one \in [Sessions -> Seq(ToTrainer)]
    BY <1>8 DEF BattleSent
  <2> QED BY <1>3, <1>7, <1>17, <2>1, BattleMessage
<1>10. /\ two \in [Sessions -> Seq(ToTrainer)]
       /\ \A r \in Sessions : /\ ~Has(two[r], "batalla") /\ Once(two[r], "batalla")
                              /\ Battled(in[r], two[r])
                              /\ r \notin Fighters => two[r] = in[r]
  <2>1. \A r \in Sessions : ~Has(one[r], "batalla")
    BY <1>2, <1>8 DEF BattleSent
  <2>2. \A r \in Sessions : ~Has(two[r], "batalla")
    BY <1>9, <2>1 DEF BattleSent
  <2>3. \A r \in Sessions : Once(two[r], "batalla")
    BY <1>9, <2>1 DEF BattleSent
  <2>4. \A r \in Sessions : Battled(in[r], two[r])
    BY <1>8, <1>9, BattledOn DEF BattleSent
  <2>5. \A r \in Sessions : r \notin Fighters => two[r] = in[r]
    BY <1>3, <1>8, <1>9 DEF BattleSent
  <2>6. two \in [Sessions -> Seq(ToTrainer)]
    BY <1>9 DEF BattleSent
  <2> QED BY <2>2, <2>3, <2>4, <2>5, <2>6
<1>11. /\ in' \in [Sessions -> Seq(ToTrainer)]
       /\ \A r \in Sessions : /\ Once(in'[r], "batalla")
                              /\ Battled(in[r], in'[r])
                              /\ r \notin Fighters => in'[r] = in[r]
                              /\ Has(in'[r], "batalla") => dpc' = "answer" /\ r = Asking'
  <2>1. CASE Len(deadlockeados) = 1 /\ dpc' = "kill" /\ in' = two
    BY <1>10, <2>1
  <2>2. CASE Len(deadlockeados) # 1 /\ dpc' = dpc /\ in' = AskBattle(two, loser)
    <3>1. in' = Sent(two, loser, Msg("batalla", NONE)) /\ two \in [Sessions -> Seq(ToTrainer)]
      BY <1>10, <2>2 DEF AskBattle
    <3>2. BattleSent(two, in', loser, "batalla")
      BY <1>3, <1>7, <3>1, BattleMessage
    <3>3. \A r \in Sessions : Battled(in[r], in'[r])
      BY <1>10, <3>2, BattledOn DEF BattleSent
    <3>4. \A r \in Sessions : /\ Once(in'[r], "batalla")
                              /\ r \notin Fighters => in'[r] = in[r]
                              /\ Has(in'[r], "batalla") => r = loser
      BY <1>3, <1>10, <3>2 DEF BattleSent
    <3>5. in' \in [Sessions -> Seq(ToTrainer)]
      BY <3>2 DEF BattleSent
    <3> QED BY <1>2, <1>6, <2>2, <3>3, <3>4, <3>5
  <2> QED BY <1>1, <2>1, <2>2
<1>12. /\ dpc' \in {"answer", "kill"} /\ perdedor' \in Sessions /\ elegido' = FALSE
       /\ deadlockeados' \in Seq(Sessions) /\ (dpc' = "answer" => deadlockeados' # <<>>)
  BY <1>1, <1>2, <1>3, <1>4, <1>5
<1>13. Quiet => \A r \in Fighters' : r \in Blocked \cup {reading}
  BY <1>2, <1>6
<1>14. Fighting
  BY <1>2, <1>3, <1>6, <1>11, <1>12, <1>13 DEF Fighting
<1> QED BY <1>2, <1>14, FightsKeep

LEMMA AnswerKeeps ==
  ASSUME IInv, undefined = "no", DetectAnswer
  PROVE  IInv'
<1>1. CASE elegido
  BY <1>1, SecondAnswerKeeps
<1>2. CASE ~elegido
  BY <1>2, FirstAnswerKeeps
<1> QED BY <1>1, <1>2

\* matarEntrenador tells the loser; it is released in the next step.
LEMMA KillKeeps ==
  ASSUME IInv, undefined = "no", DetectKill
  PROVE  IInv'
<1>1. /\ dpc = "kill" /\ in' = Sent(in, perdedor, Msg("victima", NONE)) /\ master' = master \ {perdedor}
      /\ dpc' = "release" /\ out' = out /\ backlog' = backlog /\ lectura' = lectura /\ reading' = reading
      /\ tpc' = tpc /\ goal' = goal /\ nombres' = nombres /\ undefined' = undefined
      /\ entrenadores' = entrenadores /\ colaListos' = colaListos /\ colaBloqueados' = colaBloqueados
      /\ buscada' = buscada /\ pokemons' = pokemons /\ freed' = freed /\ libres' = libres
      /\ filas' = filas /\ pedida' = pedida /\ deadlockeados' = deadlockeados
      /\ perdedor' = perdedor /\ elegido' = elegido
  BY DEF DetectKill, trainer, queues, sessions, copies, fight
<1>2. TypeOK /\ Queues /\ Journeys /\ Picks /\ Detector /\ \A r \in Sessions : Requests(r) /\ Battling(r)
  BY DEF IInv
<1>3. PICK s \in Sessions : s = perdedor
  BY <1>1, <1>2 DEF TypeOK, Detector
<1>4. PICK m \in ToTrainer : m = Msg("victima", NONE) /\ m[1] = "victima"
  <2>1. Msg("victima", NONE) \in ToTrainer
    BY DEF Msg, ToTrainer
  <2>2. Msg("victima", NONE)[1] = "victima"
    BY DEF Msg
  <2> QED BY <2>1, <2>2
<1>5. in \in [Sessions -> Seq(ToTrainer)] /\ in' = Sent(in, s, m)
  BY <1>1, <1>2, <1>3, <1>4 DEF TypeOK
<1>6. Told(in, in', s, m)
  BY <1>5, Tells
<1>7. /\ in' \in [Sessions -> Seq(ToTrainer)] /\ \A r \in Sessions : r # s => in'[r] = in[r]
      /\ \A kind : kind # "victima" => /\ Has(in'[s], kind) <=> Has(in[s], kind)
                                       /\ Once(in[s], kind) => Once(in'[s], kind)
      /\ Has(in[s], "victima") => Has(in'[s], "victima")
      /\ Gone(s) \/ Has(in'[s], "victima")
  BY <1>4, <1>6 DEF Told
<1>8. \A X : Given(in[s], X) => Given(in'[s], X)
  BY <1>4, <1>6 DEF Told
<1>9. /\ Blocked' = Blocked /\ Fighters' = Fighters /\ (Quiet' <=> Quiet) /\ Battle' /\ s \in Fighters
      /\ \A r : Gone(r)' <=> Gone(r)
  BY <1>1, <1>3 DEF Blocked, Fighters, Quiet, Battle, Gone
<1>10. \A r \in Sessions : ~Eaten(r) /\ (Outside(r) => Outside(r)')
  <2>1. \A r \in Sessions : Outside(r) => r # s
    BY <1>9 DEF Outside
  <2> QED BY <1>1, <1>7, <1>9, <2>1 DEF Eaten, Outside
<1>11. TypeOK'
  BY <1>1, <1>2, <1>7 DEF TypeOK, Steps
<1>12. Journeys'
  BY <1>1, <1>2, <1>10, JourneysKept
<1>13. ASSUME NEW r \in Sessions PROVE Requests(r)' /\ Battling(r)'
  <2>1. CASE r = s
    <3>1. Requests(s) /\ Battling(s) /\ ~Eaten(s)
      BY <1>2, <1>10
    <3>2. Placed(s) => Placed(s)'
      BY <1>1, <1>7, <1>9, <3>1 DEF Placed
    <3>3. Requests(s)'
      <4>1. \A kind \in {"ubicacion", "pokemon"} : Once(in'[s], kind)
        BY <1>7, <3>1 DEF Requests
      <4>2. /\ Has(in'[s], "ubicacion") <=> Has(in[s], "ubicacion")
            /\ Has(in'[s], "pokemon") <=> Has(in[s], "pokemon")
        BY <1>7
      <4> QED BY <1>1, <3>1, <3>2, <4>1, <4>2 DEF Requests
    <3>4. Battling(s)'
      <4>1. Once(in'[s], "batalla") /\ (Has(in'[s], "batalla") <=> Has(in[s], "batalla"))
        BY <1>7, <3>1 DEF Battling
      <4> QED BY <1>1, <1>3, <3>1, <4>1 DEF Battling
    <3> QED BY <2>1, <3>3, <3>4
  <2>2. CASE r # s
    <3>1. /\ r \in Blocked \cup {reading} => r \in Blocked' \cup {reading'}
          /\ dpc # "answer" /\ dpc # "release" /\ ~Eaten(r)
          /\ tpc'[r] = tpc[r] /\ in'[r] = in[r] /\ out'[r] = out[r] /\ buscada'[r] = buscada[r]
          /\ r \in colaListos' <=> r \in colaListos
          /\ freed \subseteq freed'
      BY <1>1, <1>7, <1>9, <1>10, <2>2
    <3> QED BY <1>2, <3>1, Untouched
  <2> QED BY <2>1, <2>2
<1>14. Queues'
  BY <1>1, <1>2, <1>9 DEF Queues
<1>15. Detector'
  <2>1. perdedor' # NONE /\ elegido' = FALSE
    BY <1>1, <1>2 DEF Detector
  <2>2. tpc'[perdedor'] \in {"dead", "closed", "derailed"} \/ Has(in'[perdedor'], "victima")
    BY <1>1, <1>3, <1>7 DEF Gone
  <2> QED BY <1>1, <2>1, <2>2 DEF Detector
<1>16. Unreleased'
  BY <1>1, <1>9 DEF Unreleased, IInv
<1>17. ASSUME Quiet PROVE InQuiet'
  <2>1. /\ colaListos \cap freed = {} /\ Range(entrenadores) \cap freed = {}
        /\ reading # NONE => \E r \in freed : r # reading
        /\ Fighters \cap freed = {} /\ perdedor \in Blocked \cup {reading}
    BY <1>1, <1>17 DEF InQuiet, IInv
  <2>2. \A i, j \in DOMAIN entrenadores :
          i < j /\ Owner[entrenadores[i]] = Owner[entrenadores[j]] =>
            dpc = "release" /\ entrenadores[i] = perdedor /\ entrenadores[j] # perdedor
    BY <1>17 DEF InQuiet, IInv
  <2>3. \A i, j \in DOMAIN entrenadores : ~(i < j /\ Owner[entrenadores[i]] = Owner[entrenadores[j]])
    BY <1>1, <2>2
  <2>4. perdedor \notin freed
    BY <1>3, <1>9, <2>1
  <2> QED BY <1>1, <1>9, <2>1, <2>3, <2>4 DEF InQuiet
<1>18. InQuiet'
  BY <1>9, <1>17 DEF InQuiet
<1>19. Picks'
  <2>1. \A r \in Sessions \ freed' : Given(in'[r], Range(pokemons'[r]))
    BY <1>1, <1>2, <1>7, <1>8 DEF Picks
  <2> QED BY <1>1, <1>2, <2>1, PicksKept
<1>20. BreaksForACause'
  BY <1>1 DEF BreaksForACause, IInv
<1> QED BY <1>11, <1>12, <1>13, <1>14, <1>15, <1>16, <1>18, <1>19, <1>20 DEF IInv

LEMMA SomeoneQuit ==
  ASSUME ~Quiet, tpc' = tpc
  PROVE  (\E t \in Trainers : HasQuit(t)) /\ (\E t \in Trainers : HasQuit(t)')
<1>1. PICK s \in Sessions : tpc[s] = "closed"
  BY DEF Quiet
<1>2. Owner[s] \in Trainers /\ HasQuit(Owner[s]) /\ HasQuit(Owner[s])'
  BY <1>1, Constants DEF HasQuit
<1> QED BY <1>2

\* What the detector waits for comes from a trainer that is blocked, or being read.
LEMMA WildKeeps ==
  ASSUME IInv, undefined = "no", DetectWild
  PROVE  IInv'
<1>1. dpc = "answer" /\ UNCHANGED <<trainer, sockets, queues, sessions, selector, dpc, copies, fight>>
  BY DEF DetectWild
<1>2. TypeOK /\ Queues /\ Journeys /\ Picks /\ Detector /\ \A r \in Sessions : Requests(r) /\ Battling(r)
  BY DEF IInv
<1>3. Asking \in Fighters
  BY <1>1, <1>2, AskedFights
<1>4. Asking \in Sessions
  <2>1. Range(deadlockeados) \subseteq Sessions /\ perdedor \in Sessions
    BY <1>1, <1>2, OnList DEF TypeOK, Detector
  <2> QED BY <1>3, <2>1 DEF Fighters
<1>5. PICK a \in Sessions : a = Asking
  BY <1>4
<1>6. tpc[a] \notin {"new", "backlog"}
  BY <1>2, <1>3, <1>5 DEF Journeys, Outside
<1>7. ASSUME Quiet
      PROVE  a \notin freed /\ a \notin colaListos /\ ~Gone(a)
  <2>1. a \notin freed /\ (a \in Blocked \cup {reading} \/ Eaten(a))
    BY <1>1, <1>3, <1>5, <1>7 DEF InQuiet, IInv
  <2>2. a \notin colaListos
    BY <1>2, <2>1 DEF Queues, Eaten
  <2>3. tpc[a] # "dead" /\ tpc[a] # "closed"
    BY <1>1, <1>2, <1>7, <2>1 DEF Battling, Quiet
  <2> QED BY <2>1, <2>2, <2>3 DEF Gone
<1>8. /\ tpc' = tpc /\ dpc' = dpc /\ freed' = freed /\ out' = out /\ Asking' = Asking /\ dpc # "spin"
  BY <1>1 DEF trainer, sockets, sessions, fight, Asking
<1>9. CASE Answered /\ Head(out[Asking])[2] \notin Range(pokemons[Asking])
           /\ undefined' = IF Asking \in freed THEN "freedTrainer" ELSE "stalePick"
  <2>1. CASE a \in freed
    <3>1. ~Quiet
      BY <1>7, <2>1
    <3>2. undefined' = "freedTrainer" /\ \E t \in Trainers : HasQuit(t)'
      BY <1>5, <1>8, <1>9, <2>1, <3>1, SomeoneQuit
    <3>3. BreaksForACause'
      BY <1>1, <1>8, <3>2 DEF BreaksForACause
    <3> QED BY <1>1, <3>2, <3>3, Breaks
  <2>2. CASE a \notin freed
    <3>1. undefined' = "stalePick" /\ out[a] # <<>> /\ Head(out[a])[1] = "pokemon"
          /\ Head(out[a])[2] \notin Range(pokemons[a])
      BY <1>5, <1>9, <2>2 DEF Answered
    <3>2. PICK q \in Seq(ToMap) : q = out[a] /\ q # <<>>
      BY <1>2, <3>1 DEF TypeOK
    <3>3. ~HasDied(Owner[a]) => Head(out[a])[2] = Previous[Owner[a]]
      <4>1. ~HasDied(Owner[a]) => Given(q, Range(pokemons[a]) \cup {Previous[Owner[a]]})
        BY <1>2, <1>6, <2>2, <3>2 DEF Picks
      <4>2. \A X : Given(q, X) => (Head(q)[1] = "pokemon" => Head(q)[2] \in X)
        BY <3>2, HasTail
      <4>3. ~HasDied(Owner[a]) => Head(q)[2] \in Range(pokemons[a]) \cup {Previous[Owner[a]]}
        BY <3>1, <3>2, <4>1, <4>2
      <4> QED BY <3>1, <3>2, <4>3
    <3>4. HasDied(Owner[a])' \/ Head(out'[a])[2] = Previous[Owner[a]]
      BY <1>8, <3>3 DEF HasDied
    <3>5. a = Asking'
      BY <1>5, <1>8
    <3>6. BreaksForACause'
      BY <1>8, <3>1, <3>4, <3>5 DEF BreaksForACause
    <3> QED BY <1>1, <3>1, <3>6, Breaks
  <2> QED BY <2>1, <2>2
<1>10. CASE undefined' \in {"moved", "gone"} /\ ~Quiet
  <2>1. \E t \in Trainers : HasQuit(t)'
    BY <1>8, <1>10, SomeoneQuit
  <2>2. BreaksForACause'
    BY <1>8, <1>10, <2>1 DEF BreaksForACause
  <2> QED BY <1>1, <1>10, <2>2, Breaks
<1>11. CASE out[Asking] # <<>> /\ ~Answered /\ undefined' = "moved"
  <2>1. ASSUME Quiet PROVE FALSE
    <3>1. PICK q \in Seq(ToMap) : q = out[a] /\ q # <<>>
      BY <1>2, <1>5, <1>11 DEF TypeOK
    <3>2. Head(q) \in ToMap /\ Has(q, Head(q)[1])
      BY <3>1, HasTail
    <3>3. Head(q)[1] \in {"ubicar", "atrapar"}
      BY <1>5, <1>11, <3>1, <3>2, ToMapKinds DEF Answered
    <3>4. ~Has(out[a], "atrapar")
      BY <1>2, <1>7, <2>1 DEF Requests
    <3>5. Has(out[a], "ubicar")
      BY <3>1, <3>2, <3>3, <3>4
    <3>6. tpc[a] \in Places /\ tpc[a] \notin {"dead", "closed"}
      BY <1>2, <1>7, <2>1 DEF TypeOK, Gone
    <3>7. tpc[a] \notin {"locate", "walk", "derailed", "catch"}
      BY <1>2, <1>7, <2>1, <3>5 DEF Requests
    <3> QED BY <1>6, <3>6, <3>7 DEF Places
  <2> QED BY <1>10, <1>11, <2>1
<1>12. CASE out[Asking] = <<>> /\ tpc[Asking] \in {"walk", "derailed"} /\ undefined' = "moved"
  <2>1. ASSUME Quiet PROVE FALSE
    BY <1>2, <1>5, <1>7, <1>12, <2>1 DEF Requests
  <2> QED BY <1>10, <1>12, <2>1
<1>13. CASE out[Asking] = <<>> /\ Gone(Asking) /\ undefined' = "gone"
  <2>1. ~Quiet
    BY <1>5, <1>7, <1>13
  <2> QED BY <1>10, <1>13, <2>1
<1> QED BY <1>9, <1>11, <1>12, <1>13 DEF DetectWild

\* The loser is released, unless another thread has done so.
LEMMA ReleaseFreedKeeps ==
  ASSUME IInv, undefined = "no", DetectRelease, perdedor \in freed
  PROVE  IInv'
<1>1. /\ dpc = "release" /\ undefined' = "freedTrainer" /\ tpc' = tpc /\ freed' = freed /\ dpc' = dpc
      /\ UNCHANGED <<trainer, sockets, queues, sessions, selector, dpc, copies, fight>>
  BY DEF DetectRelease, trainer, sockets, sessions, selector
<1>2. CASE Quiet
  <2>1. \E r \in freed : r # perdedor /\ tpc[perdedor] = "dead"
    BY <1>1, <1>2 DEF InQuiet, IInv
  <2>2. \E r, s \in freed' : r # s /\ tpc'[s] = "dead"
    BY <1>1, <2>1
  <2>3. BreaksForACause'
    BY <1>1, <2>2 DEF BreaksForACause
  <2> QED BY <1>1, <2>3, Breaks
<1>3. CASE ~Quiet
  <2>1. \E t \in Trainers : HasQuit(t)'
    BY <1>1, <1>3, SomeoneQuit
  <2>2. BreaksForACause'
    BY <1>1, <2>1 DEF BreaksForACause
  <2> QED BY <1>1, <2>2, Breaks
<1> QED BY <1>2, <1>3

LEMMA ReleaseLoserKeeps ==
  ASSUME IInv, undefined = "no", DetectRelease, perdedor \notin freed
  PROVE  IInv'
<1>1. PICK s : s = perdedor
  OBVIOUS
<1>2. PICK B : B = RemoveFirst(colaBloqueados, s)
  OBVIOUS
<1>3. /\ dpc = "release" /\ Liberar(s, B, {}) /\ colaListos' = Liberados(s, B).listos /\ Forget
      /\ undefined' \in {"no", "doubleFree"} /\ UNCHANGED <<trainer, out, backlog, lectura, reading>>
  BY <1>1, <1>2 DEF DetectRelease
<1>4. TypeOK /\ Queues /\ Journeys /\ Detector
  BY DEF IInv
<1>5. s \in Sessions /\ s \in Fighters /\ s \notin freed /\ dpc = "release" /\ perdedor = s
  BY <1>1, <1>3, <1>4 DEF Detector, TypeOK, Fighters
<1>6. tpc[s] \notin {"new", "backlog"}
  BY <1>4, <1>5 DEF Journeys, Outside
<1>7. B \in Seq(Sessions) /\ IsInjective(B) /\ Range(B) = Blocked \ {s}
  <2>1. colaBloqueados \in Seq(Sessions) /\ IsInjective(colaBloqueados)
    BY <1>4 DEF TypeOK, Queues
  <2> QED BY <1>2, <2>1, RemoveFirstRange DEF Blocked
<1>8. tpc[s] = "catch" => Has(in[s], "victima")
  BY <1>4, <1>5 DEF Detector
<1>9. PICK W, X : W = {} /\ X = {}
  OBVIOUS
<1>10. /\ X \in SUBSET {s} /\ Liberar(s, B, W) /\ colaListos' = Liberados(s, B).listos \ X
       /\ (X # {} => out[s] = <<>> /\ Gone(s))
  BY <1>3, <1>9
<1>11. /\ UNCHANGED <<trainer, out, backlog, lectura>> /\ reading' = reading
       /\ (dpc = "release" /\ perdedor = s /\ Forget)
  BY <1>3, <1>5
<1>12. Released(s)
  BY <1>3, <1>5, <1>6, <1>7, <1>8, <1>10, <1>11, LiberarKeeps
<1>13. /\ dpc' = "sleep" /\ perdedor' = NONE /\ elegido' = FALSE /\ tpc' = tpc
  BY <1>11 DEF Forget, trainer
<1>14. Detector'
  BY <1>13 DEF Detector
<1>15. ASSUME Quiet PROVE InQuiet'
  <2>1. /\ colaListos \cap freed = {} /\ Range(entrenadores) \cap freed = {}
        /\ reading # NONE => \E r \in freed : r # reading
        /\ \A i, j \in DOMAIN entrenadores :
             i < j /\ Owner[entrenadores[i]] = Owner[entrenadores[j]] =>
               entrenadores[i] = s /\ entrenadores[j] # s
        /\ s \in Blocked \cup {reading}
    BY <1>5, <1>15 DEF InQuiet, IInv
  <2>2. /\ freed' = freed \cup {s} /\ colaListos' \subseteq colaListos \cup (Blocked \ {s})
        /\ Range(entrenadores') \subseteq Range(entrenadores) /\ s \notin Range(entrenadores')
        /\ \A i, j \in DOMAIN entrenadores' :
             i < j => Owner[entrenadores'[i]] # Owner[entrenadores'[j]]
    BY <1>12, <2>1 DEF Released
  <2>3. s \notin colaListos /\ Blocked \cap freed = {}
    BY <1>4, <2>1 DEF Queues
  <2>4. colaListos' \cap freed' = {} /\ Range(entrenadores') \cap freed' = {}
    BY <2>1, <2>2, <2>3
  <2>5. reading' # NONE => \E r \in freed' : r # reading'
    BY <1>11, <2>1, <2>2
  <2> QED BY <1>13, <2>2, <2>4, <2>5 DEF InQuiet
<1>16. InQuiet'
  BY <1>13, <1>15 DEF InQuiet, Quiet
<1> QED BY <1>12, <1>14, <1>16 DEF Released, IInv

-----------------------------------------------------------------------------
(* The reduction of the matrices *)

\* What the matrices of n copies may hold.
Reduction(n) ==
  [utilizados : [1 .. n -> [Columns -> Int]], pedidos : [1 .. n -> [Columns -> BOOLEAN]],
   atendido : [1 .. n -> BOOLEAN], disp : [Columns -> Int], wild : Nat,
   tieneUnPedido : BOOLEAN, hayDeadlock : BOOLEAN]

\* The rows that still ask for something, and what is left to do: to serve each of
\* them, and to take one off the word after pokemonsDisponibles until it is zero.
Wanting(n, m) == {i \in 1 .. n : \E c \in Columns : m.pedidos[i][c]}
Pending(n, m) == Cardinality(Wanting(n, m)) + m.wild

Reducing(n, m) ==
  /\ m \in Reduction(n)
  /\ \A i \in 1 .. n : \A c, d \in Columns : m.pedidos[i][c] /\ m.pedidos[i][d] => c = d

\* What one visit leaves: it serves a row, takes one off the word, or leaves the flag.
Visited(n, m, v) ==
  /\ Reducing(n, v)
  /\ Wanting(n, v) \subseteq Wanting(n, m) /\ v.wild <= m.wild
  /\ \/ v.hayDeadlock = m.hayDeadlock
     \/ Wanting(n, v) # Wanting(n, m)
     \/ v.wild < m.wild

LEMMA ColumnsFacts == Columns \in SUBSET Nat /\ 1 \in Columns
<1>1. PokeNests \in Seq(Nests) /\ PokeNests # <<>>
  BY DeteccionAssumption
<1>2. DOMAIN PokeNests = 1 .. Len(PokeNests) /\ Len(PokeNests) \in Nat /\ Len(PokeNests) # 0
  BY <1>1
<1> QED BY <1>2 DEF Columns

LEMMA ReductionFields ==
  ASSUME NEW n, NEW m, m \in Reduction(n)
  PROVE  /\ m.utilizados \in [1 .. n -> [Columns -> Int]] /\ m.pedidos \in [1 .. n -> [Columns -> BOOLEAN]]
         /\ m.atendido \in [1 .. n -> BOOLEAN] /\ m.disp \in [Columns -> Int] /\ m.wild \in Nat
         /\ m.tieneUnPedido \in BOOLEAN /\ m.hayDeadlock \in BOOLEAN
BY DEF Reduction

\* One cell of a matrix is changed.
LEMMA OneCell ==
  ASSUME NEW n, NEW C, NEW S, NEW t \in [1 .. n -> [C -> S]], NEW i \in 1 .. n, NEW c \in C, NEW x \in S
  PROVE  /\ [t EXCEPT ![i][c] = x] \in [1 .. n -> [C -> S]]
         /\ [t EXCEPT ![i][c] = x][i][c] = x
         /\ \A j \in 1 .. n : \A d \in C : j # i \/ d # c => [t EXCEPT ![i][c] = x][j][d] = t[j][d]
<1> DEFINE row == [t[i] EXCEPT ![c] = x]
<1>1. row \in [C -> S] /\ row[c] = x /\ \A d \in C : d # c => row[d] = t[i][d]
  OBVIOUS
<1>2. [t EXCEPT ![i][c] = x] = [t EXCEPT ![i] = row]
  OBVIOUS
<1> HIDE DEF row
<1>3. [t EXCEPT ![i] = row] \in [1 .. n -> [C -> S]]
  BY <1>1
<1>4. [t EXCEPT ![i] = row][i] = row /\ \A j \in 1 .. n : j # i => [t EXCEPT ![i] = row][j] = t[j]
  OBVIOUS
<1>5. PICK u : u = [t EXCEPT ![i] = row]
  OBVIOUS
<1>6. u[i][c] = x /\ \A j \in 1 .. n : \A d \in C : j # i \/ d # c => u[j][d] = t[j][d]
  BY <1>1, <1>4, <1>5
<1> QED BY <1>2, <1>3, <1>5, <1>6

\* A visit that meets no request leaves those there are.
LEMMA NoRequestTaken ==
  ASSUME NEW n \in Nat, NEW m, Reducing(n, m), NEW v, v \in Reduction(n), v.wild <= m.wild,
         \A i \in 1 .. n : \A c \in Columns : v.pedidos[i][c] => m.pedidos[i][c],
         v.hayDeadlock = m.hayDeadlock \/ v.wild < m.wild
  PROVE  Visited(n, m, v)
<1>1. Reducing(n, v)
  BY DEF Reducing
<1>2. Wanting(n, v) \subseteq Wanting(n, m)
  BY DEF Wanting
<1> QED BY <1>1, <1>2 DEF Visited

LEMMA ServeVisits ==
  ASSUME NEW n \in Nat, NEW m, Reducing(n, m), NEW i \in 1 .. n, NEW c \in Columns, m.pedidos[i][c]
  PROVE  Visited(n, m, Serve(m, i, c))
<1>1. m \in Reduction(n)
  BY DEF Reducing
<1>2. PICK v : v = Serve(m, i, c)
  OBVIOUS
<1> DEFINE U == [m.utilizados EXCEPT ![i][c] = m.utilizados[i][c] + 1]
           P == [m.pedidos EXCEPT ![i][c] = FALSE]
           D == [m.disp EXCEPT ![c] = @ - 1]
           T == [m.atendido EXCEPT ![i] = TRUE]
<1>3. v = [m EXCEPT !.utilizados = U, !.disp = D, !.pedidos = P, !.atendido = T,
                    !.hayDeadlock = FALSE, !.tieneUnPedido = TRUE]
  BY <1>1, <1>2 DEF Serve, Reduction
<1>4. U \in [1 .. n -> [Columns -> Int]]
  <2>1. m.utilizados \in [1 .. n -> [Columns -> Int]]
    BY <1>1, ReductionFields
  <2>2. m.utilizados[i][c] + 1 \in Int
    BY <2>1
  <2> QED BY <2>1, <2>2, OneCell
<1>5. /\ P \in [1 .. n -> [Columns -> BOOLEAN]] /\ ~P[i][c]
      /\ \A j \in 1 .. n : \A d \in Columns : P[j][d] => m.pedidos[j][d]
  <2>1. m.pedidos \in [1 .. n -> [Columns -> BOOLEAN]]
    BY <1>1, ReductionFields
  <2>2. /\ P \in [1 .. n -> [Columns -> BOOLEAN]] /\ P[i][c] = FALSE
        /\ \A j \in 1 .. n : \A d \in Columns : j # i \/ d # c => P[j][d] = m.pedidos[j][d]
    <3>1. PICK no \in BOOLEAN : no = FALSE
      OBVIOUS
    <3>2. P = [m.pedidos EXCEPT ![i][c] = no]
      BY <3>1
    <3> HIDE DEF P
    <3> QED BY <2>1, <3>1, <3>2, OneCell
  <2> HIDE DEF P
  <2> QED BY <2>2
<1>6. D \in [Columns -> Int] /\ T \in [1 .. n -> BOOLEAN]
  <2>1. m.disp \in [Columns -> Int] /\ m.atendido \in [1 .. n -> BOOLEAN]
    BY <1>1, ReductionFields
  <2>2. D \in [Columns -> Int]
    BY ONLY <2>1
  <2>3. T \in [1 .. n -> BOOLEAN]
    BY ONLY <2>1
  <2> QED BY <2>2, <2>3
<1> HIDE DEF U, P, D, T
<1>7. v \in Reduction(n) /\ v.pedidos = P /\ v.wild = m.wild
  BY <1>1, <1>3, <1>4, <1>5, <1>6 DEF Reduction
<1>8. m.wild \in Nat
  BY <1>1, ReductionFields
<1>9. Reducing(n, v)
  BY <1>5, <1>7 DEF Reducing
<1>10. Wanting(n, v) \subseteq Wanting(n, m)
  BY <1>5, <1>7 DEF Wanting
<1>11. i \in Wanting(n, m) /\ i \notin Wanting(n, v)
  <2>1. \A d \in Columns : m.pedidos[i][d] => d = c
    BY DEF Reducing
  <2> QED BY <1>5, <1>7, <2>1 DEF Wanting
<1> QED BY <1>2, <1>7, <1>8, <1>9, <1>10, <1>11 DEF Visited

LEMMA GiveBackVisits ==
  ASSUME NEW n \in Nat, NEW m, Reducing(n, m), NEW i \in 1 .. n
  PROVE  Visited(n, m, GiveBack(m, i))
<1>1. m \in Reduction(n)
  BY DEF Reducing
<1>2. PICK v : v = GiveBack(m, i)
  OBVIOUS
<1> DEFINE U == [m.utilizados EXCEPT ![i] = [c \in Columns |-> 0]]
           D == [c \in Columns |-> m.disp[c] + m.utilizados[i][c]]
           T == [m.atendido EXCEPT ![i] = TRUE]
<1>3. v = [m EXCEPT !.disp = D, !.utilizados = U, !.atendido = T]
  BY <1>1, <1>2 DEF GiveBack, Reduction
<1>4. U \in [1 .. n -> [Columns -> Int]]
  BY <1>1, ReductionFields
<1>5. D \in [Columns -> Int] /\ T \in [1 .. n -> BOOLEAN]
  <2>1. \A c \in Columns : m.disp[c] + m.utilizados[i][c] \in Int
    BY <1>1, ReductionFields
  <2> QED BY <1>1, <2>1, ReductionFields
<1> HIDE DEF U, D, T
<1>6. v \in Reduction(n) /\ v.pedidos = m.pedidos /\ v.wild = m.wild /\ v.hayDeadlock = m.hayDeadlock
  BY <1>1, <1>3, <1>4, <1>5 DEF Reduction
<1>7. m.wild \in Nat
  BY <1>1, ReductionFields
<1>8. v.wild <= m.wild
  BY <1>6, <1>7
<1> QED BY <1>2, <1>6, <1>8, NoRequestTaken

LEMMA OverrunVisits ==
  ASSUME NEW n \in Nat, NEW m, Reducing(n, m), NEW i \in 1 .. n, NEW padded \in BOOLEAN, m.wild > 0
  PROVE  Visited(n, m, Overrun(m, i, padded))
<1>1. m \in Reduction(n) /\ DOMAIN m.atendido = 1 .. n /\ m.wild \in Nat /\ m.wild - 1 \in Nat
      /\ m.wild - 1 < m.wild /\ m.wild - 1 <= m.wild
  BY ReductionFields DEF Reducing
<1>2. PICK v : v = Overrun(m, i, padded)
  OBVIOUS
<1> DEFINE T == [m.atendido EXCEPT ![i] = TRUE]
           w == [m EXCEPT !.wild = @ - 1, !.atendido[i] = TRUE, !.hayDeadlock = FALSE]
<1>3. T \in [1 .. n -> BOOLEAN]
  BY <1>1, ReductionFields
<1>4. w = [m EXCEPT !.wild = m.wild - 1, !.atendido = T, !.hayDeadlock = FALSE]
  BY <1>1 DEF Reduction
<1> HIDE DEF T, w
<1>5. w \in Reduction(n) /\ w.pedidos = m.pedidos /\ w.wild = m.wild - 1 /\ w.utilizados = m.utilizados
  BY <1>1, <1>3, <1>4 DEF Reduction
<1>6. 1 \in Columns /\ 1 \in 1 .. n
  BY ColumnsFacts
<1>7. CASE i + 1 \in 1 .. n
  <2>1. v = [w EXCEPT !.utilizados[i + 1][1] = @ + 1, !.pedidos[i + 1][1] = FALSE]
    BY <1>1, <1>2, <1>7 DEF Overrun, w
  <2> DEFINE U == [w.utilizados EXCEPT ![i + 1][1] = w.utilizados[i + 1][1] + 1]
             P == [w.pedidos EXCEPT ![i + 1][1] = FALSE]
  <2>2. v = [w EXCEPT !.utilizados = U, !.pedidos = P]
    BY <1>5, <2>1 DEF Reduction
  <2>3. U \in [1 .. n -> [Columns -> Int]]
    <3>1. w.utilizados \in [1 .. n -> [Columns -> Int]]
      BY <1>5, ReductionFields
    <3>2. w.utilizados[i + 1][1] + 1 \in Int
      BY <1>6, <1>7, <3>1
    <3> QED BY <1>6, <1>7, <3>1, <3>2, OneCell
  <2>4. /\ P \in [1 .. n -> [Columns -> BOOLEAN]]
        /\ \A j \in 1 .. n : \A d \in Columns : P[j][d] => m.pedidos[j][d]
    <3>1. w.pedidos \in [1 .. n -> [Columns -> BOOLEAN]] /\ w.pedidos = m.pedidos
      BY <1>5, ReductionFields
    <3>2. /\ P \in [1 .. n -> [Columns -> BOOLEAN]] /\ P[i + 1][1] = FALSE
          /\ \A j \in 1 .. n : \A d \in Columns : j # i + 1 \/ d # 1 => P[j][d] = w.pedidos[j][d]
      <4>1. PICK no \in BOOLEAN : no = FALSE
        OBVIOUS
      <4>2. P = [w.pedidos EXCEPT ![i + 1][1] = no]
        BY <4>1
      <4> HIDE DEF P
      <4> QED BY <1>6, <1>7, <3>1, <4>1, <4>2, OneCell
    <3> HIDE DEF P
    <3> QED BY <3>1, <3>2
  <2> HIDE DEF U, P
  <2>5. v \in Reduction(n) /\ v.pedidos = P /\ v.wild = w.wild
    BY <1>5, <2>2, <2>3, <2>4 DEF Reduction
  <2> QED BY <1>1, <1>2, <1>5, <2>4, <2>5, NoRequestTaken
<1>8. CASE i + 1 \notin 1 .. n /\ padded
  <2>1. v = w
    BY <1>1, <1>2, <1>8 DEF Overrun, w
  <2> QED BY <1>1, <1>2, <1>5, <2>1, NoRequestTaken
<1>9. CASE i + 1 \notin 1 .. n /\ ~padded
  <2>1. v = [w EXCEPT !.atendido[1] = TRUE, !.utilizados[1][1] = 0]
    BY <1>1, <1>2, <1>9 DEF Overrun, w
  <2> DEFINE U == [w.utilizados EXCEPT ![1][1] = 0]
             A == [w.atendido EXCEPT ![1] = TRUE]
  <2>2. v = [w EXCEPT !.utilizados = U, !.atendido = A]
    BY <1>5, <2>1 DEF Reduction
  <2>3. U \in [1 .. n -> [Columns -> Int]]
    BY <1>5, <1>6, ReductionFields, OneCell
  <2>4. A \in [1 .. n -> BOOLEAN]
    BY <1>5, <1>6, ReductionFields
  <2> HIDE DEF U, A
  <2>5. v \in Reduction(n) /\ v.pedidos = w.pedidos /\ v.wild = w.wild
    BY <1>5, <2>2, <2>3, <2>4 DEF Reduction
  <2> QED BY <1>1, <1>2, <1>5, <2>5, NoRequestTaken
<1> QED BY <1>7, <1>8, <1>9

LEMMA VisitVisits ==
  ASSUME NEW n \in Nat, NEW m, Reducing(n, m), NEW i \in 1 .. n, NEW padded \in BOOLEAN
  PROVE  Visited(n, m, Visit(m, i, padded))
<1>1. m \in Reduction(n) /\ m.disp \in [Columns -> Int] /\ m.wild \in Nat /\ m.tieneUnPedido \in BOOLEAN
      /\ m.pedidos \in [1 .. n -> [Columns -> BOOLEAN]]
  BY ReductionFields DEF Reducing
<1>2. PICK asked, c : asked = Asked(m, i) /\ c = Min(asked)
  OBVIOUS
<1>3. Visit(m, i, padded) =
        CASE asked # {} /\ m.disp[c] > 0 -> Serve(m, i, c)
          [] asked # {} /\ m.disp[c] <= 0 -> [m EXCEPT !.tieneUnPedido = TRUE]
          [] asked = {} /\ m.tieneUnPedido -> IF m.wild > 0 THEN Overrun(m, i, padded) ELSE m
          [] asked = {} /\ ~m.tieneUnPedido -> GiveBack(m, i)
  BY <1>2 DEF Visit
<1>4. ASSUME asked # {} PROVE c \in Columns /\ m.pedidos[i][c] /\ m.disp[c] \in Int
  <2>1. asked \in SUBSET Nat
    BY <1>2, ColumnsFacts DEF Asked
  <2>2. c \in asked
    BY <1>2, <1>4, <2>1, MinIsOne
  <2> QED BY <1>1, <1>2, <2>2 DEF Asked
<1>5. CASE asked # {} /\ m.disp[c] > 0
  <2>1. Visit(m, i, padded) = Serve(m, i, c)
    BY <1>3, <1>4, <1>5
  <2> QED BY <1>4, <1>5, <2>1, ServeVisits
<1>6. CASE asked # {} /\ m.disp[c] <= 0
  <2>1. PICK v : v = [m EXCEPT !.tieneUnPedido = TRUE]
    OBVIOUS
  <2>2. Visit(m, i, padded) = v
    BY <1>3, <1>4, <1>6, <2>1
  <2>3. v \in Reduction(n) /\ v.pedidos = m.pedidos /\ v.wild = m.wild /\ v.hayDeadlock = m.hayDeadlock
    BY <1>1, <2>1 DEF Reduction
  <2> QED BY <1>1, <2>2, <2>3, NoRequestTaken
<1>7. CASE asked = {} /\ m.tieneUnPedido /\ m.wild > 0
  <2>1. Visit(m, i, padded) = Overrun(m, i, padded)
    BY <1>3, <1>7
  <2> QED BY <1>7, <2>1, OverrunVisits
<1>8. CASE asked = {} /\ m.tieneUnPedido /\ ~(m.wild > 0)
  <2>1. Visit(m, i, padded) = m
    BY <1>3, <1>8
  <2> QED BY <1>1, <2>1, NoRequestTaken
<1>9. CASE asked = {} /\ ~m.tieneUnPedido
  <2>1. Visit(m, i, padded) = GiveBack(m, i)
    BY <1>3, <1>9
  <2> QED BY <2>1, GiveBackVisits
<1>10. asked # {} => m.disp[c] > 0 \/ m.disp[c] <= 0
  BY <1>4
<1> QED BY <1>5, <1>6, <1>7, <1>8, <1>9, <1>10

LEMMA PendingFacts ==
  ASSUME NEW n \in Nat, NEW m, Reducing(n, m), NEW v, Visited(n, m, v)
  PROVE  /\ Pending(n, m) \in Nat /\ Pending(n, v) \in Nat /\ Pending(n, v) <= Pending(n, m)
         /\ v.hayDeadlock = m.hayDeadlock \/ Pending(n, v) < Pending(n, m)
<1>1. PICK A, B : A = Wanting(n, m) /\ B = Wanting(n, v)
  OBVIOUS
<1>2. IsFiniteSet(A)
  <2>1. IsFiniteSet(1 .. n) /\ A \subseteq 1 .. n
    BY <1>1, FS_Interval DEF Wanting
  <2> QED BY <2>1, FS_Subset
<1>3. B \subseteq A
  BY <1>1 DEF Visited
<1>4. /\ IsFiniteSet(B) /\ Cardinality(B) <= Cardinality(A)
      /\ Cardinality(A) = Cardinality(B) => A = B
  BY <1>2, <1>3, FS_Subset
<1>5. Cardinality(A) \in Nat /\ Cardinality(B) \in Nat
  BY <1>2, <1>4, FS_CardinalityType
<1>6. m.wild \in Nat /\ v.wild \in Nat
  BY ReductionFields DEF Reducing, Visited
<1>7. v.wild <= m.wild /\ (v.hayDeadlock = m.hayDeadlock \/ B # A \/ v.wild < m.wild)
  BY <1>1 DEF Visited
<1>8. PICK a, b, x, y : a = Cardinality(A) /\ b = Cardinality(B) /\ x = m.wild /\ y = v.wild
  OBVIOUS
<1>9. Pending(n, m) = a + x /\ Pending(n, v) = b + y
  BY <1>1, <1>8 DEF Pending
<1>10. a \in Nat /\ b \in Nat /\ x \in Nat /\ y \in Nat /\ b <= a /\ y <= x
       /\ (v.hayDeadlock = m.hayDeadlock \/ b # a \/ y < x)
  BY <1>4, <1>5, <1>6, <1>7, <1>8
<1>11. a + x \in Nat /\ b + y \in Nat /\ b + y <= a + x /\ (b # a \/ y < x => b + y < a + x)
  BY <1>10
<1> QED BY <1>9, <1>10, <1>11

\* What a pass over two rows or more leaves, from a matrix m.
Passed(n, m, v) ==
  /\ Reducing(n, v) /\ Pending(n, v) \in Nat /\ Pending(n, v) <= Pending(n, m)
  /\ v.hayDeadlock \/ Pending(n, v) < Pending(n, m)

LEMMA PassedVisit ==
  ASSUME NEW n \in Nat, NEW m, Pending(n, m) \in Nat, NEW v, Passed(n, m, v), NEW w, Visited(n, v, w)
  PROVE  Passed(n, m, w)
<1>1. PICK a, b, c : a = Pending(n, m) /\ b = Pending(n, v) /\ c = Pending(n, w)
  OBVIOUS
<1>2. Reducing(n, v) /\ b \in Nat /\ b <= a /\ (v.hayDeadlock \/ b < a) /\ a \in Nat
  BY <1>1 DEF Passed
<1>3. c \in Nat /\ c <= b /\ (w.hayDeadlock = v.hayDeadlock \/ c < b)
  BY <1>1, <1>2, PendingFacts
<1>4. c <= a /\ (c < b => c < a) /\ (b < a => c < a)
  BY <1>2, <1>3
<1>5. Reducing(n, w)
  BY DEF Visited
<1>6. w.hayDeadlock \/ c < a
  BY <1>2, <1>3, <1>4
<1> QED BY <1>1, <1>3, <1>4, <1>5, <1>6 DEF Passed

\* A pass stays in a set of matrices that its visits do not leave.
LEMMA PassStays ==
  ASSUME NEW n \in Nat, NEW m, DOMAIN m.atendido = 1 .. n, NEW padded \in BOOLEAN, NEW X,
         [m EXCEPT !.hayDeadlock = @ \/ n >= 2] \in X,
         \A i \in 1 .. n : \A v \in X : Visit(v, i, padded) \in X
  PROVE  Pass(m, padded) \in X
<1> DEFINE before == [m EXCEPT !.hayDeadlock = @ \/ n >= 2]
           G == [i \in 1 .. n |-> [v \in X |-> Visit(v, i, padded)]]
           E(h) == h = [i \in 0 .. n |-> IF i = 0 THEN before ELSE Visit(h[i - 1], i, padded)]
<1>1. Cardinality(DOMAIN m.atendido) = n
  BY FS_Interval
<1>2. before \in X
  OBVIOUS
<1> HIDE DEF before
<1>4. ASSUME NEW i \in 1 .. n, NEW v \in X
      PROVE  Visit(v, i, padded) \in X
  OBVIOUS
<1>5. G \in [1 .. n -> [X -> X]]
  BY <1>4
<1>6. PICK g \in [0 .. n -> X] : g[0] = before /\ \A i \in 1 .. n : g[i] = G[i][g[i - 1]]
  <2>1. PICK a, S, N, F : a = before /\ S = X /\ N = n /\ F = G
    OBVIOUS
  <2> HIDE DEF G, E
  <2>2. N \in Nat /\ a \in S /\ F \in [1 .. N -> [S -> S]]
    BY <1>2, <1>5, <2>1
  <2>3. Unfolded(S, a, N, F)
    BY ONLY <2>2, Unfolds
  <2>4. PICK g \in [0 .. N -> S] : g[0] = a /\ \A i \in 1 .. N : g[i] = F[i][g[i - 1]]
    BY ONLY <2>3 DEF Unfolded
  <2>5. g \in [0 .. n -> X] /\ g[0] = before /\ \A i \in 1 .. n : g[i] = G[i][g[i - 1]]
    BY ONLY <2>1, <2>4
  <2> QED BY <2>5
<1>7. E(g)
  <2>1. ASSUME NEW i \in 0 .. n
        PROVE  g[i] = IF i = 0 THEN before ELSE Visit(g[i - 1], i, padded)
    <3>1. CASE i = 0
      BY <1>6, <3>1
    <3>2. CASE i # 0
      <4>1. i \in 1 .. n /\ i - 1 \in 0 .. n
        BY <3>2
      <4>2. g[i - 1] \in X
        BY <1>6, <4>1
      <4>3. G[i][g[i - 1]] = Visit(g[i - 1], i, padded)
        BY <4>1, <4>2
      <4> HIDE DEF G
      <4> QED BY <1>6, <3>2, <4>1, <4>3
    <3> QED BY <3>1, <3>2
  <2> HIDE DEF G
  <2>2. [i \in 0 .. n |-> g[i]] = [i \in 0 .. n |-> IF i = 0 THEN before ELSE Visit(g[i - 1], i, padded)]
    BY <2>1, Zenon
  <2>3. g = [i \in 0 .. n |-> g[i]]
    BY <1>6
  <2> QED BY <2>2, <2>3, Zenon
<1>8. PICK h : h = (CHOOSE x : E(x))
  OBVIOUS
<1>9. E(h)
  <2>1. \E x : E(x)
    BY <1>7
  <2>2. E(CHOOSE x : E(x))
    BY <2>1, Zenon
  <2> QED BY <1>8, <2>2, Zenon
<1>10. Pass(m, padded) = h[n]
  <2> DEFINE from(rows) ==
        (CHOOSE x : x = [i \in 0 .. rows |-> IF i = 0 THEN [m EXCEPT !.hayDeadlock = @ \/ rows >= 2]
                                             ELSE Visit(x[i - 1], i, padded)])[rows]
  <2>1. Pass(m, padded) = from(Cardinality(DOMAIN m.atendido))
    BY Zenon DEF Pass
  <2>2. from(n) = h[n]
    BY <1>8, Zenon DEF before
  <2> HIDE DEF from
  <2>3. Pass(m, padded) = from(n)
    BY <1>1, <2>1
  <2> QED BY <2>2, <2>3
<1>11. h[0] = before /\ \A i \in 1 .. n : h[i] = Visit(h[i - 1], i, padded)
  <2> DEFINE w == [i \in 0 .. n |-> IF i = 0 THEN before ELSE Visit(h[i - 1], i, padded)]
  <2>1. w[0] = before /\ \A i \in 1 .. n : w[i] = Visit(h[i - 1], i, padded)
    OBVIOUS
  <2>2. h = w
    BY <1>9
  <2> HIDE DEF w
  <2> QED BY <2>1, <2>2
<1> HIDE DEF E, G
<1>12. h[n] \in X
  <2> DEFINE S == {i \in 0 .. n : h[i] \in X}
  <2>1. 0 \in S
    BY <1>2, <1>11
  <2>2. ASSUME NEW i \in 1 .. n, i - 1 \in S PROVE i \in S
    <3>1. i \in 1 .. n /\ h[i - 1] \in X /\ i \in 0 .. n
      BY <2>2
    <3>2. h[i] \in X
      BY <1>4, <1>11, <3>1
    <3> QED BY <3>1, <3>2
  <2> HIDE DEF S
  <2>3. \A i \in 0 .. n : i \in S
    BY ONLY n \in Nat, <2>1, <2>2, FromZero
  <2>4. n \in 0 .. n
    OBVIOUS
  <2>5. n \in S
    BY <2>3, <2>4
  <2> QED BY <2>5 DEF S
<1> QED BY <1>10, <1>12

LEMMA Passes ==
  ASSUME NEW n \in Nat, n >= 2, NEW m, Reducing(n, m), NEW padded \in BOOLEAN
  PROVE  Passed(n, m, Pass(m, padded))
<1> DEFINE before == [m EXCEPT !.hayDeadlock = @ \/ n >= 2]
           X == {v \in Reduction(n) : Passed(n, m, v)}
<1>1. DOMAIN m.atendido = 1 .. n
  BY ReductionFields DEF Reducing
<1>2. before \in X
  <2>1. m \in Reduction(n) /\ m.hayDeadlock \in BOOLEAN /\ m.wild \in Nat
    BY ReductionFields DEF Reducing
  <2>2. before = [m EXCEPT !.hayDeadlock = TRUE]
    <3>1. (m.hayDeadlock \/ n >= 2) = TRUE
      OBVIOUS
    <3> QED BY <2>1, <3>1 DEF Reduction
  <2> HIDE DEF before
  <2>3. before \in Reduction(n) /\ before.pedidos = m.pedidos /\ before.wild = m.wild /\ before.hayDeadlock = TRUE
    BY <2>1, <2>2 DEF Reduction
  <2>4. Reducing(n, before)
    BY <2>3 DEF Reducing
  <2>5. Pending(n, before) = Pending(n, m)
    BY <2>3 DEF Pending, Wanting
  <2>6. Visited(n, m, m)
    BY <2>1, NoRequestTaken
  <2>7. Pending(n, m) \in Nat
    BY <2>6, PendingFacts
  <2>8. Pending(n, m) <= Pending(n, m)
    BY <2>7
  <2> QED BY <2>3, <2>4, <2>5, <2>7, <2>8 DEF Passed
<1>3. Pending(n, m) \in Nat
  <2>1. m \in Reduction(n) /\ m.wild \in Nat /\ m.wild <= m.wild
    BY ReductionFields DEF Reducing
  <2>2. Visited(n, m, m)
    BY <2>1, NoRequestTaken
  <2> QED BY <2>2, PendingFacts
<1> HIDE DEF before
<1>4. ASSUME NEW i \in 1 .. n, NEW v \in X
      PROVE  Visit(v, i, padded) \in X
  <2>1. Passed(n, m, v) /\ Reducing(n, v)
    BY DEF Passed
  <2>2. Visited(n, v, Visit(v, i, padded))
    BY <2>1, VisitVisits
  <2>3. PICK w : w = Visit(v, i, padded)
    OBVIOUS
  <2>4. Passed(n, m, w)
    BY <1>3, <2>1, <2>2, <2>3, PassedVisit
  <2> QED BY <2>3, <2>4 DEF Passed, Reducing
<1> HIDE DEF X
<1>5. Pass(m, padded) \in X
  BY ONLY <1>1, <1>2, <1>4, n \in Nat, padded \in BOOLEAN, PassStays DEF before
<1> QED BY <1>5 DEF X

\* After k passes the reduction has stopped, or k of the things to do are done.
After(n, m, k, v) == Reducing(n, v) /\ (Stops(v) \/ Pending(n, v) + k <= Pending(n, m))

\* The passes of a reduction, while they stay in a set of matrices.
OnePass(v, padded) == IF Stops(v) THEN v ELSE Pass(v, padded)

Passing(m, padded, N, X) ==
  \E h : /\ Reduce(m, padded) = h[N] /\ h[0] = m
         /\ \A k \in 1 .. N : h[k] = OnePass(h[k - 1], padded)
         /\ \A k \in 0 .. N : h[k] \in X

LEMMA ReducePasses ==
  ASSUME NEW m, NEW padded \in BOOLEAN, NEW N \in Nat, N = Cardinality(DOMAIN m.atendido) + m.wild + 2,
         NEW X, m \in X, \A v \in X : OnePass(v, padded) \in X
  PROVE  Passing(m, padded, N, X)
<1> DEFINE Next1(v) == IF Stops(v) THEN v ELSE Pass(v, padded)
           G == [k \in 1 .. N |-> [v \in X |-> Next1(v)]]
           E(h) == h = [k \in 0 .. N |-> IF k = 0 THEN m ELSE
                                         LET before == h[k - 1] IN
                                         IF Stops(before) THEN before ELSE Pass(before, padded)]
<1>1. N \in Nat /\ Cardinality(DOMAIN m.atendido) + m.wild + 2 = N
  OBVIOUS
<1>2. \A v : Next1(v) = OnePass(v, padded)
  BY DEF OnePass
<1>4. ASSUME NEW k \in 1 .. N, NEW v \in X
      PROVE  Next1(v) \in X
  BY <1>2
<1>5. m \in X
  OBVIOUS
<1>6. G \in [1 .. N -> [X -> X]]
  BY <1>4
<1>7. PICK g \in [0 .. N -> X] : g[0] = m /\ \A k \in 1 .. N : g[k] = G[k][g[k - 1]]
  <2>1. PICK a, S, M, F : a = m /\ S = X /\ M = N /\ F = G
    OBVIOUS
  <2> HIDE DEF G, E
  <2>2. M \in Nat /\ a \in S /\ F \in [1 .. M -> [S -> S]]
    BY <1>1, <1>5, <1>6, <2>1
  <2>3. Unfolded(S, a, M, F)
    BY ONLY <2>2, Unfolds
  <2>4. PICK g \in [0 .. M -> S] : g[0] = a /\ \A i \in 1 .. M : g[i] = F[i][g[i - 1]]
    BY ONLY <2>3 DEF Unfolded
  <2>5. g \in [0 .. N -> X] /\ g[0] = m /\ \A k \in 1 .. N : g[k] = G[k][g[k - 1]]
    BY ONLY <2>1, <2>4
  <2> QED BY <2>5
<1>8. E(g)
  <2>1. ASSUME NEW k \in 0 .. N
        PROVE  g[k] = IF k = 0 THEN m ELSE LET before == g[k - 1] IN
                                           IF Stops(before) THEN before ELSE Pass(before, padded)
    <3>1. CASE k = 0
      BY <1>7, <3>1
    <3>2. CASE k # 0
      <4>1. k \in 1 .. N /\ k - 1 \in 0 .. N
        BY <1>1, <3>2
      <4>2. g[k - 1] \in X
        BY <1>7, <4>1
      <4>3. G[k][g[k - 1]] = Next1(g[k - 1])
        BY <4>1, <4>2
      <4> HIDE DEF G
      <4> QED BY <1>7, <3>2, <4>1, <4>3
    <3> QED BY <3>1, <3>2
  <2> HIDE DEF G
  <2>2. [k \in 0 .. N |-> g[k]]
          = [k \in 0 .. N |-> IF k = 0 THEN m ELSE LET before == g[k - 1] IN
                                              IF Stops(before) THEN before ELSE Pass(before, padded)]
    BY <2>1, Zenon
  <2>3. g = [k \in 0 .. N |-> g[k]]
    BY <1>7
  <2> QED BY <2>2, <2>3, Zenon
<1>9. PICK h : h = (CHOOSE x : E(x))
  OBVIOUS
<1>10. E(h)
  <2> HIDE DEF E
  <2>1. \E x : E(x)
    BY <1>8
  <2>2. E(CHOOSE x : E(x))
    BY <2>1, Zenon
  <2> QED BY <1>9, <2>2, Zenon
<1>11. Reduce(m, padded) = h[N]
  <2> DEFINE from(passes) ==
        (CHOOSE x : x = [k \in 0 .. passes |->
                           IF k = 0 THEN m ELSE LET before == x[k - 1] IN
                                                IF Stops(before) THEN before ELSE Pass(before, padded)])[passes]
  <2>1. Reduce(m, padded) = from(Cardinality(DOMAIN m.atendido) + m.wild + 2)
    BY Zenon DEF Reduce
  <2>2. from(N) = h[N]
    BY <1>9, Zenon
  <2> HIDE DEF from
  <2>3. Reduce(m, padded) = from(N)
    BY <1>1, <2>1
  <2> QED BY <2>2, <2>3
<1>12. h[0] = m /\ \A k \in 1 .. N : h[k] = Next1(h[k - 1])
  <2> DEFINE w == [k \in 0 .. N |-> IF k = 0 THEN m ELSE
                                    LET before == h[k - 1] IN
                                    IF Stops(before) THEN before ELSE Pass(before, padded)]
  <2>1. w[0] = m /\ \A k \in 1 .. N : w[k] = Next1(h[k - 1])
    BY <1>1
  <2>2. h = w
    BY <1>10
  <2> HIDE DEF w
  <2> QED BY <2>1, <2>2
<1> HIDE DEF E, G
<1>13. \A k \in 0 .. N : h[k] \in X
  <2> DEFINE S == {k \in 0 .. N : h[k] \in X}
  <2>1. 0 \in S
    BY <1>12
  <2>2. ASSUME NEW k \in 1 .. N, k - 1 \in S PROVE k \in S
    <3>1. h[k - 1] \in X /\ k \in 0 .. N
      BY <2>2
    <3>2. h[k] \in X
      BY <1>4, <1>12, <3>1
    <3> QED BY <3>1, <3>2
  <2> HIDE DEF S
  <2>3. \A k \in 0 .. N : k \in S
    BY ONLY <1>1, <2>1, <2>2, FromZero
  <2> QED BY <2>3 DEF S
<1>14. \A k \in 1 .. N : h[k] = OnePass(h[k - 1], padded)
  BY <1>2, <1>12
<1> QED BY <1>11, <1>12, <1>13, <1>14 DEF Passing

\* It does stop, unless there is one row.
LEMMA Reduces ==
  ASSUME NEW n \in Nat, n # 1, NEW m, Reducing(n, m), NEW padded \in BOOLEAN
  PROVE  Stops(Reduce(m, padded))
<1> DEFINE N == n + m.wild + 2
           X == {v \in Reduction(n) : Reducing(n, v)}
<1>1. /\ m \in Reduction(n) /\ m.wild \in Nat /\ N \in Nat
      /\ Cardinality(DOMAIN m.atendido) + m.wild + 2 = N
  <2>1. m \in Reduction(n) /\ m.wild \in Nat /\ DOMAIN m.atendido = 1 .. n
    BY ReductionFields DEF Reducing
  <2>2. Cardinality(1 .. n) = n
    BY FS_Interval
  <2> QED BY <2>1, <2>2
<1>2. Pending(n, m) \in Nat /\ Pending(n, m) < N
  <2>1. Wanting(n, m) \subseteq 1 .. n
    BY DEF Wanting
  <2>3. IsFiniteSet(1 .. n) /\ Cardinality(1 .. n) = n
    BY FS_Interval
  <2>2. Cardinality(Wanting(n, m)) <= n /\ Cardinality(Wanting(n, m)) \in Nat
    BY <2>1, <2>3, FS_Subset, FS_CardinalityType
  <2> QED BY <1>1, <2>2 DEF Pending
<1> HIDE DEF N
\* A pass that is taken is over two rows or more: no matrix without a row goes on.
<1>3. ASSUME NEW v, Reducing(n, v)
      PROVE  /\ Reducing(n, OnePass(v, padded))
             /\ \/ Stops(OnePass(v, padded))
                \/ Pending(n, v) \in Nat /\ Pending(n, OnePass(v, padded)) \in Nat /\ Pending(n, OnePass(v, padded)) < Pending(n, v)
  <2>1. CASE Stops(v)
    BY <1>3, <2>1 DEF OnePass
  <2>2. CASE ~Stops(v)
    <3>1. v \in Reduction(n) /\ DOMAIN v.atendido = 1 .. n /\ v.wild \in Nat /\ v.wild <= v.wild
      BY <1>3, ReductionFields DEF Reducing
    <3>2. n # 0
      BY <2>2, <3>1 DEF Stops
    <3>3. n >= 2
      BY <3>2
    <3>4. PICK w : w = Pass(v, padded)
      OBVIOUS
    <3>5. Passed(n, v, w)
      BY <1>3, <3>3, <3>4, Passes
    <3>6. Reducing(n, w) /\ (Stops(w) \/ Pending(n, w) < Pending(n, v)) /\ Pending(n, w) \in Nat
      BY <3>5 DEF Passed, Stops
    <3>7. Visited(n, v, v)
      BY <1>3, <3>1, NoRequestTaken
    <3>8. Pending(n, v) \in Nat
      BY <1>3, <3>7, PendingFacts
    <3>9. OnePass(v, padded) = w
      BY <2>2, <3>4 DEF OnePass
    <3> QED BY <3>6, <3>8, <3>9
  <2> QED BY <2>1, <2>2
<1>4. ASSUME NEW v \in X
      PROVE  OnePass(v, padded) \in X
  <2>1. PICK w : w = OnePass(v, padded)
    OBVIOUS
  <2>2. Reducing(n, w)
    BY <1>3, <2>1
  <2> QED BY <2>1, <2>2 DEF Reducing
<1>5. m \in X
  BY <1>1
<1> HIDE DEF X
<1>6. N = Cardinality(DOMAIN m.atendido) + m.wild + 2 /\ N \in Nat
  BY <1>1
<1>7. Passing(m, padded, N, X)
  BY ONLY <1>4, <1>5, <1>6, padded \in BOOLEAN, ReducePasses
<1>12. PICK h : /\ Reduce(m, padded) = h[N] /\ h[0] = m
                /\ \A k \in 1 .. N : h[k] = OnePass(h[k - 1], padded)
  BY ONLY <1>7 DEF Passing
<1>13. After(n, m, N, h[N])
  <2> DEFINE S == {k \in 0 .. N : After(n, m, k, h[k])}
  <2>1. 0 \in S
    <3>1. Pending(n, m) + 0 <= Pending(n, m)
      BY <1>2
    <3>2. After(n, m, 0, m)
      BY <3>1 DEF After
    <3> QED BY <1>1, <1>12, <3>2
  <2>2. ASSUME NEW k \in 1 .. N, k - 1 \in S PROVE k \in S
    <3>1. k \in 1 .. N /\ k \in 0 .. N /\ k \in Nat /\ After(n, m, k - 1, h[k - 1])
      BY <1>1, <2>2
    <3>2. PICK v, w : v = h[k - 1] /\ w = OnePass(v, padded)
      OBVIOUS
    <3>3. h[k] = w
      BY <1>12, <3>1, <3>2
    <3>4. Reducing(n, v) /\ (Stops(v) \/ Pending(n, v) + (k - 1) <= Pending(n, m))
      BY <3>1, <3>2 DEF After
    <3>5. /\ Reducing(n, w)
          /\ \/ Stops(w)
             \/ Pending(n, v) \in Nat /\ Pending(n, w) \in Nat /\ Pending(n, w) < Pending(n, v)
      BY <1>3, <3>2, <3>4
    <3>6. Stops(v) => Stops(w)
      BY <3>2 DEF OnePass
    <3>7. ASSUME ~Stops(w) PROVE Pending(n, w) + k <= Pending(n, m)
      <4>1. PICK a, b, c : a = Pending(n, m) /\ b = Pending(n, v) /\ c = Pending(n, w)
        OBVIOUS
      <4>2. a \in Nat /\ b \in Nat /\ c \in Nat /\ c < b /\ b + (k - 1) <= a
        BY <1>2, <3>4, <3>5, <3>6, <3>7, <4>1
      <4>3. c + k <= a
        BY <3>1, <4>2
      <4> QED BY <4>1, <4>3
    <3>8. After(n, m, k, w)
      BY <3>5, <3>7 DEF After
    <3> QED BY <3>1, <3>3, <3>8
  <2> HIDE DEF S
  <2>3. \A k \in 0 .. N : k \in S
    BY ONLY <1>1, <2>1, <2>2, FromZero
  <2>4. N \in 0 .. N
    BY <1>1
  <2>5. N \in S
    BY <2>3, <2>4
  <2> QED BY <2>5 DEF S
<1>14. ASSUME ~Stops(h[N]) PROVE FALSE
  <2>1. PICK v : v = h[N]
    OBVIOUS
  <2>2. Reducing(n, v) /\ Pending(n, v) + N <= Pending(n, m)
    BY <1>13, <1>14, <2>1 DEF After
  <2>3. v \in Reduction(n) /\ v.wild \in Nat /\ v.wild <= v.wild
    BY <2>2, ReductionFields DEF Reducing
  <2>4. Visited(n, v, v)
    BY <2>2, <2>3, NoRequestTaken
  <2>5. Pending(n, v) \in Nat
    BY <2>2, <2>4, PendingFacts
  <2> QED BY <1>1, <1>2, <2>2, <2>5
<1> QED BY <1>12, <1>14

\* What the detector reads makes matrices it can reduce.
LEMMA MatricesReduce ==
  ASSUME TypeOK, NEW wild \in Nat
  PROVE  Reducing(Len(filas), Matrices(wild)) /\ Len(filas) \in Nat
<1>0. PICK f \in Seq(Sessions) : f = filas
  BY DEF TypeOK
<1>1. PICK n : f = filas /\ n = Len(f)
  BY <1>0
<1>2. n \in Nat /\ DOMAIN f = 1 .. n /\ \A i \in 1 .. n : f[i] \in Sessions
  BY <1>1
<1>3. PICK m : m = Matrices(wild)
  OBVIOUS
<1> DEFINE held(i, c) == Cardinality({k \in DOMAIN pokemons[f[i]] : Nest[pokemons[f[i]][k]] = PokeNests[c]})
           free(c) == Cardinality(libres[PokeNests[c]])
           wants(i, c) == pedida[i] = PokeNests[c]
           U == [i \in 1 .. n |-> [c \in Columns |-> held(i, c)]]
           P == [i \in 1 .. n |-> [c \in Columns |-> wants(i, c)]]
           T == [i \in 1 .. n |-> FALSE]
           D == [c \in Columns |-> free(c)]
<1>4. \A c \in Columns : PokeNests[c] \in Nests
  <2>1. PokeNests \in Seq(Nests)
    BY DeteccionAssumption
  <2> QED BY <2>1 DEF Columns
<1>5. ASSUME NEW i \in 1 .. n, NEW c \in Columns PROVE held(i, c) \in Int
  <2>1. PICK q \in Seq(Pokemons) : q = pokemons[f[i]]
    BY <1>2 DEF TypeOK
  <2>2. PICK K : K = {k \in DOMAIN q : Nest[q[k]] = PokeNests[c]}
    OBVIOUS
  <2>3. K \subseteq 1 .. Len(q) /\ Len(q) \in Nat
    BY <2>2
  <2>4. IsFiniteSet(1 .. Len(q))
    BY <2>3, FS_Interval
  <2>5. Cardinality(K) \in Nat
    BY <2>3, <2>4, FS_Subset, FS_CardinalityType
  <2> QED BY <2>1, <2>2, <2>5
<1>6. ASSUME NEW c \in Columns PROVE free(c) \in Int
  <2>1. libres[PokeNests[c]] \in SUBSET Pokemons /\ IsFiniteSet(Pokemons)
    BY <1>4, DeteccionAssumption DEF TypeOK
  <2>2. Cardinality(libres[PokeNests[c]]) \in Nat
    BY <2>1, FS_Subset, FS_CardinalityType
  <2> QED BY <2>2
<1> HIDE DEF held, free
<1>7. U \in [1 .. n -> [Columns -> Int]] /\ D \in [Columns -> Int]
  BY <1>5, <1>6
<1>8. P \in [1 .. n -> [Columns -> BOOLEAN]] /\ T \in [1 .. n -> BOOLEAN]
  OBVIOUS
<1>9. m = [utilizados |-> U, pedidos |-> P, atendido |-> T, disp |-> D, wild |-> wild,
           tieneUnPedido |-> FALSE, hayDeadlock |-> FALSE]
  BY <1>1, <1>2, <1>3 DEF Matrices, held, free
<1>10. \A i \in 1 .. n : \A c, d \in Columns : P[i][c] /\ P[i][d] => c = d
  <2>1. \A c, d \in Columns : PokeNests[c] = PokeNests[d] => c = d
    BY DeteccionAssumption DEF IsInjective, Columns
  <2>2. \A i \in 1 .. n : \A c \in Columns : P[i][c] <=> pedida[i] = PokeNests[c]
    OBVIOUS
  <2> HIDE DEF P
  <2> QED BY <2>1, <2>2
<1> HIDE DEF U, P, T, D
<1>11. m \in Reduction(n) /\ m.pedidos = P
  BY <1>7, <1>8, <1>9 DEF Reduction
<1> QED BY <1>1, <1>2, <1>3, <1>10, <1>11 DEF Reducing

\* Those it finds are trainers that were copied.
LEMMA SuspectsFacts ==
  ASSUME filas \in Seq(Sessions), NEW m
  PROVE  Suspects(m) \in Seq(Sessions) /\ Range(Suspects(m)) \subseteq Range(filas)
<1>0. PICK f \in Seq(Sessions) : f = filas
  OBVIOUS
<1>1. PICK n : f = filas /\ n = Len(f)
  BY <1>0
<1>2. n \in Nat /\ DOMAIN f = 1 .. n /\ \A i \in 1 .. n : f[i] \in Sessions
  BY <1>1
<1>3. PICK unattended, objetivos, chosen :
        /\ unattended = {i \in DOMAIN f : ~m.atendido[i]}
        /\ objetivos = {pedida[i] : i \in unattended}
        /\ chosen = {i \in unattended : \E k \in DOMAIN pokemons[f[i]] : Nest[pokemons[f[i]][k]] \in objetivos}
  OBVIOUS
<1>4. chosen \in SUBSET (1 .. n) /\ IsFiniteSet(chosen)
  <2>1. chosen \subseteq 1 .. n
    BY ONLY <1>2, <1>3
  <2>2. IsFiniteSet(1 .. n)
    BY <1>2, FS_Interval
  <2> QED BY <2>1, <2>2, FS_Subset
<1> DEFINE nth(k) == CHOOSE i \in chosen : Cardinality({j \in chosen : j <= i}) = k
           q == [k \in 1 .. Cardinality(chosen) |-> f[nth(k)]]
<1>5. Suspects(m) = q
  BY <1>1, <1>3 DEF Suspects
<1>6. ASSUME NEW k \in 1 .. Cardinality(chosen) PROVE nth(k) \in 1 .. n
  <2>1. \E i \in chosen : Cardinality({j \in chosen : j <= i}) = k
    BY <1>2, <1>4, NthExists
  <2>2. nth(k) \in chosen
    BY <2>1
  <2> QED BY <1>4, <2>2
<1>7. Cardinality(chosen) \in Nat
  BY <1>4, FS_CardinalityType
<1> HIDE DEF nth
<1>8. PICK c : c = Cardinality(chosen)
  OBVIOUS
<1>9. q \in [1 .. c -> Sessions] /\ \A k \in 1 .. c : q[k] \in Range(f)
  BY <1>2, <1>6, <1>8 DEF Range
<1>10. DOMAIN q = 1 .. c
  BY <1>8
<1> HIDE DEF q
<1>11. q \in Seq(Sessions)
  BY <1>7, <1>8, <1>9
<1>12. Range(q) \subseteq Range(f)
  BY <1>9, <1>10 DEF Range
<1> QED BY <1>1, <1>5, <1>11, <1>12

\* A check that finds nobody's list destroyed goes on to confirm, or forgets what it copied.
LEMMA ReduceKeeps ==
  ASSUME IInv, undefined = "no", DetectReduce
  PROVE  IInv'
<1>1. dpc = "reduce" /\ UNCHANGED <<trainer, sockets, queues, sessions, selector>>
  BY DEF DetectReduce
<1>2. TypeOK /\ Queues /\ Detector
  BY DEF IInv
<1>3. CASE undefined' = "freedCopy" /\ Range(filas) \cap freed # {} /\ UNCHANGED <<dpc, copies, fight>>
  <2>1. UNCHANGED <<trainer, sockets, queues, sessions, selector, dpc, copies, fight>>
    BY <1>1, <1>3
  <2>2. ~Quiet
    BY <1>1, <1>3 DEF IInv, InQuiet
  <2>3. tpc' = tpc
    BY <1>1 DEF trainer
  <2>4. \E t \in Trainers : HasQuit(t)'
    BY <2>2, <2>3, SomeoneQuit
  <2>5. dpc' = dpc
    BY <1>3
  <2>6. BreaksForACause'
    BY <1>1, <1>3, <2>4, <2>5 DEF BreaksForACause
  <2> QED BY <1>3, <2>1, <2>6, Breaks
<1>4. ASSUME UNCHANGED undefined, NEW wild \in 0 .. MaxWild, NEW padded \in BOOLEAN, NEW m,
             m = Reduce(Matrices(wild), padded),
             IF ~Stops(m) THEN dpc' = "spin" /\ UNCHANGED <<copies, fight>>
             ELSE IF Len(Suspects(m)) < 2 THEN Forget
             ELSE deadlockeados' = Suspects(m) /\ dpc' = "confirm" /\ UNCHANGED <<copies, perdedor, elegido>>
      PROVE  IInv'
  <2>1. ChecksFrame
    BY <1>1, <1>4 DEF ChecksFrame
  <2>2. /\ filas \in Seq(Sessions) /\ pedida \in Seq(Nests \cup {NONE}) /\ Len(pedida) = Len(filas)
        /\ IsInjective(filas) /\ deadlockeados \in Seq(Sessions)
    BY <1>2 DEF TypeOK, Queues
  <2>3. perdedor = NONE /\ elegido = FALSE
    BY <1>1, <1>2 DEF Detector
  <2>4. CASE ~Stops(m)
    <3>1. dpc' = "spin" /\ UNCHANGED <<copies, fight>>
      BY <1>4, <2>4
    <3>2. wild \in Nat
      BY DeteccionAssumption
    <3>3. Reducing(Len(filas), Matrices(wild)) /\ Len(filas) \in Nat
      BY <1>2, <3>2, MatricesReduce
    <3>4. Len(filas) = 1
      BY <1>4, <2>4, <3>3, Reduces
    <3>5. Checking
      BY <2>2, <2>3, <3>1, <3>4 DEF Checking, copies, fight
    <3> QED BY <1>1, <2>1, <3>5, ChecksKeep
  <2>5. CASE Stops(m) /\ Len(Suspects(m)) < 2
    <3>1. Forget
      BY <1>4, <2>5
    <3> QED BY <1>1, <2>1, <3>1, ForgetKeeps
  <2>6. CASE Stops(m) /\ ~(Len(Suspects(m)) < 2)
    <3>1. PICK q : q = Suspects(m)
      OBVIOUS
    <3>2. deadlockeados' = q /\ dpc' = "confirm" /\ UNCHANGED <<copies, perdedor, elegido>>
      BY <1>4, <2>6, <3>1
    <3>3. q \in Seq(Sessions) /\ Range(q) \subseteq Range(filas)
      BY <2>2, <3>1, SuspectsFacts
    <3>4. Len(q) >= 2
      BY <2>6, <3>1, <3>3
    <3>5. Quiet => Range(filas) \cap freed = {}
      BY <1>1 DEF IInv, InQuiet
    <3>6. Checking
      BY <2>2, <2>3, <3>2, <3>3, <3>4, <3>5 DEF Checking, copies
    <3> QED BY <1>1, <2>1, <3>6, ChecksKeep
  <2> QED BY <2>4, <2>5, <2>6
<1> QED BY <1>3, <1>4 DEF DetectReduce

-----------------------------------------------------------------------------
(* What the reduction leaves of a deadlock *)

\* The rows R of a deadlock wait for the columns C, of which nothing is left to give.
Doomed(n, R, C, m) ==
  /\ Reducing(n, m) /\ m.wild = 0
  /\ \A i \in R : ~m.atendido[i] /\ \E c \in C : m.pedidos[i][c]
  /\ \A c \in C : m.disp[c] = 0 /\ \A i \in (1 .. n) \ R : m.utilizados[i][c] = 0

LEMMA DoomedVisit ==
  ASSUME NEW n \in Nat, NEW R \in SUBSET (1 .. n), NEW C \in SUBSET Columns, NEW m, Doomed(n, R, C, m),
         NEW i \in 1 .. n, NEW padded \in BOOLEAN
  PROVE  Doomed(n, R, C, Visit(m, i, padded))
<1>1. /\ m \in Reduction(n) /\ Reducing(n, m) /\ m.wild = 0 /\ m.disp \in [Columns -> Int]
      /\ m.tieneUnPedido \in BOOLEAN /\ m.pedidos \in [1 .. n -> [Columns -> BOOLEAN]]
      /\ m.atendido \in [1 .. n -> BOOLEAN] /\ m.utilizados \in [1 .. n -> [Columns -> Int]]
  BY ReductionFields DEF Doomed, Reducing
<1>2. PICK asked, c, v : asked = Asked(m, i) /\ c = Min(asked) /\ v = Visit(m, i, padded)
  OBVIOUS
<1>3. v = CASE asked # {} /\ m.disp[c] > 0 -> Serve(m, i, c)
            [] asked # {} /\ m.disp[c] <= 0 -> [m EXCEPT !.tieneUnPedido = TRUE]
            [] asked = {} /\ m.tieneUnPedido -> IF m.wild > 0 THEN Overrun(m, i, padded) ELSE m
            [] asked = {} /\ ~m.tieneUnPedido -> GiveBack(m, i)
  BY <1>2 DEF Visit
<1>4. Reducing(n, v) /\ v.wild = 0
  <2>1. Visited(n, m, v)
    BY <1>1, <1>2, VisitVisits
  <2>2. Reducing(n, v) /\ v.wild <= 0
    BY <1>1, <2>1 DEF Visited
  <2>3. v.wild \in Nat
    BY <2>2, ReductionFields DEF Reducing
  <2> QED BY <2>2, <2>3
<1>5. ASSUME asked # {} PROVE c \in Columns /\ m.pedidos[i][c] /\ m.disp[c] \in Int
  <2>1. asked \in SUBSET Nat
    BY <1>2, ColumnsFacts DEF Asked
  <2>2. c \in asked
    BY <1>2, <1>5, <2>1, MinIsOne
  <2> QED BY <1>1, <1>2, <2>2 DEF Asked
<1>6. /\ \A j \in R : ~m.atendido[j] /\ \E d \in C : m.pedidos[j][d]
      /\ \A d \in C : m.disp[d] = 0 /\ \A j \in (1 .. n) \ R : m.utilizados[j][d] = 0
  BY DEF Doomed
<1>7. ASSUME v.atendido = m.atendido, v.pedidos = m.pedidos, v.disp = m.disp, v.utilizados = m.utilizados
      PROVE  Doomed(n, R, C, v)
  BY <1>4, <1>6, <1>7 DEF Doomed
<1>8. CASE asked # {} /\ m.disp[c] > 0
  <2>1. v = Serve(m, i, c)
    BY <1>3, <1>5, <1>8
  <2> DEFINE U == [m.utilizados EXCEPT ![i][c] = m.utilizados[i][c] + 1]
             P == [m.pedidos EXCEPT ![i][c] = FALSE]
             A == [m.disp EXCEPT ![c] = @ - 1]
             T == [m.atendido EXCEPT ![i] = TRUE]
  <2>2. v = [m EXCEPT !.utilizados = U, !.disp = A, !.pedidos = P, !.atendido = T,
                      !.hayDeadlock = FALSE, !.tieneUnPedido = TRUE]
    BY <1>1, <2>1 DEF Serve, Reduction
  <2>3. c \notin C
    BY <1>6, <1>8
  <2>4. i \notin R
    <3>1. \A d \in Columns : m.pedidos[i][d] => d = c
      BY <1>1, <1>5, <1>8 DEF Reducing
    <3> QED BY <1>6, <2>3, <3>1
  <2>5. \A j \in 1 .. n : j # i => T[j] = m.atendido[j] /\ P[j] = m.pedidos[j]
    BY <1>1
  <2>6. \A d \in Columns : d # c => A[d] = m.disp[d]
    BY <1>1
  <2>7. \A j \in 1 .. n : \A d \in Columns : d # c => U[j][d] = m.utilizados[j][d]
    <3>1. c \in Columns /\ m.utilizados[i][c] + 1 \in Int
      BY <1>1, <1>5, <1>8
    <3> HIDE DEF U
    <3> QED BY <1>1, <3>1, OneCell DEF U
  <2> HIDE DEF U, P, A, T
  <2>8. v.atendido = T /\ v.pedidos = P /\ v.disp = A /\ v.utilizados = U
    BY <1>1, <2>2 DEF Reduction
  <2>9. \A j \in R : j \in 1 .. n /\ j # i
    BY <2>4
  <2>10. \A j \in R : ~v.atendido[j] /\ \E d \in C : v.pedidos[j][d]
    BY <1>6, <2>5, <2>8, <2>9
  <2>11. \A d \in C : v.disp[d] = 0 /\ \A j \in (1 .. n) \ R : v.utilizados[j][d] = 0
    BY <1>6, <2>3, <2>6, <2>7, <2>8
  <2> QED BY <1>2, <1>4, <2>10, <2>11 DEF Doomed
<1>9. CASE asked # {} /\ m.disp[c] <= 0
  <2>1. v = [m EXCEPT !.tieneUnPedido = TRUE]
    BY <1>3, <1>5, <1>9
  <2>2. v.atendido = m.atendido /\ v.pedidos = m.pedidos /\ v.disp = m.disp /\ v.utilizados = m.utilizados
    BY <1>1, <2>1 DEF Reduction
  <2> QED BY <1>2, <1>7, <2>2
<1>10. CASE asked = {} /\ m.tieneUnPedido
  <2>1. v = m
    BY <1>1, <1>3, <1>10
  <2> QED BY <1>2, <2>1
<1>11. CASE asked = {} /\ ~m.tieneUnPedido
  <2>1. v = GiveBack(m, i)
    BY <1>3, <1>11
  <2> DEFINE U == [m.utilizados EXCEPT ![i] = [c0 \in Columns |-> 0]]
             A == [c0 \in Columns |-> m.disp[c0] + m.utilizados[i][c0]]
             T == [m.atendido EXCEPT ![i] = TRUE]
  <2>2. v = [m EXCEPT !.disp = A, !.utilizados = U, !.atendido = T]
    BY <1>1, <2>1 DEF GiveBack, Reduction
  <2>3. i \notin R
    <3>1. \A d \in Columns : ~m.pedidos[i][d]
      BY <1>2, <1>11 DEF Asked
    <3> QED BY <1>6, <3>1
  <2>4. \A j \in 1 .. n : j # i => T[j] = m.atendido[j] /\ U[j] = m.utilizados[j]
    BY <1>1
  <2>5. \A d \in Columns : U[i][d] = 0 /\ A[d] = m.disp[d] + m.utilizados[i][d]
    BY <1>1
  <2> HIDE DEF U, A, T
  <2>6. v.atendido = T /\ v.pedidos = m.pedidos /\ v.disp = A /\ v.utilizados = U
    BY <1>1, <2>2 DEF Reduction
  <2>7. \A j \in R : j \in 1 .. n /\ j # i
    BY <2>3
  <2>8. \A j \in R : ~v.atendido[j] /\ \E d \in C : v.pedidos[j][d]
    BY <1>6, <2>4, <2>6, <2>7
  <2>9. ASSUME NEW d \in C PROVE v.disp[d] = 0
    <3>1. m.disp[d] = 0 /\ m.utilizados[i][d] = 0
      BY <1>6, <2>3
    <3> QED BY <2>5, <2>6, <3>1
  <2>10. ASSUME NEW d \in C, NEW j \in (1 .. n) \ R PROVE v.utilizados[j][d] = 0
    <3>1. CASE j = i
      BY <2>5, <2>6, <3>1
    <3>2. CASE j # i
      BY <1>6, <2>4, <2>6, <3>2
    <3> QED BY <3>1, <3>2
  <2> QED BY <1>2, <1>4, <2>8, <2>9, <2>10 DEF Doomed
<1>12. asked # {} => m.disp[c] > 0 \/ m.disp[c] <= 0
  BY <1>5
<1> QED BY <1>2, <1>8, <1>9, <1>10, <1>11, <1>12

LEMMA DoomedReduce ==
  ASSUME NEW n \in Nat, NEW R \in SUBSET (1 .. n), NEW C \in SUBSET Columns, NEW m, Doomed(n, R, C, m),
         NEW padded \in BOOLEAN
  PROVE  Doomed(n, R, C, Reduce(m, padded))
<1> DEFINE X == {v \in Reduction(n) : Doomed(n, R, C, v)}
<1>1. ASSUME NEW v \in X PROVE Pass(v, padded) \in X
  <2>1. PICK w : w = [v EXCEPT !.hayDeadlock = @ \/ n >= 2]
    OBVIOUS
  <2>2. v \in Reduction(n) /\ DOMAIN v.atendido = 1 .. n /\ Doomed(n, R, C, v)
    BY ReductionFields
  <2>3. /\ w \in Reduction(n) /\ w.utilizados = v.utilizados /\ w.pedidos = v.pedidos
        /\ w.atendido = v.atendido /\ w.disp = v.disp /\ w.wild = v.wild
    <3>1. PICK b : b = (v.hayDeadlock \/ n >= 2)
      OBVIOUS
    <3>2. b \in BOOLEAN
      BY <3>1
    <3>3. w = [v EXCEPT !.hayDeadlock = b]
      BY <2>1, <2>2, <3>1 DEF Reduction
    <3> QED BY <2>2, <3>2, <3>3 DEF Reduction
  <2>4. w \in X
    BY <2>2, <2>3 DEF Doomed, Reducing
  <2>5. \A i \in 1 .. n : \A u \in X : Visit(u, i, padded) \in X
    <3>1. ASSUME NEW i \in 1 .. n, NEW u \in X PROVE Visit(u, i, padded) \in X
      <4>1. PICK x : x = Visit(u, i, padded)
        OBVIOUS
      <4>2. Doomed(n, R, C, x)
        BY <4>1, DoomedVisit
      <4> QED BY <4>1, <4>2 DEF Doomed, Reducing
    <3> QED BY <3>1
  <2> HIDE DEF X
  <2>6. [v EXCEPT !.hayDeadlock = @ \/ n >= 2] \in X
    BY <2>1, <2>4
  <2> QED BY ONLY <2>2, <2>5, <2>6, n \in Nat, padded \in BOOLEAN, PassStays
<1>2. m \in X
  BY DEF Doomed, Reducing
<1>3. PICK N : N = Cardinality(DOMAIN m.atendido) + m.wild + 2
  OBVIOUS
<1>4. N \in Nat
  <2>1. DOMAIN m.atendido = 1 .. n /\ m.wild = 0
    BY ReductionFields DEF Doomed, Reducing
  <2>2. Cardinality(1 .. n) = n
    BY FS_Interval
  <2> QED BY <1>3, <2>1, <2>2
<1> HIDE DEF X
<1>5. \A v \in X : OnePass(v, padded) \in X
  BY <1>1 DEF OnePass
<1>6. Passing(m, padded, N, X)
  BY ONLY <1>2, <1>3, <1>4, <1>5, padded \in BOOLEAN, ReducePasses
<1>7. PICK h : Reduce(m, padded) = h[N] /\ \A k \in 0 .. N : h[k] \in X
  BY ONLY <1>6 DEF Passing
<1>8. Reduce(m, padded) \in X
  <2>1. N \in 0 .. N
    BY <1>4
  <2> QED BY <1>7, <2>1
<1> QED BY <1>8 DEF X

\* The rows of a deadlock that was there when the trainers were copied.
LEMMA DeadlockIsDoomed ==
  ASSUME TypeOK, Queues, NEW D, D \in Deadlocks(Copied), NEW R, R = {i \in DOMAIN filas : filas[i] \in D},
         NEW C, C = {c \in Columns : \E i \in R : pedida[i] = PokeNests[c]},
         NEW m, m = Matrices(0)
  PROVE  Doomed(Len(filas), R, C, m)
<1>1. PICK n, f : f = filas /\ n = Len(f)
  OBVIOUS
<1>2. f \in Seq(Sessions) /\ n \in Nat /\ DOMAIN f = 1 .. n /\ \A i \in 1 .. n : f[i] \in Sessions
  BY <1>1 DEF TypeOK
<1>3. R \in SUBSET (1 .. n) /\ \A i \in 1 .. n : i \in R <=> f[i] \in D
  BY <1>1, <1>2
<1>4. Reducing(n, m)
  BY <1>1, MatricesReduce
<1>5. /\ m.wild = 0
      /\ \A i \in 1 .. n : m.atendido[i] = FALSE
      /\ \A i \in 1 .. n : \A c \in Columns : m.pedidos[i][c] <=> pedida[i] = PokeNests[c]
      /\ \A c \in Columns : m.disp[c] = Cardinality(libres[PokeNests[c]])
      /\ \A i \in 1 .. n : \A c \in Columns :
           m.utilizados[i][c] = Cardinality({k \in DOMAIN pokemons[f[i]] : Nest[pokemons[f[i]][k]] = PokeNests[c]})
  <2>1. DOMAIN filas = 1 .. n /\ filas = f
    BY <1>1, <1>2
  <2> QED BY <2>1 DEF Matrices
<1>6. ASSUME NEW i \in R
      PROVE  f[i] \in D /\ pedida[i] = buscada[f[i]] /\ \E c \in Columns : pedida[i] = PokeNests[c]
  <2>1. i \in 1 .. n /\ f[i] \in D
    BY <1>3
  <2>2. f[i] \in Copied
    BY <2>1 DEF Deadlocks
  <2>3. PICK j \in DOMAIN f : f[j] = f[i] /\ f[j] \in Range(colaBloqueados) /\ pedida[j] = buscada[f[j]]
    BY <1>1, <2>2 DEF Copied
  <2>4. j = i
    BY <1>1, <1>2, <2>1, <2>3 DEF Queues, IsInjective
  <2>5. buscada[f[i]] \in Nests
    BY <2>3 DEF Queues, Blocked
  <2>6. \E c \in Columns : buscada[f[i]] = PokeNests[c]
    BY <2>5 DEF Nests, Range, Columns
  <2> QED BY <2>1, <2>3, <2>4, <2>6
<1>7. ASSUME NEW c \in C
      PROVE  c \in Columns /\ libres[PokeNests[c]] = {} /\ Holders(PokeNests[c]) \subseteq D
  <2>1. PICK i \in R : c \in Columns /\ pedida[i] = PokeNests[c]
    OBVIOUS
  <2>2. PokeNests[c] = buscada[f[i]] /\ f[i] \in D
    BY <1>6, <2>1
  <2> QED BY <2>1, <2>2 DEF Deadlocks
<1>8. ASSUME NEW i \in R PROVE ~m.atendido[i] /\ \E c \in C : m.pedidos[i][c]
  <2>1. PICK c \in Columns : pedida[i] = PokeNests[c]
    BY <1>6
  <2>2. c \in C /\ i \in 1 .. n
    BY <1>3, <2>1
  <2> QED BY <1>5, <2>1, <2>2
<1>9. Cardinality({}) = 0
  BY FS_EmptySet
<1>10. ASSUME NEW c \in C PROVE m.disp[c] = 0 /\ \A i \in (1 .. n) \ R : m.utilizados[i][c] = 0
  <2>1. m.disp[c] = 0
    <3>1. c \in Columns /\ libres[PokeNests[c]] = {}
      BY <1>7
    <3>2. m.disp[c] = Cardinality(libres[PokeNests[c]])
      BY <1>5, <3>1
    <3> QED BY ONLY <1>9, <3>1, <3>2
  <2>2. ASSUME NEW i \in (1 .. n) \ R PROVE m.utilizados[i][c] = 0
    <3>1. PICK K : K = {k \in DOMAIN pokemons[f[i]] : Nest[pokemons[f[i]][k]] = PokeNests[c]}
      OBVIOUS
    <3>2. ASSUME NEW k \in K PROVE FALSE
      <4>1. f[i] \in Holders(PokeNests[c])
        <5>1. PICK s : s = f[i]
          OBVIOUS
        <5>2. s \in Sessions /\ k \in DOMAIN pokemons[s] /\ Nest[pokemons[s][k]] = PokeNests[c]
          BY <1>2, <2>2, <3>1, <3>2, <5>1
        <5>3. s \in Holders(PokeNests[c])
          BY <5>2 DEF Holders
        <5> QED BY <5>1, <5>3
      <4>2. f[i] \in D
        BY <1>7, <4>1
      <4> QED BY <1>3, <2>2, <4>2
    <3>3. K = {}
      BY <3>2
    <3> QED BY <1>5, <1>7, <1>9, <3>1, <3>3
  <2> QED BY <2>1, <2>2
<1>11. m.wild = 0
  BY <1>5
<1> QED BY <1>1, <1>4, <1>8, <1>10, <1>11 DEF Doomed

LEMMA FindsDeadlocks ==
  ASSUME IInv
  PROVE  DeadlockIsFound
<1>1. TypeOK /\ Queues
  BY DEF IInv
<1>2. PICK m : m = Matrices(0)
  OBVIOUS
<1>3. PICK w : w = Reduce(m, TRUE)
  OBVIOUS
<1>4. ASSUME NEW i \in DOMAIN filas, filas[i] \in Stuck(Copied) PROVE ~w.atendido[i]
  <2>1. PICK D \in Deadlocks(Copied) : filas[i] \in D
    BY <1>4 DEF Stuck
  <2>2. PICK R, C : /\ R = {j \in DOMAIN filas : filas[j] \in D}
                    /\ C = {c \in Columns : \E j \in R : pedida[j] = PokeNests[c]}
    OBVIOUS
  <2>3. PICK n : n = Len(filas)
    OBVIOUS
  <2>4. n \in Nat /\ DOMAIN filas = 1 .. n
    BY <1>1, <2>3 DEF TypeOK
  <2>5. Doomed(n, R, C, m)
    BY <1>1, <1>2, <2>2, <2>3, DeadlockIsDoomed
  <2>6. R \in SUBSET (1 .. n) /\ C \in SUBSET Columns /\ i \in R
    BY <2>1, <2>2, <2>4
  <2>7. PICK padded \in BOOLEAN : padded = TRUE
    OBVIOUS
  <2>8. Doomed(n, R, C, Reduce(m, padded))
    BY ONLY <2>4, <2>5, <2>6, padded \in BOOLEAN, DoomedReduce
  <2>9. w = Reduce(m, padded)
    BY <1>3, <2>7
  <2>10. Doomed(n, R, C, w)
    BY <2>8, <2>9
  <2> QED BY <2>6, <2>10 DEF Doomed
<1>5. Reduce(Matrices(0), TRUE) = w
  BY <1>2, <1>3
<1> QED BY <1>4, <1>5 DEF DeadlockIsFound

\* A trainer that holds what one of those blocked wants, and dies, gives it to one of them.
LEMMA DeathGives ==
  ASSUME IInv, DetectRelease, undefined' # "freedTrainer", NEW D, D \in Deadlocks(Range(colaBloqueados)),
         perdedor \in D, D \ {perdedor} \notin Deadlocks(D)
  PROVE  \E s \in Range(colaBloqueados) \ {perdedor} : s \notin Range(colaBloqueados')
<1>1. TypeOK /\ Queues
  BY DEF IInv
<1>2. PICK p, q, B : p = perdedor /\ q = colaBloqueados /\ B = RemoveFirst(q, p)
  OBVIOUS
<1>3. q \in Seq(Sessions) /\ IsInjective(q) /\ Range(q) \subseteq Sessions
  BY <1>1, <1>2, OnList DEF TypeOK, Queues
<1>4. B \in Seq(Sessions) /\ IsInjective(B) /\ Range(B) = Range(q) \ {p}
  BY <1>3, <1>2, RemoveFirstRange
<1>5. D \subseteq Range(q) /\ p \in D /\ p \in Sessions
  BY <1>2, <1>3 DEF Deadlocks
<1>6. \A s \in D : libres[buscada[s]] = {} /\ Holders(buscada[s]) \subseteq D
  BY DEF Deadlocks
<1>7. PICK s \in D \ {p} : p \in Holders(buscada[s])
  <2>1. D \ {p} \in SUBSET D /\ D \ {p} \notin Deadlocks(D)
    BY <1>2
  <2>2. PICK s \in D \ {p} : ~(libres[buscada[s]] = {} /\ Holders(buscada[s]) \subseteq D \ {p})
    BY <2>1 DEF Deadlocks
  <2>3. libres[buscada[s]] = {} /\ Holders(buscada[s]) \subseteq D
    BY <1>6, <2>2
  <2> QED BY <2>2, <2>3
<1>8. PICK k \in DOMAIN pokemons[p] : Nest[pokemons[p][k]] = buscada[s]
  BY <1>7 DEF Holders
<1>9. s \in Range(B)
  BY <1>4, <1>5, <1>7
<1>10. PICK a : a = Liberados(p, B)
  OBVIOUS
<1>11. Served(a, B) # {}
  <2>1. p \notin Range(B)
    BY <1>4
  <2>2. \A k0 \in DOMAIN pokemons[p], r \in Range(B) :
          buscada[r] = Nest[pokemons[p][k0]] => Served(a, B) # {}
    BY <1>1, <1>4, <1>5, <1>10, <2>1, Liberates
  <2> QED BY <1>8, <1>9, <2>2
<1>12. colaBloqueados' = a.bloqueados
  <2>1. Liberar(perdedor, RemoveFirst(colaBloqueados, perdedor), {})
    BY DEF DetectRelease
  <2>2. Liberar(p, B, {})
    BY <1>2, <2>1
  <2> QED BY <1>10, <2>2 DEF Liberar
<1>13. PICK r : r \in Range(B) /\ r \notin Range(colaBloqueados')
  BY <1>11, <1>12 DEF Served
<1> QED BY <1>2, <1>4, <1>13

-----------------------------------------------------------------------------
(* The theorems *)

LEMMA InitKeeps == ASSUME Init PROVE IInv
<1>1. /\ backlog \in Seq(Sessions) /\ IsInjective(backlog)
      /\ \A s, r \in Range(backlog) : Owner[s] = Owner[r] => s = r
      /\ \A s, r \in Sessions : NextSession[s] = r => r \notin Range(backlog)
  BY DeteccionAssumption DEF Init
<1>2. \A s \in Sessions : /\ tpc[s] = IF s \in Range(backlog) THEN "backlog" ELSE "new"
                          /\ in[s] = <<>> /\ out[s] = <<>> /\ pokemons[s] = <<>> /\ buscada[s] = NONE
  BY DEF Init
<1>3. /\ entrenadores = <<>> /\ colaListos = {} /\ colaBloqueados = <<>> /\ freed = {} /\ master = {}
      /\ lectura = {} /\ reading = NONE /\ dpc = "sleep" /\ filas = <<>> /\ pedida = <<>>
      /\ deadlockeados = <<>> /\ perdedor = NONE /\ elegido = FALSE /\ undefined = "no"
  BY DEF Init
<1>4. Blocked = {} /\ Fighters = {NONE} /\ Range(filas) = {} /\ Range(entrenadores) = {} /\ ~Battle
  BY <1>3, NoList DEF Blocked, Fighters, Battle
<1>5. TypeOK
  <2>1. tpc \in [Sessions -> Places]
    <3>1. tpc = [s \in Sessions |-> IF s \in Range(backlog) THEN "backlog" ELSE "new"]
      BY DEF Init
    <3>2. \A s \in Sessions : (IF s \in Range(backlog) THEN "backlog" ELSE "new") \in Places
      BY DEF Places
    <3> QED BY <3>1, <3>2
  <2>2. /\ goal \in [Trainers -> Nat] /\ \A t \in Trainers : goal[t] \in DOMAIN Goals[t]
    <3>1. goal = [t \in Trainers |-> 1]
      BY DEF Init
    <3>2. ASSUME NEW t \in Trainers PROVE 1 \in DOMAIN Goals[t]
      <4>1. Goals[t] \in Seq(Nests) /\ Goals[t] # <<>>
        BY DeteccionAssumption
      <4> QED BY <4>1
    <3> QED BY <3>1, <3>2
  <2>3. /\ DOMAIN nombres = Trainers
        /\ \A t \in Trainers : nombres[t] \in [DOMAIN Goals[t] -> Pokemons \cup {NONE}]
    BY DEF Init
  <2>4. in \in [Sessions -> Seq(ToTrainer)] /\ out \in [Sessions -> Seq(ToMap)]
    <3>1. <<>> \in Seq(ToTrainer) /\ <<>> \in Seq(ToMap)
      OBVIOUS
    <3> QED BY <3>1 DEF Init
  <2>5. buscada \in [Sessions -> Nests \cup {NONE}] /\ pokemons \in [Sessions -> Seq(Pokemons)]
    <3>1. <<>> \in Seq(Pokemons)
      OBVIOUS
    <3> QED BY <3>1 DEF Init
  <2>6. libres \in [Nests -> SUBSET Pokemons]
    BY DEF Init
  <2>7. dpc \in Steps
    BY <1>3 DEF Steps
  <2>8. /\ filas \in Seq(Sessions) /\ pedida \in Seq(Nests \cup {NONE}) /\ Len(pedida) = Len(filas)
        /\ deadlockeados \in Seq(Sessions) /\ entrenadores \in Seq(Sessions) /\ colaBloqueados \in Seq(Sessions)
    BY <1>3, NoList
  <2> QED BY <1>1, <1>3, <2>1, <2>2, <2>3, <2>4, <2>5, <2>6, <2>7, <2>8 DEF TypeOK
<1>6. ASSUME NEW s \in Sessions PROVE Outside(s)
  BY <1>2, <1>3, <1>4, Constants DEF Outside
<1>7. Journeys
  <2>1. \A s \in Sessions : /\ tpc[s] \in {"new", "backlog"} /\ (tpc[s] = "backlog" <=> s \in Range(backlog))
    BY <1>2
  <2>2. ASSUME NEW s \in Sessions, NextSession[s] # NONE PROVE tpc[NextSession[s]] = "new"
    <3>1. NextSession[s] \in Sessions
      BY <2>2, Constants
    <3>2. NextSession[s] \notin Range(backlog)
      BY <1>1, <3>1
    <3> QED BY <1>2, <3>1, <3>2
  <2>3. ASSUME NEW s \in Sessions, NEW r \in Sessions, Owner[s] = Owner[r],
               tpc[s] \notin {"new", "dead"}, tpc[r] \notin {"new", "dead"}
        PROVE  s = r
    <3>1. s \in Range(backlog) /\ r \in Range(backlog)
      BY <2>1, <2>3
    <3> QED BY <1>1, <2>3, <3>1
  <2> QED BY <1>1, <1>6, <2>1, <2>2, <2>3 DEF Journeys
<1>8. ASSUME NEW s \in Sessions PROVE Requests(s) /\ Battling(s)
  <2>1. tpc[s] \in {"new", "backlog"} /\ in[s] = <<>> /\ out[s] = <<>>
    BY <1>2
  <2>2. \A kind : ~Has(in[s], kind) /\ Once(in[s], kind) /\ ~Has(out[s], kind) /\ Once(out[s], kind)
    BY <2>1, NoMessage
  <2> QED BY <2>1, <2>2 DEF Requests, Battling
<1>9. Queues
  BY <1>3, <1>4, NoList DEF Queues
<1>10. Detector
  BY <1>3 DEF Detector
<1>11. Unreleased
  BY <1>3 DEF Unreleased
<1>12. InQuiet
  <2>1. DOMAIN entrenadores = {}
    BY <1>3
  <2> QED BY <1>3, <2>1 DEF InQuiet
<1>13. Picks
  <2>1. ASSUME NEW s \in Sessions PROVE Given(in[s], Range(pokemons[s]))
    BY <1>2, NoMessage
  <2>2. ASSUME NEW s \in Sessions
        PROVE  /\ Range(nombres[Owner[s]]) \subseteq Range(pokemons[s]) \cup {NONE}
               /\ Given(out[s], Range(pokemons[s]) \cup {Previous[Owner[s]]})
    <3>1. Owner[s] \in Trainers
      BY Constants
    <3>2. nombres[Owner[s]] = [k \in DOMAIN Goals[Owner[s]] |-> NONE]
      BY <3>1 DEF Init
    <3>3. Range(nombres[Owner[s]]) \subseteq {NONE}
      BY <3>2 DEF Range
    <3>4. Given(out[s], Range(pokemons[s]) \cup {Previous[Owner[s]]})
      BY <1>2, NoMessage
    <3> QED BY <3>3, <3>4
  <2> QED BY <2>1, <2>2 DEF Picks
<1>14. BreaksForACause
  BY <1>3 DEF BreaksForACause
<1> QED BY <1>5, <1>7, <1>8, <1>9, <1>10, <1>11, <1>12, <1>13, <1>14 DEF IInv

LEMMA NextKeeps == ASSUME IInv, [Next]_vars PROVE IInv'
<1>1. ASSUME UNCHANGED vars PROVE IInv'
  <2>1. UNCHANGED <<trainer, sockets, queues, sessions, selector, dpc, copies, fight>> /\ undefined' = undefined
    BY <1>1 DEF vars
  <2>2. BreaksForACause'
    <3>1. BreaksForACause
      BY DEF IInv
    <3>2. /\ tpc' = tpc /\ out' = out /\ freed' = freed /\ dpc' = dpc /\ filas' = filas
          /\ elegido' = elegido /\ deadlockeados' = deadlockeados /\ perdedor' = perdedor
      BY <2>1 DEF trainer, sockets, sessions, copies, fight
    <3>3. Asking' = Asking /\ \A t : (HasQuit(t)' <=> HasQuit(t)) /\ (HasDied(t)' <=> HasDied(t))
      BY <3>2 DEF Asking, HasQuit, HasDied
    <3> QED BY <2>1, <3>1, <3>2, <3>3 DEF BreaksForACause
  <2>3. undefined \in {"no", "freedCopy", "freedTrainer", "gone", "moved", "stalePick", "doubleFree"}
    BY DEF IInv, TypeOK
  <2> QED BY <2>1, <2>2, <2>3, Breaks
<1>2. ASSUME Next PROVE IInv'
  <2>1. undefined = "no"
    BY <1>2 DEF Next, Defined
  <2>2. ASSUME NEW s \in Sessions, Step(s) PROVE IInv'
    BY <2>1, <2>2, SendAtraparKeeps, RecvLocateKeeps, RecvCatchKeeps DEF Step
  <2>3. ASSUME NEW s \in Sessions, Quit(s) PROVE IInv'
    BY <2>1, <2>3, QuitKeeps
  <2>4. ASSUME NEW s \in Sessions, Plan(s) PROVE IInv'
    BY <2>1, <2>4, PlanKeeps
  <2>5. CASE Main
    BY <2>1, <2>5, MainKeeps
  <2>6. CASE Detect
    BY <2>1, <2>6, DuplicateKeeps, ReduceKeeps, ConfirmKeeps, LockKeeps, AnswerKeeps, WildKeeps,
       KillKeeps, ReleaseFreedKeeps, ReleaseLoserKeeps DEF Detect
  <2> QED BY <1>2, <2>2, <2>3, <2>4, <2>5, <2>6 DEF Next
<1> QED BY <1>1, <1>2

LEMMA Inductive == Spec => []IInv
<1>1. Init => IInv
  BY InitKeeps
<1>2. IInv /\ [Next]_vars => IInv'
  BY NextKeeps
<1> QED BY <1>1, <1>2, PTL DEF Spec

\* Every connection, queue, message and copy is what the code takes it for, for any
\* number of trainers, sessions and lives, in any order of arrival.
THEOREM TypeCorrect == Spec => []TypeOK
<1>1. IInv => TypeOK
  BY DEF IInv
<1> QED BY <1>1, Inductive, PTL

\* What breaks the map in a check has one of the causes that BreaksForACause names, and
\* the reduction ends unless one trainer was copied: for any trainers, PokeNests and
\* pokemons, any number that hang up, and any word after pokemonsDisponibles.
THEOREM BreaksForItsCause == Spec => []BreaksForACause
<1>1. IInv => BreaksForACause
  BY DEF IInv
<1> QED BY <1>1, Inductive, PTL

\* A trainer that waits for a capture and is in no queue is the one manejar_select is
\* reading, or, after a release, the one the detector waits for in a battle.
THEOREM LostIsRead == Spec => []LostIsBeingRead
<1>1. ASSUME IInv PROVE LostIsBeingRead
  <2>1. ASSUME NEW s \in Lost PROVE s = reading \/ Eaten(s)
    <3>1. /\ s \in Sessions /\ tpc[s] = "catch" /\ in[s] = <<>> /\ s \notin Blocked \cup colaListos
      BY DEF Lost, Blocked
    <3>2. Placed(s)
      BY <1>1, <3>1 DEF IInv, Requests
    <3>3. ~Has(in[s], "victima")
      BY <3>1, NoMessage
    <3> QED BY <3>1, <3>2, <3>3 DEF Placed
  <2>2. ASSUME ~(Lost \subseteq {reading}) PROVE freed # {} /\ dpc = "answer" /\ Lost = {Asking}
    <3>1. PICK s \in Lost : s # reading
      BY <2>2
    <3>2. Eaten(s)
      BY <2>1, <3>1
    <3>3. freed # {} /\ dpc = "answer" /\ s = Asking /\ reading = NONE
      BY <3>2 DEF Eaten
    <3>4. ASSUME NEW r \in Lost PROVE r = Asking
      <4>1. r # NONE
        BY Constants DEF Lost
      <4> QED BY <2>1, <3>3, <3>4, <4>1 DEF Eaten
    <3> QED BY <3>1, <3>3, <3>4
  <2> QED BY <2>2 DEF LostIsBeingRead
<1>2. IInv => LostIsBeingRead
  BY <1>1
<1> QED BY <1>2, Inductive, PTL

\* The reduction finds every deadlock of the trainers that were copied, whoever else
\* is copied and whatever they hold, as long as the word after pokemonsDisponibles
\* is not positive.
THEOREM DeadlocksAreFound == Spec => []DeadlockIsFound
<1>1. IInv => DeadlockIsFound
  BY FindsDeadlocks
<1> QED BY <1>1, Inductive, PTL

\* The death of one of a deadlock, if there is none without it, lets another of those
\* that are blocked go on.
THEOREM DeathFrees == Spec => DeathFreesSomeone
<1>1. ASSUME IInv, DetectRelease, undefined' # "freedTrainer",
             \E D \in Deadlocks(Range(colaBloqueados)) :
               perdedor \in D /\ D \ {perdedor} \notin Deadlocks(D)
      PROVE  \E s \in Range(colaBloqueados) \ {perdedor} : s \notin Range(colaBloqueados')
  BY <1>1, DeathGives
<1>2. IInv /\ [Next]_vars =>
        [DetectRelease /\ undefined' # "freedTrainer"
         /\ (\E D \in Deadlocks(Range(colaBloqueados)) :
               perdedor \in D /\ D \ {perdedor} \notin Deadlocks(D)) =>
           \E s \in Range(colaBloqueados) \ {perdedor} : s \notin Range(colaBloqueados')]_vars
  BY <1>1
<1> QED BY <1>2, Inductive, PTL DEF Spec, DeathFreesSomeone
=============================================================================
