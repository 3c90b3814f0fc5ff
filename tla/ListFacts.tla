------------------------------ MODULE ListFacts ------------------------------
(***************************************************************************)
(* What the proofs share: the least element of a set of naturals, for the  *)
(* searches that stop at the first that fits; lists as the commons library *)
(* changes them; and functions that are defined by recursion.              *)
(***************************************************************************)
EXTENDS ListaEntrenadores, WellFoundedInduction, SequenceTheorems, FiniteSetTheorems, TLAPS

\* Every set of naturals has a least element.
LEMMA LeastExists ==
  ASSUME NEW S \in SUBSET Nat, S # {}
  PROVE  \E x \in S : \A y \in S : x <= y
<1>1. IsWellFoundedOn(OpToRel(<, Nat), Nat)
  BY NatLessThanWellFounded
<1>2. PICK x \in S : \A y \in S : ~(<<y, x>> \in OpToRel(<, Nat))
  BY <1>1, WFMin
<1>3. OpToRel(<, Nat) = {ss \in Nat \X Nat : ss[1] < ss[2]}
  BY DEF OpToRel
<1>4. \A y \in S : ~(<<y, x>> \in {ss \in Nat \X Nat : ss[1] < ss[2]})
  BY <1>2, <1>3, Zenon
<1>5. ASSUME NEW y \in S PROVE x <= y
  <2>1. y \in Nat /\ x \in Nat
    OBVIOUS
  <2>2. <<y, x>> \in Nat \X Nat
    BY <2>1
  <2>3. ~(<<y, x>>[1] < <<y, x>>[2])
    BY <2>2, <1>4, Zenon
  <2> QED BY <2>1, <2>3
<1> QED BY <1>5

\* Min of a set of naturals is one of them.
LEMMA MinIsOne ==
  ASSUME NEW S \in SUBSET Nat, S # {}
  PROVE  Min(S) \in S
BY LeastExists DEF Min

-----------------------------------------------------------------------------
(* Recursion *)

\* What holds of m, and of each number after one that it holds of, holds from m on.
LEMMA Upwards ==
  ASSUME NEW m \in Nat, NEW n \in Nat, NEW S, m \in S,
         \A i \in m + 1 .. n : i - 1 \in S => i \in S
  PROVE  \A i \in m .. n : i \in S
<1> DEFINE missing == {i \in m .. n : i \notin S}
<1>1. SUFFICES ASSUME missing # {} PROVE FALSE
  OBVIOUS
<1>2. PICK k \in missing : \A j \in missing : k <= j
  <2>1. missing \in SUBSET Nat
    OBVIOUS
  <2> HIDE DEF missing
  <2> QED BY <1>1, <2>1, LeastExists
<1>3. k \in m .. n /\ k \notin S /\ k # m
  BY <1>2
<1>4. k \in m + 1 .. n /\ k - 1 \in m .. n /\ ~(k <= k - 1)
  BY <1>3
<1>5. k - 1 \in S
  BY <1>2, <1>4
<1> QED BY <1>3, <1>4, <1>5

LEMMA FromZero ==
  ASSUME NEW n \in Nat, NEW S, 0 \in S, \A i \in 1 .. n : i - 1 \in S => i \in S
  PROVE  \A i \in 0 .. n : i \in S
<1>1. 0 + 1 = 1 /\ 0 \in Nat
  OBVIOUS
<1>2. \A i \in 0 + 1 .. n : i - 1 \in S => i \in S
  BY <1>1
<1> QED BY <1>1, <1>2, Upwards

\* A function defined from the value before is a function: the definition has a
\* solution, which is the one its name stands for.
Unfolded(X, a, n, G) == \E g \in [0 .. n -> X] : g[0] = a /\ \A i \in 1 .. n : g[i] = G[i][g[i - 1]]

LEMMA Unfolds ==
  ASSUME NEW X, NEW a \in X, NEW n \in Nat, NEW G \in [1 .. n -> [X -> X]]
  PROVE  Unfolded(X, a, n, G)
<1> DEFINE Upto(k, g) == g \in [0 .. k -> X] /\ g[0] = a /\ \A i \in 1 .. k : g[i] = G[i][g[i - 1]]
           missing == {k \in 0 .. n : ~\E g : Upto(k, g)}
<1>2. SUFFICES ASSUME missing # {} PROVE FALSE
  <2>1. n \in 0 .. n
    OBVIOUS
  <2>2. n \notin missing
    BY <1>2
  <2> QED BY <2>1, <2>2 DEF Unfolded
<1>3. PICK k \in missing : \A j \in missing : k <= j
  <2>1. missing \in SUBSET Nat
    OBVIOUS
  <2> HIDE DEF missing
  <2> QED BY <1>2, <2>1, LeastExists
<1>4. k # 0
  <2>1. Upto(0, [i \in 0 .. 0 |-> a])
    OBVIOUS
  <2> QED BY <1>3, <2>1
<1>5. k - 1 \in 0 .. n /\ k - 1 \notin missing
  <2>1. k \in Nat /\ k <= n
    BY <1>3
  <2>2. ~(k <= k - 1) /\ k - 1 \in 0 .. n
    BY <1>4, <2>1
  <2> HIDE DEF missing
  <2> QED BY <1>3, <2>2
<1>6. PICK g : Upto(k - 1, g)
  BY <1>5
<1> DEFINE h == [i \in 0 .. k |-> IF i = k THEN G[k][g[k - 1]] ELSE g[i]]
<1>7. k \in 1 .. n /\ G[k] \in [X -> X] /\ g[k - 1] \in X
  BY <1>3, <1>4, <1>6
<1>8. h \in [0 .. k -> X]
  BY <1>6, <1>7
<1>9. ASSUME NEW i \in 1 .. k PROVE h[i] = G[i][h[i - 1]]
  <2>1. CASE i = k
    <3>1. h[i] = G[k][g[k - 1]] /\ h[k - 1] = g[k - 1]
      BY <1>7, <2>1
    <3> QED BY <1>4, <2>1, <3>1
  <2>2. CASE i # k
    <3>1. i \in 1 .. k - 1 /\ i - 1 \in 0 .. k - 1 /\ i \in 0 .. k /\ i - 1 \in 0 .. k /\ i - 1 # k
      BY <1>7, <2>2
    <3>2. g[i] = G[i][g[i - 1]]
      BY <1>6, <3>1
    <3>3. h[i] = g[i] /\ h[i - 1] = g[i - 1]
      BY <1>7, <2>2, <3>1
    <3> QED BY <3>2, <3>3
  <2> QED BY <2>1, <2>2
<1>10. h[0] = a
  BY <1>4, <1>6, <1>7
<1> HIDE DEF h
<1> QED BY <1>3, <1>8, <1>9, <1>10 DEF Unfolded

-----------------------------------------------------------------------------
(* Lists *)

\* list_remove: the elements after the one taken move up.
LEMMA RemoveAtFacts ==
  ASSUME NEW S, NEW list \in Seq(S), NEW i \in 1 .. Len(list)
  PROVE  /\ RemoveAt(list, i) \in Seq(S)
         /\ Len(RemoveAt(list, i)) = Len(list) - 1
         /\ \A j \in 1 .. Len(list) - 1 :
              RemoveAt(list, i)[j] = IF j < i THEN list[j] ELSE list[j + 1]
<1> DEFINE before == SubSeq(list, 1, i - 1)
           after  == SubSeq(list, i + 1, Len(list))
<1>1. /\ before \in Seq(S) /\ Len(before) = i - 1
      /\ \A j \in 1 .. i - 1 : before[j] = list[j]
  BY SubSeqProperties
<1>2. /\ after \in Seq(S) /\ Len(after) = Len(list) - i
      /\ \A j \in 1 .. Len(list) - i : after[j] = list[i + j]
  BY SubSeqProperties
<1>3. RemoveAt(list, i) = before \o after
  BY DEF RemoveAt
<1> HIDE DEF before, after
<1>4. /\ before \o after \in Seq(S)
      /\ Len(before \o after) = Len(list) - 1
      /\ \A j \in 1 .. Len(list) - 1 :
           (before \o after)[j] = IF j <= i - 1 THEN before[j] ELSE after[j - (i - 1)]
  <2>1. Len(before) + Len(after) = Len(list) - 1
    BY <1>1, <1>2
  <2>2. /\ before \o after \in Seq(S)
        /\ Len(before \o after) = Len(before) + Len(after)
        /\ \A j \in 1 .. Len(before) + Len(after) :
             (before \o after)[j] = IF j <= Len(before) THEN before[j] ELSE after[j - Len(before)]
    BY <1>1, <1>2, ConcatProperties, Zenon
  <2> QED BY <1>1, <2>1, <2>2
<1>5. ASSUME NEW j \in 1 .. Len(list) - 1
      PROVE  (before \o after)[j] = IF j < i THEN list[j] ELSE list[j + 1]
  <2>1. CASE j < i
    BY <1>1, <1>4, <2>1
  <2>2. CASE j >= i
    <3>1. j - (i - 1) \in 1 .. Len(list) - i /\ i + (j - (i - 1)) = j + 1
      BY <2>2
    <3>5. ~(j < i) /\ ~(j <= i - 1)
      BY <2>2
    <3>2. (before \o after)[j] = after[j - (i - 1)]
      BY <1>4, <3>5, Zenon
    <3>3. after[j - (i - 1)] = list[i + (j - (i - 1))]
      BY <1>2, <3>1
    <3>4. list[i + (j - (i - 1))] = list[j + 1]
      BY <3>1, Zenon
    <3> QED BY <3>2, <3>3, <3>4, <3>5, Zenon
  <2>3. j < i \/ j >= i
    OBVIOUS
  <2> QED BY <2>1, <2>2, <2>3, Zenon
<1> QED BY <1>3, <1>4, <1>5

\* What is taken off a list that holds nothing twice is no longer on it.
LEMMA TakenOff ==
  ASSUME NEW S, NEW list \in Seq(S), IsInjective(list), NEW i \in 1 .. Len(list)
  PROVE  /\ RemoveAt(list, i) \in Seq(S)
         /\ IsInjective(RemoveAt(list, i))
         /\ \A x : Contains(RemoveAt(list, i), x) <=> Contains(list, x) /\ x # list[i]
<1> DEFINE rest == RemoveAt(list, i)
<1>1. /\ rest \in Seq(S) /\ Len(rest) = Len(list) - 1
      /\ \A j \in 1 .. Len(list) - 1 : rest[j] = IF j < i THEN list[j] ELSE list[j + 1]
  BY RemoveAtFacts
<1> HIDE DEF rest
<1>2. \A j, k \in 1 .. Len(list) : list[j] = list[k] => j = k
  BY DEF IsInjective
<1>3. ASSUME NEW j \in 1 .. Len(rest), NEW k \in 1 .. Len(rest), rest[j] = rest[k]
      PROVE  j = k
  <2>1. PICK a \in 1 .. Len(list) : rest[j] = list[a] /\ a = IF j < i THEN j ELSE j + 1
    <3>1. (IF j < i THEN j ELSE j + 1) \in 1 .. Len(list) /\ j \in 1 .. Len(list) - 1
      BY <1>1
    <3> QED BY <1>1, <3>1
  <2>2. PICK b \in 1 .. Len(list) : rest[k] = list[b] /\ b = IF k < i THEN k ELSE k + 1
    BY <1>1
  <2>3. a = b
    BY <1>2, <1>3, <2>1, <2>2
  <2> QED BY <2>1, <2>2, <2>3, <1>1
<1>4. ASSUME NEW x
      PROVE  Contains(rest, x) <=> Contains(list, x) /\ x # list[i]
  <2>1. ASSUME NEW j \in 1 .. Len(rest), rest[j] = x
        PROVE  Contains(list, x) /\ x # list[i]
    <3>1. PICK a \in 1 .. Len(list) : rest[j] = list[a] /\ a = IF j < i THEN j ELSE j + 1
      BY <1>1
    <3> QED BY <1>2, <2>1, <3>1 DEF Contains
  <2>2. ASSUME NEW a \in 1 .. Len(list), list[a] = x, x # list[i]
        PROVE  Contains(rest, x)
    <3>1. PICK j \in 1 .. Len(rest) : a = IF j < i THEN j ELSE j + 1
      <4>1. CASE a < i
        BY <1>1, <4>1
      <4>2. CASE a > i
        <5>1. a - 1 \in 1 .. Len(rest) /\ ~(a - 1 < i)
          BY <1>1, <4>2
        <5> QED BY <5>1
      <4> QED BY <2>2, <4>1, <4>2
    <3> QED BY <1>1, <2>2, <3>1 DEF Contains
  <2> QED BY <2>1, <2>2 DEF Contains
<1> QED BY <1>1, <1>3, <1>4 DEF IsInjective, rest

\* The first element, as queue_pop takes it.
LEMMA TailIsRemoveAt ==
  ASSUME NEW S, NEW list \in Seq(S), list # <<>>
  PROVE  /\ Len(list) >= 1 /\ 1 \in 1 .. Len(list) /\ list[1] = Head(list) /\ Head(list) \in S
         /\ Tail(list) = RemoveAt(list, 1)
<1>1. Len(list) \in Nat /\ Len(list) # 0
  OBVIOUS
<1>2. 1 \in 1 .. Len(list)
  BY <1>1
<1>3. /\ RemoveAt(list, 1) \in Seq(S)
      /\ Len(RemoveAt(list, 1)) = Len(list) - 1
      /\ \A j \in 1 .. Len(list) - 1 : RemoveAt(list, 1)[j] = list[j + 1]
  BY <1>2, RemoveAtFacts
<1>4. Tail(list) \in Seq(S) /\ Len(Tail(list)) = Len(list) - 1
      /\ \A j \in 1 .. Len(list) - 1 : Tail(list)[j] = list[j + 1]
  BY <1>1
<1> QED BY <1>1, <1>2, <1>3, <1>4, SeqEqual

LEMMA TailFacts ==
  ASSUME NEW S, NEW list \in Seq(S), IsInjective(list), list # <<>>
  PROVE  /\ Head(list) \in S /\ Contains(list, Head(list))
         /\ Tail(list) \in Seq(S) /\ IsInjective(Tail(list))
         /\ \A x : Contains(Tail(list), x) <=> Contains(list, x) /\ x # Head(list)
<1>1. 1 \in 1 .. Len(list) /\ list[1] = Head(list) /\ Head(list) \in S /\ Tail(list) = RemoveAt(list, 1)
  BY TailIsRemoveAt
<1>2. Contains(list, Head(list))
  BY <1>1 DEF Contains
<1>3. /\ RemoveAt(list, 1) \in Seq(S) /\ IsInjective(RemoveAt(list, 1))
      /\ \A x : Contains(RemoveAt(list, 1), x) <=> Contains(list, x) /\ x # list[1]
  BY <1>1, TakenOff
<1> QED BY <1>1, <1>2, <1>3

\* list_add, queue_push.
LEMMA AppendFacts ==
  ASSUME NEW S, NEW list \in Seq(S), NEW e \in S
  PROVE  /\ Append(list, e) \in Seq(S)
         /\ \A x : Contains(Append(list, e), x) <=> Contains(list, x) \/ x = e
         /\ IsInjective(list) /\ ~Contains(list, e) => IsInjective(Append(list, e))
<1> DEFINE longer == Append(list, e)
<1>1. /\ longer \in Seq(S) /\ Len(longer) = Len(list) + 1
      /\ \A i \in 1 .. Len(list) : longer[i] = list[i]
      /\ longer[Len(list) + 1] = e
  OBVIOUS
<1> HIDE DEF longer
<1>2. ASSUME NEW x PROVE Contains(longer, x) <=> Contains(list, x) \/ x = e
  BY <1>1 DEF Contains
<1>3. ASSUME IsInjective(list), ~Contains(list, e) PROVE IsInjective(longer)
  <2> SUFFICES ASSUME NEW i \in 1 .. Len(longer), NEW j \in 1 .. Len(longer), longer[i] = longer[j]
               PROVE  i = j
    BY <1>1 DEF IsInjective
  <2> QED BY <1>1, <1>3 DEF IsInjective, Contains
<1> QED BY <1>1, <1>2, <1>3 DEF longer

\* The first that fits: list_find and the loops that stop at the first.
LEMMA LeastIsOne ==
  ASSUME NEW S \in SUBSET Nat, S # {}
  PROVE  (CHOOSE k \in S : \A l \in S : k <= l) \in S
BY MinIsOne DEF Min

\* list_remove_by_condition takes the one that it finds, if any.
LEMMA RemoveFirstFacts ==
  ASSUME NEW S, NEW list \in Seq(S), NEW x
  PROVE  /\ ~Contains(list, x) => RemoveFirst(list, x) = list
         /\ Contains(list, x) =>
              \E i \in 1 .. Len(list) : list[i] = x /\ RemoveFirst(list, x) = RemoveAt(list, i)
<1>1. CASE ~Contains(list, x)
  BY <1>1 DEF RemoveFirst, Contains
<1>2. CASE Contains(list, x)
  <2> DEFINE found == {i \in 1 .. Len(list) : list[i] = x}
  <2>1. found # {} /\ found \in SUBSET Nat
    BY <1>2 DEF Contains
  <2>2. Min(found) \in found
    BY <2>1, MinIsOne
  <2>3. RemoveFirst(list, x) = RemoveAt(list, Min(found))
    BY <1>2, <2>1 DEF RemoveFirst, Contains, SelectInSeq
  <2> QED BY <1>2, <2>2, <2>3
<1> QED BY <1>1, <1>2

\* Among the elements of a set of positions there is a k-th.
LEMMA NthExists ==
  ASSUME NEW n \in Nat, NEW S \in SUBSET (1 .. n), NEW k \in 1 .. Cardinality(S)
  PROVE  \E i \in S : Cardinality({j \in S : j <= i}) = k
<1> DEFINE upTo(i) == {j \in S : j <= i}
           reached == {i \in 0 .. n : Cardinality(upTo(i)) >= k}
<1>0. \A j \in S : j \in Int /\ 1 <= j /\ j <= n
  OBVIOUS
<1>1. IsFiniteSet(S)
  <2>1. IsFiniteSet(1 .. n)
    BY FS_Interval
  <2> QED BY <2>1, FS_Subset
<1>2. ASSUME NEW i \in Int PROVE IsFiniteSet(upTo(i)) /\ Cardinality(upTo(i)) \in Nat
  <2>1. upTo(i) \subseteq S
    OBVIOUS
  <2> QED BY <1>1, <2>1, FS_Subset, FS_CardinalityType
<1>3. Cardinality(S) \in Nat
  BY <1>1, FS_CardinalityType
<1>4. n \in reached
  <2>1. upTo(n) = S
    BY <1>0
  <2> HIDE DEF upTo
  <2> QED BY <1>3, <2>1
<1> HIDE DEF upTo
<1>5. PICK m \in reached : \A i \in reached : m <= i
  <2>1. reached \in SUBSET Nat /\ reached # {}
    BY <1>4
  <2> HIDE DEF reached
  <2> QED BY <2>1, LeastExists
<1>6. m # 0
  <2>1. ASSUME NEW j \in upTo(0) PROVE FALSE
    BY <1>0 DEF upTo
  <2>2. Cardinality(upTo(0)) = 0
    <3>1. upTo(0) = {}
      BY <2>1
    <3> QED BY <3>1, FS_EmptySet
  <2> QED BY <1>3, <1>5, <2>2 DEF reached
<1> HIDE DEF reached
<1>7. m - 1 \in 0 .. n /\ m \in 1 .. n /\ m - 1 \notin reached
  <2>1. m - 1 \in 0 .. n /\ m \in 1 .. n
    BY <1>5, <1>6 DEF reached
  <2>2. ASSUME m - 1 \in reached PROVE FALSE
    BY <1>5, <2>1, <2>2
  <2> QED BY <2>1, <2>2
<1>8. PICK c \in Nat : Cardinality(upTo(m - 1)) = c
  BY <1>2, <1>7
<1>9. c < k
  BY <1>3, <1>7, <1>8 DEF reached
<1>10. m \in S
  <2> SUFFICES ASSUME m \notin S PROVE FALSE
    OBVIOUS
  <2>0. \A j \in S : j <= m <=> j <= m - 1
    BY <1>0, <1>7
  <2>1. \A j : j \in upTo(m) <=> j \in upTo(m - 1)
    BY <2>0 DEF upTo
  <2>2. upTo(m) = upTo(m - 1)
    <3>1. upTo(m) \subseteq S /\ upTo(m - 1) \subseteq S
      BY DEF upTo
    <3> QED BY <2>1, <3>1
  <2> QED BY <1>3, <1>5, <1>8, <1>9, <2>2 DEF reached
<1>11. upTo(m) = upTo(m - 1) \cup {m} /\ m \notin upTo(m - 1)
  <2>0. m <= m /\ \A j \in S : j <= m <=> j <= m - 1 \/ j = m
    BY <1>0, <1>7
  <2>1. \A j : j \in upTo(m) <=> j \in upTo(m - 1) \/ j = m
    BY <1>10, <2>0 DEF upTo
  <2>2. m \notin upTo(m - 1)
    BY <1>7 DEF upTo
  <2> QED BY <2>1, <2>2
<1>12. Cardinality(upTo(m)) = c + 1
  <2>1. IsFiniteSet(upTo(m - 1))
    BY <1>2, <1>7
  <2> QED BY <1>8, <1>11, <2>1, FS_AddElement
<1>13. Cardinality(upTo(m)) = k
  BY <1>3, <1>5, <1>8, <1>9, <1>12 DEF reached
<1> QED BY <1>10, <1>13 DEF upTo

\* The more of a set are no greater than a number, the greater the number.
LEMMA NthOrder ==
  ASSUME NEW n \in Nat, NEW S \in SUBSET (1 .. n), NEW i \in S, NEW j \in S, NEW U, NEW V,
         \A x : x \in U <=> x \in S /\ x <= i, \A x : x \in V <=> x \in S /\ x <= j,
         Cardinality(U) < Cardinality(V)
  PROVE  i < j
<1>1. IsFiniteSet(S)
  <2>1. IsFiniteSet(1 .. n)
    BY FS_Interval
  <2> QED BY <2>1, FS_Subset
<1>2. i \in Int /\ j \in Int /\ \A x \in S : x \in Int
  OBVIOUS
<1>3. SUFFICES ASSUME j <= i PROVE FALSE
  BY <1>2
<1>4. V \subseteq U /\ U \subseteq S
  <2>1. ASSUME NEW x \in V PROVE x \in U
    <3>1. x \in S /\ x <= j /\ x \in Int
      BY <1>2
    <3>2. x <= i
      BY <1>2, <1>3, <3>1
    <3> QED BY <3>1, <3>2
  <2> QED BY <2>1
<1>5. IsFiniteSet(U) /\ IsFiniteSet(V)
  BY <1>1, <1>4, FS_Subset
<1>6. Cardinality(V) <= Cardinality(U) /\ Cardinality(U) \in Nat /\ Cardinality(V) \in Nat
  BY <1>4, <1>5, FS_Subset, FS_CardinalityType
<1> QED BY <1>6

\* i is the first place of the list with the symbol of s.
IsFirst(list, owner, s, i) ==
  owner[list[i]] = owner[s] /\ \A j \in DOMAIN list : j < i => owner[list[j]] # owner[s]

\* What liberarEntrenador leaves is in the order it was in, and without the first
\* trainer that has the symbol of s.
LEMMA UnlistedFacts ==
  ASSUME NEW S, NEW list \in Seq(S), NEW owner, NEW s, NEW left, left = Unlisted(list, owner, s)
  PROVE  /\ left \in Seq(S)
         /\ \A k \in DOMAIN left : \E i \in DOMAIN list : list[i] = left[k]
         /\ \A k, l \in DOMAIN left : k < l =>
              \E i, j \in DOMAIN list : i < j /\ list[i] = left[k] /\ list[j] = left[l]
         /\ \A i \in DOMAIN list : IsFirst(list, owner, s, i) =>
              \A k \in DOMAIN left : \E j \in DOMAIN list : j # i /\ list[j] = left[k]
<1> DEFINE removed[i \in 0 .. Len(list)] ==
             /\ i > 0
             /\ owner[list[i]] = owner[s]
             /\ ~removed[i - 1]
           kept == {i \in DOMAIN list : ~removed[i]}
           nth(k) == CHOOSE i \in kept : Cardinality({j \in kept : j <= i}) = k
<1>1. left = [k \in 1 .. Cardinality(kept) |-> list[nth(k)]]
  BY DEF Unlisted
<1>2. /\ Len(list) \in Nat /\ DOMAIN list = 1 .. Len(list) /\ kept \in SUBSET (1 .. Len(list))
      /\ Cardinality(kept) \in Nat
  <2>1. Len(list) \in Nat /\ DOMAIN list = 1 .. Len(list) /\ kept \in SUBSET (1 .. Len(list))
    OBVIOUS
  <2>2. IsFiniteSet(1 .. Len(list))
    BY <2>1, FS_Interval
  <2> HIDE DEF kept
  <2> QED BY <2>1, <2>2, FS_Subset, FS_CardinalityType
<1>3. \A i \in 1 .. Len(list) : i \in kept <=> ~removed[i]
  OBVIOUS
<1>4. \A i \in 0 .. Len(list) : removed[i] = (i > 0 /\ owner[list[i]] = owner[s] /\ ~removed[i - 1])
  <2> DEFINE n == Len(list)
             own(i) == owner[list[i]] = owner[s]
             G == [i \in 1 .. n |-> [b \in BOOLEAN |-> own(i) /\ ~b]]
             E(r) == r = [i \in 0 .. n |-> i > 0 /\ owner[list[i]] = owner[s] /\ ~r[i - 1]]
  <2>1. G \in [1 .. n -> [BOOLEAN -> BOOLEAN]]
    OBVIOUS
  <2>2. PICK g \in [0 .. n -> BOOLEAN] : g[0] = FALSE /\ \A i \in 1 .. n : g[i] = G[i][g[i - 1]]
    <3>1. PICK no, B, N, F : no = FALSE /\ B = BOOLEAN /\ N = n /\ F = G
      OBVIOUS
    <3> HIDE DEF G, n, E, kept, nth
    <3>2. N \in Nat /\ no \in B /\ F \in [1 .. N -> [B -> B]]
      BY <1>2, <2>1, <3>1 DEF n
    <3>3. Unfolded(B, no, N, F)
      BY ONLY <3>2, Unfolds
    <3>4. \E g \in [0 .. N -> B] : g[0] = no /\ \A i \in 1 .. N : g[i] = F[i][g[i - 1]]
      BY ONLY <3>3 DEF Unfolded
    <3> QED BY <3>1, <3>4
  <2>3. E(g)
    <3>1. ASSUME NEW i \in 0 .. n
          PROVE  g[i] = (i > 0 /\ owner[list[i]] = owner[s] /\ ~g[i - 1])
      <4>1. CASE i = 0
        BY <2>2, <4>1
      <4>2. CASE i # 0
        <5>1. i \in 1 .. n /\ i - 1 \in 0 .. n /\ i > 0
          BY <1>2, <4>2
        <5>2. g[i - 1] \in BOOLEAN
          BY <2>2, <5>1
        <5>3. G[i][g[i - 1]] = (own(i) /\ ~g[i - 1])
          BY <5>1, <5>2
        <5> HIDE DEF G
        <5> QED BY <2>2, <4>2, <5>1, <5>3
      <4> QED BY <4>1, <4>2
    <3> HIDE DEF G, n
    <3>2. [i \in 0 .. n |-> g[i]] = [i \in 0 .. n |-> i > 0 /\ owner[list[i]] = owner[s] /\ ~g[i - 1]]
      BY <3>1, Zenon
    <3>3. g = [i \in 0 .. n |-> g[i]]
      BY <2>2
    <3> QED BY <3>2, <3>3, Zenon
  <2>4. E(CHOOSE r : E(r))
    <3>1. \E r : E(r)
      BY <2>3
    <3> QED BY <3>1, Zenon
  <2>5. removed = CHOOSE r : E(r)
    BY DEF removed
  <2>6. E(removed)
    BY <2>4, <2>5, Zenon
  <2> HIDE DEF removed
  <2> DEFINE w == [i \in 0 .. n |-> i > 0 /\ owner[list[i]] = owner[s] /\ ~removed[i - 1]]
  <2>7. removed = w
    BY <2>6
  <2>8. \A i \in 0 .. n : w[i] = (i > 0 /\ owner[list[i]] = owner[s] /\ ~removed[i - 1])
    OBVIOUS
  <2> HIDE DEF w
  <2> QED BY <2>7, <2>8
<1> HIDE DEF kept, removed
<1>5. ASSUME NEW k \in 1 .. Cardinality(kept)
      PROVE  nth(k) \in kept /\ Cardinality({j \in kept : j <= nth(k)}) = k
  <2>1. \E i \in kept : Cardinality({j \in kept : j <= i}) = k
    BY <1>2, NthExists
  <2> QED BY <2>1, Zenon
<1> HIDE DEF nth
<1>7. DOMAIN left = 1 .. Cardinality(kept) /\ \A k \in 1 .. Cardinality(kept) : left[k] = list[nth(k)]
  BY <1>1
<1>6. left \in Seq(S)
  <2>1. ASSUME NEW k \in 1 .. Cardinality(kept) PROVE list[nth(k)] \in S
    <3>1. nth(k) \in 1 .. Len(list)
      BY <1>2, <1>5
    <3> QED BY <3>1
  <2> QED BY <1>1, <1>2, <2>1
<1>10. ASSUME NEW k \in DOMAIN left PROVE \E i \in DOMAIN list : list[i] = left[k]
  <2>1. nth(k) \in DOMAIN list /\ left[k] = list[nth(k)]
    BY <1>2, <1>5, <1>7
  <2> QED BY <2>1
<1>8. ASSUME NEW k \in DOMAIN left, NEW l \in DOMAIN left, k < l
      PROVE  \E i, j \in DOMAIN list : i < j /\ list[i] = left[k] /\ list[j] = left[l]
  <2>1. /\ nth(k) \in kept /\ Cardinality({j \in kept : j <= nth(k)}) = k
        /\ nth(l) \in kept /\ Cardinality({j \in kept : j <= nth(l)}) = l
    BY <1>5, <1>7
  <2>2. nth(k) < nth(l)
    <3>1. Cardinality({j \in kept : j <= nth(k)}) < Cardinality({j \in kept : j <= nth(l)})
      BY <1>8, <2>1
    <3>2. Len(list) \in Nat /\ kept \in SUBSET (1 .. Len(list)) /\ nth(k) \in kept /\ nth(l) \in kept
      BY <1>2, <2>1
    <3>3. PICK a, b, n, K, U, V : /\ a = nth(k) /\ b = nth(l) /\ n = Len(list) /\ K = kept
                                  /\ U = {j \in kept : j <= nth(k)} /\ V = {j \in kept : j <= nth(l)}
      OBVIOUS
    <3>4. /\ n \in Nat /\ K \in SUBSET (1 .. n) /\ a \in K /\ b \in K
          /\ Cardinality(U) < Cardinality(V)
          /\ \A x : x \in U <=> x \in K /\ x <= a
          /\ \A x : x \in V <=> x \in K /\ x <= b
      BY <3>1, <3>2, <3>3
    <3>5. a < b
      BY <3>4, NthOrder
    <3> QED BY <3>3, <3>5
  <2> QED BY <1>2, <1>7, <2>1, <2>2
<1>9. ASSUME NEW i \in DOMAIN list, owner[list[i]] = owner[s],
             \A j \in DOMAIN list : j < i => owner[list[j]] # owner[s], NEW k \in DOMAIN left
      PROVE  \E j \in DOMAIN list : j # i /\ list[j] = left[k]
  <2>1. i \in 1 .. Len(list) /\ i \in 0 .. Len(list) /\ i - 1 \in 0 .. Len(list) /\ i > 0 /\ i - 1 < i
    BY <1>2
  <2>2. ~removed[i - 1]
    <3>1. CASE i - 1 = 0
      <4>1. 0 \in 0 .. Len(list) /\ ~(0 > 0)
        BY <1>2
      <4>2. removed[0] = FALSE
        BY <1>4, <4>1
      <4> QED BY <3>1, <4>2
    <3>2. CASE i - 1 # 0
      <4>1. i - 1 \in DOMAIN list
        BY <1>2, <2>1, <3>2
      <4> QED BY <1>4, <1>9, <2>1, <4>1
    <3> QED BY <3>1, <3>2
  <2>3. removed[i]
    BY <1>4, <1>9, <2>1, <2>2
  <2>4. i \notin kept
    BY <1>3, <2>1, <2>3
  <2>5. nth(k) \in kept
    BY <1>5, <1>7
  <2> QED BY <1>2, <1>7, <2>4, <2>5
<1> QED BY <1>6, <1>8, <1>9, <1>10 DEF IsFirst
=============================================================================
