------------------------- MODULE SubsequenceTheorems -------------------------
(***************************************************************************)
(* What the operators of Subsequences return, for every sequence; that a   *)
(* loop over the positions of a sequence has a value after every turn; and *)
(* how often an element is in a sequence.                                  *)
(***************************************************************************)
EXTENDS Subsequences, SequencesExt, FiniteSetTheorems, SequenceTheorems, TLAPS

(* A set of positions is finite.                                           *)
LEMMA PositionsFinite ==
  ASSUME NEW L \in Nat, NEW at \in SUBSET (1..L)
  PROVE  /\ IsFiniteSet(at) /\ Cardinality(at) \in Nat
         /\ \A T \in SUBSET at : /\ IsFiniteSet(T) /\ Cardinality(T) \in Nat
                                 /\ Cardinality(T) <= Cardinality(at)
<1>1. IsFiniteSet(1..L)
  BY FS_Interval
<1>2. IsFiniteSet(at)
  BY <1>1, FS_Subset
<1>3. ASSUME NEW T \in SUBSET at
      PROVE  IsFiniteSet(T) /\ Cardinality(T) \in Nat /\ Cardinality(T) <= Cardinality(at)
  BY <1>2, FS_Subset, FS_CardinalityType
<1> QED
  BY <1>2, <1>3, FS_CardinalityType

(* A later position has a higher place.                                    *)
LEMMA RankIncreases ==
  ASSUME NEW L \in Nat, NEW at \in SUBSET (1..L),
         NEW i \in at, NEW j \in at, i < j
  PROVE  Rank(at, i) < Rank(at, j)
<1> DEFINE A == {x \in at : x <= i}
           B == {x \in at : x <= j}
<1>0. \A x \in at : x \in Int
  OBVIOUS
<1>1. A \in SUBSET B /\ B \in SUBSET at
  <2>1. ASSUME NEW x \in A PROVE x \in B
    BY <1>0
  <2> QED
    BY <2>1
<1>2. j \in B /\ j \notin A
  OBVIOUS
<1>3. IsFiniteSet(B) /\ Cardinality(B) \in Nat
  BY <1>1, PositionsFinite
<1>4. Cardinality(A) \in Nat /\ Cardinality(A) <= Cardinality(B)
      /\ (Cardinality(B) = Cardinality(A) => B = A)
  <2> HIDE DEF A, B
  <2> QED
    BY <1>1, <1>3, FS_Subset, FS_CardinalityType
<1>5. A # B
  BY <1>2
<1>6. Cardinality(A) < Cardinality(B)
  <2> HIDE DEF A, B
  <2> QED
    BY <1>3, <1>4, <1>5
<1> QED
  BY <1>6 DEF Rank

(* Every place up to the number of positions has its position, and places  *)
(* and positions have the same order.                                      *)
LEMMA NthPosition ==
  ASSUME NEW L \in Nat, NEW at \in SUBSET (1..L)
  PROVE  /\ \A n \in 1..Cardinality(at) : Nth(at, n) \in at
         /\ \A i \in at : \E n \in 1..Cardinality(at) : Nth(at, n) = i
         /\ \A m, n \in 1..Cardinality(at) : m < n => Nth(at, m) < Nth(at, n)
<1> DEFINE C == Cardinality(at)
           r == [i \in at |-> Rank(at, i)]
<1>0. \A x \in at : x \in Int
  OBVIOUS
<1>1. C \in Nat /\ IsFiniteSet(at)
  BY PositionsFinite
<1>2. \A i \in at : Rank(at, i) \in 1..C
  <2> SUFFICES ASSUME NEW i \in at PROVE Rank(at, i) \in 1..C
    OBVIOUS
  <2> DEFINE A == {x \in at : x <= i}
  <2>1. A \in SUBSET at /\ i \in A
    OBVIOUS
  <2>2. IsFiniteSet(A) /\ Cardinality(A) \in Nat /\ Cardinality(A) <= C
    BY <2>1, PositionsFinite
  <2>3. Cardinality(A) # 0
    BY <2>1, <2>2, FS_EmptySet
  <2> QED
    BY <1>1, <2>2, <2>3 DEF Rank
<1>3. \A i, j \in at : i < j => Rank(at, i) < Rank(at, j)
  BY RankIncreases
<1>4. \A i, j \in at : Rank(at, i) = Rank(at, j) => i = j
  <2> SUFFICES ASSUME NEW i \in at, NEW j \in at, Rank(at, i) = Rank(at, j), i # j PROVE FALSE
    OBVIOUS
  <2>1. i < j \/ j < i
    OBVIOUS
  <2> QED
    BY <1>1, <1>2, <1>3, <2>1
<1>5. r \in Injection(at, 1..C)
  BY <1>2, <1>4 DEF Injection, IsInjective
<1>6. IsFiniteSet(1..C) /\ Cardinality(1..C) = C
  BY <1>1, FS_Interval
<1>7. r \in Surjection(at, 1..C)
  <2> HIDE DEF r, C
  <2> QED
    BY <1>5, <1>6, FS_Injection DEF C
<1>8. \A n \in 1..C : Nth(at, n) \in at /\ Rank(at, Nth(at, n)) = n
  <2> SUFFICES ASSUME NEW n \in 1..C PROVE Nth(at, n) \in at /\ Rank(at, Nth(at, n)) = n
    OBVIOUS
  <2>1. \E i \in at : Rank(at, i) = n
    BY <1>7 DEF Surjection
  <2> QED
    BY <2>1 DEF Nth
<1>9. \A i \in at : Nth(at, Rank(at, i)) = i
  BY <1>2, <1>4, <1>8
<1>10. ASSUME NEW m \in 1..C, NEW n \in 1..C, m < n
       PROVE  Nth(at, m) < Nth(at, n)
  <2>1. Nth(at, m) \in at /\ Nth(at, n) \in at /\ Rank(at, Nth(at, m)) = m /\ Rank(at, Nth(at, n)) = n
    BY <1>8
  <2>2. ~ (Nth(at, n) < Nth(at, m)) /\ Nth(at, n) # Nth(at, m)
    <3>1. m \in Int /\ n \in Int /\ ~ (n < m) /\ n # m
      BY <1>1, <1>10
    <3>2. Nth(at, n) < Nth(at, m) => n < m
      BY <1>3, <2>1, Zenon
    <3>3. Nth(at, n) = Nth(at, m) => n = m
      BY <2>1, Zenon
    <3> QED
      BY <3>1, <3>2, <3>3
  <2>3. Nth(at, m) \in Int /\ Nth(at, n) \in Int
    BY <1>0, <2>1
  <2> QED
    BY <2>2, <2>3
<1> QED
  BY <1>2, <1>8, <1>9, <1>10

(* A set of positions that is not empty has a least element.               *)
LEMMA LeastPosition ==
  ASSUME NEW L \in Nat, NEW at \in SUBSET (1..L), at # {}
  PROVE  \E i \in at : \A j \in at : i <= j
<1>1. \A x \in at : x \in Int
  OBVIOUS
<1>2. Cardinality(at) \in Nat
  BY PositionsFinite
<1>3. 1 \in 1..Cardinality(at)
  <2>1. PICK i \in at : TRUE
    OBVIOUS
  <2>2. PICK n \in 1..Cardinality(at) : Nth(at, n) = i
    BY NthPosition
  <2> QED
    BY <1>2
<1>4. Nth(at, 1) \in at
  BY <1>3, NthPosition
<1>5. ASSUME NEW j \in at PROVE Nth(at, 1) <= j
  <2>1. PICK n \in 1..Cardinality(at) : Nth(at, n) = j
    BY NthPosition
  <2>2. 1 < n => Nth(at, 1) < Nth(at, n)
    BY <1>3, NthPosition
  <2>3. Nth(at, 1) \in Int /\ j \in Int
    BY <1>1, <1>4
  <2>4. n = 1 \/ 1 < n
    BY <1>2
  <2>5. CASE n = 1
    BY <2>1, <2>3, <2>5
  <2>6. CASE 1 < n
    <3>1. Nth(at, 1) < j
      BY <2>1, <2>2, <2>6
    <3> QED
      BY <2>3, <3>1
  <2> QED
    BY <2>4, <2>5, <2>6
<1> QED
  BY <1>4, <1>5

(* A set of positions that is not empty has a greatest element.            *)
LEMMA GreatestPosition ==
  ASSUME NEW L \in Nat, NEW at \in SUBSET (1..L), at # {}
  PROVE  \E i \in at : \A j \in at : j <= i
<1> DEFINE C == Cardinality(at)
<1>1. \A x \in at : x \in Int
  OBVIOUS
<1>2. C \in Nat
  BY PositionsFinite
<1>3. C \in 1..C
  <2>1. PICK i \in at : TRUE
    OBVIOUS
  <2>2. PICK n \in 1..C : Nth(at, n) = i
    BY NthPosition
  <2> QED
    BY <1>2
<1>4. Nth(at, C) \in at
  BY <1>3, NthPosition
<1>5. ASSUME NEW j \in at PROVE j <= Nth(at, C)
  <2>1. PICK n \in 1..C : Nth(at, n) = j
    BY NthPosition
  <2>2. n < C => Nth(at, n) < Nth(at, C)
    BY <1>3, NthPosition
  <2>3. Nth(at, C) \in Int /\ j \in Int
    BY <1>1, <1>4
  <2>4. n = C \/ n < C
    BY <1>2
  <2>5. CASE n = C
    BY <2>1, <2>3, <2>5
  <2>6. CASE n < C
    <3>1. j < Nth(at, C)
      BY <2>1, <2>2, <2>6
    <3> QED
      BY <2>3, <3>1
  <2> QED
    BY <2>4, <2>5, <2>6
<1> QED
  BY <1>4, <1>5

(* The least position of a set.                                            *)
LEMMA MinOfPositions ==
  ASSUME NEW L \in Nat, NEW at \in SUBSET (1..L), at # {}
  PROVE  Min(at) \in at /\ \A j \in at : Min(at) <= j
<1>1. \E i \in at : \A j \in at : i <= j
  BY LeastPosition
<1> QED
  BY <1>1 DEF Min

(* AtPositions has the elements at the positions, and no others.           *)
LEMMA AtPositionsProperties ==
  ASSUME NEW S, NEW s \in Seq(S), NEW at \in SUBSET DOMAIN s
  PROVE  LET t == AtPositions(s, at)
         IN  /\ t \in Seq(S)
             /\ \A n \in DOMAIN t : \E i \in at : t[n] = s[i]
             /\ \A i \in at : \E n \in DOMAIN t : t[n] = s[i]
<1> DEFINE C == Cardinality(at)
           t == AtPositions(s, at)
<1>1. Len(s) \in Nat /\ DOMAIN s = 1..Len(s) /\ \A i \in DOMAIN s : s[i] \in S
  OBVIOUS
<1>2. at \in SUBSET (1..Len(s)) /\ C \in Nat
  BY <1>1, PositionsFinite
<1>3. /\ \A n \in 1..C : Nth(at, n) \in at
      /\ \A i \in at : \E n \in 1..C : Nth(at, n) = i
  BY <1>1, <1>2, NthPosition
<1>4. t = [n \in 1..C |-> s[Nth(at, n)]]
  BY DEF AtPositions
<1> HIDE DEF C, t
<1>5. t \in [1..C -> S]
  BY <1>1, <1>3, <1>4
<1>6. t \in Seq(S) /\ DOMAIN t = 1..C
  BY <1>2, <1>5
<1>7. \A n \in DOMAIN t : t[n] = s[Nth(at, n)]
  BY <1>4, <1>6
<1> QED
  BY <1>3, <1>6, <1>7 DEF t

(* AtPositions keeps the order.                                            *)
LEMMA AtPositionsOrder ==
  ASSUME NEW S, NEW s \in Seq(S), NEW at \in SUBSET DOMAIN s
  PROVE  LET t == AtPositions(s, at)
         IN  \A m, n \in DOMAIN t :
               m < n => \E i, j \in at : i < j /\ s[i] = t[m] /\ s[j] = t[n]
<1> DEFINE C == Cardinality(at)
           t == AtPositions(s, at)
<1>1. Len(s) \in Nat /\ DOMAIN s = 1..Len(s)
  OBVIOUS
<1>2. at \in SUBSET (1..Len(s)) /\ C \in Nat
  BY <1>1, PositionsFinite
<1>3. /\ \A n \in 1..C : Nth(at, n) \in at
      /\ \A m, n \in 1..C : m < n => Nth(at, m) < Nth(at, n)
  BY <1>1, <1>2, NthPosition
<1>4. t = [n \in 1..C |-> s[Nth(at, n)]]
  BY DEF AtPositions
<1> HIDE DEF C, t
<1>5. DOMAIN t = 1..C /\ \A n \in DOMAIN t : t[n] = s[Nth(at, n)]
  BY <1>4
<1> QED
  BY <1>3, <1>5 DEF t

(* Excluding keeps the other elements, only them, and in their order.      *)
LEMMA ExcludingProperties ==
  ASSUME NEW S, NEW s \in Seq(S), NEW ks
  PROVE  LET t == Excluding(s, ks)
         IN  /\ t \in Seq(S)
             /\ {t[n] : n \in DOMAIN t} = {s[i] : i \in DOMAIN s} \ ks
             /\ \A m, n \in DOMAIN t :
                  m < n => \E i, j \in DOMAIN s : i < j /\ s[i] = t[m] /\ s[j] = t[n]
<1> DEFINE at == {i \in DOMAIN s : s[i] \notin ks}
           C  == Cardinality(at)
           t  == Excluding(s, ks)
<1>1. Len(s) \in Nat /\ DOMAIN s = 1..Len(s) /\ \A i \in DOMAIN s : s[i] \in S
  OBVIOUS
<1>2. at \in SUBSET (1..Len(s)) /\ C \in Nat
  BY <1>1, PositionsFinite
<1>3. /\ \A n \in 1..C : Nth(at, n) \in at
      /\ \A i \in at : \E n \in 1..C : Nth(at, n) = i
      /\ \A m, n \in 1..C : m < n => Nth(at, m) < Nth(at, n)
  <2> HIDE DEF at
  <2> QED
    BY <1>1, <1>2, NthPosition
<1>4. t = [n \in 1..C |-> s[Nth(at, n)]]
  BY DEF Excluding, AtPositions
<1>5. \A i \in at : i \in DOMAIN s /\ s[i] \notin ks
  OBVIOUS
<1>6. \A i \in DOMAIN s : s[i] \notin ks => i \in at
  OBVIOUS
<1> HIDE DEF at, C, t
<1>7. t \in [1..C -> S]
  BY <1>1, <1>3, <1>4, <1>5
<1>8. t \in Seq(S) /\ DOMAIN t = 1..C
  BY <1>2, <1>7
<1>9. \A n \in DOMAIN t : t[n] = s[Nth(at, n)]
  BY <1>4, <1>8
<1>10. {t[n] : n \in DOMAIN t} = {s[i] : i \in DOMAIN s} \ ks
  <2>1. ASSUME NEW n \in DOMAIN t PROVE t[n] \in {s[i] : i \in DOMAIN s} \ ks
    BY <1>3, <1>5, <1>8, <1>9
  <2>2. ASSUME NEW i \in DOMAIN s, s[i] \notin ks PROVE s[i] \in {t[n] : n \in DOMAIN t}
    <3>1. PICK n \in 1..C : Nth(at, n) = i
      BY <1>3, <1>6, <2>2
    <3> QED
      BY <1>8, <1>9, <3>1
  <2> QED
    BY <2>1, <2>2
<1>11. ASSUME NEW m \in DOMAIN t, NEW n \in DOMAIN t, m < n
       PROVE  \E i, j \in DOMAIN s : i < j /\ s[i] = t[m] /\ s[j] = t[n]
  <2>1. Nth(at, m) < Nth(at, n) /\ Nth(at, m) \in DOMAIN s /\ Nth(at, n) \in DOMAIN s
    BY <1>3, <1>5, <1>8, <1>11
  <2> QED
    BY <1>9, <2>1
<1> QED
  BY <1>8, <1>10, <1>11 DEF t

-----------------------------------------------------------------------------
(* Induction over the positions of a sequence, for a set of them.          *)
LEMMA PositionInduction ==
  ASSUME NEW L \in Nat, NEW good, 0 \in good,
         \A i \in 1..L : i - 1 \in good => i \in good
  PROVE  \A i \in 0..L : i \in good
<1> DEFINE bad == {i \in 1..L : i \notin good}
<1> SUFFICES ASSUME bad # {} PROVE FALSE
  <2>1. \A i \in 0..L : i = 0 \/ i \in 1..L
    OBVIOUS
  <2> QED
    BY <2>1
<1>1. PICK i \in bad : \A j \in bad : i <= j
  <2> HIDE DEF bad
  <2>1. bad \in SUBSET (1..L)
    BY DEF bad
  <2> QED
    BY <2>1, LeastPosition
<1>2. i \in 1..L /\ i \notin good
  OBVIOUS
<1>3. i - 1 \notin good
  BY <1>2
<1>4. i - 1 \in 1..L
  <2>1. i - 1 # 0
    BY <1>3
  <2> QED
    BY <1>2, <2>1
<1>5. i - 1 \in bad
  BY <1>3, <1>4
<1> QED
  BY <1>1, <1>2, <1>5

(* g[i] is the value of a variable after i turns of a loop, which begins   *)
(* as init and becomes step[i][v] when it is v before turn i.              *)
IsLoop(g, L, S, init, step) ==
  g \in [0..L -> S] /\ g[0] = init /\ \A i \in 1..L : g[i] = step[i][g[i - 1]]

(* Every loop has such a g: the recursive function that models it exists.  *)
LEMMA LoopExists ==
  ASSUME NEW L \in Nat, NEW S, NEW init \in S, NEW step \in [1..L -> [S -> S]]
  PROVE  \E g : IsLoop(g, L, S, init, step)
<1> DEFINE Upto(n, g) == g[0] = init /\ \A i \in 1..n : g[i] = step[i][g[i - 1]]
           good == {n \in 0..L : \E g \in [0..n -> S] : Upto(n, g)}
<1>1. 0 \in good
  <2> DEFINE g == [i \in 0..0 |-> init]
  <2>1. g \in [0..0 -> S] /\ Upto(0, g)
    OBVIOUS
  <2>2. 0 \in 0..L
    OBVIOUS
  <2> HIDE DEF g, Upto
  <2> QED
    BY <2>1, <2>2
<1>2. ASSUME NEW n \in 1..L, n - 1 \in good PROVE n \in good
  <2>1. PICK g \in [0..(n - 1) -> S] : Upto(n - 1, g)
    BY <1>2
  <2> DEFINE h == [i \in 0..n |-> IF i = n THEN step[n][g[n - 1]] ELSE g[i]]
  <2>2. g[n - 1] \in S /\ step[n] \in [S -> S]
    OBVIOUS
  <2>3. h \in [0..n -> S]
    BY <2>2
  <2>4. h[0] = init
    BY <2>1
  <2>5. ASSUME NEW i \in 1..n PROVE h[i] = step[i][h[i - 1]]
    <3>1. CASE i = n
      BY <3>1
    <3>2. CASE i # n
      <4>1. i \in 1..(n - 1) /\ h[i] = g[i] /\ h[i - 1] = g[i - 1]
        BY <3>2
      <4> QED
        BY <2>1, <4>1
    <3> QED
      BY <3>1, <3>2
  <2> HIDE DEF h
  <2>6. Upto(n, h) /\ n \in 0..L
    BY <2>4, <2>5
  <2> HIDE DEF Upto
  <2> QED
    BY <2>3, <2>6
<1>3. \E g \in [0..L -> S] : Upto(L, g)
  <2> HIDE DEF good
  <2>1. \A i \in 0..L : i \in good
    BY <1>1, <1>2, PositionInduction
  <2>2. L \in good
    BY <2>1
  <2> HIDE DEF Upto
  <2> QED
    BY <2>2 DEF good
<1> QED
  BY <1>3 DEF IsLoop

-----------------------------------------------------------------------------
(* How often x is an element of s.                                         *)
Count(s, x) == Cardinality({n \in DOMAIN s : s[n] = x})

(* A count is a natural number, at most the length.                        *)
LEMMA CountType ==
  ASSUME NEW S, NEW s \in Seq(S), NEW x
  PROVE  Count(s, x) \in Nat /\ IsFiniteSet({n \in DOMAIN s : s[n] = x})
<1> DEFINE at == {n \in DOMAIN s : s[n] = x}
<1>1. Len(s) \in Nat /\ at \in SUBSET (1..Len(s))
  OBVIOUS
<1> HIDE DEF at
<1>2. IsFiniteSet(at) /\ Cardinality(at) \in Nat
  BY <1>1, PositionsFinite
<1> QED
  BY <1>2 DEF Count, at

(* An element of a concatenation is counted in its parts.                  *)
LEMMA CountConcat ==
  ASSUME NEW S, NEW s \in Seq(S), NEW t \in Seq(S), NEW x
  PROVE  Count(s \o t, x) = Count(s, x) + Count(t, x)
<1> DEFINE A == {n \in DOMAIN s : s[n] = x}
           B == {n \in DOMAIN t : t[n] = x}
           D == {n \in DOMAIN (s \o t) : (s \o t)[n] = x}
           E == D \ A
           f == [n \in B |-> n + Len(s)]
<1>1. IsFiniteSet(A) /\ IsFiniteSet(B) /\ Cardinality(A) \in Nat /\ Cardinality(B) \in Nat
  BY CountType DEF Count
<1>2. /\ Len(s) \in Nat /\ Len(t) \in Nat /\ DOMAIN s = 1..Len(s) /\ DOMAIN t = 1..Len(t)
      /\ DOMAIN (s \o t) = 1..(Len(s) + Len(t))
      /\ \A n \in 1..Len(s) : (s \o t)[n] = s[n]
      /\ \A n \in 1..Len(t) : (s \o t)[n + Len(s)] = t[n]
  OBVIOUS
<1>3. A \subseteq D
  BY <1>2
<1>4. \A n \in E : n - Len(s) \in B /\ n = (n - Len(s)) + Len(s)
  <2> SUFFICES ASSUME NEW n \in D, n \notin A
               PROVE  n - Len(s) \in B /\ n = (n - Len(s)) + Len(s)
    OBVIOUS
  <2>1. n \in 1..(Len(s) + Len(t)) /\ n \notin 1..Len(s)
    BY <1>2
  <2>2. n - Len(s) \in 1..Len(t) /\ n = (n - Len(s)) + Len(s)
    BY <1>2, <2>1
  <2> QED
    BY <1>2, <2>2
<1>5. \A n \in B : f[n] \in E
  BY <1>2
<1>6. f \in Bijection(B, E)
  <2>1. f \in [B -> E]
    BY <1>5
  <2>2. \A a, b \in B : f[a] = f[b] => a = b
    <3>1. \A a \in B : f[a] = a + Len(s) /\ a \in Int
      BY <1>2
    <3> QED
      BY <1>2, <3>1
  <2>3. \A n \in E : \E b \in B : f[b] = n
    <3> SUFFICES ASSUME NEW n \in E PROVE \E b \in B : f[b] = n
      OBVIOUS
    <3>1. n - Len(s) \in B /\ n = (n - Len(s)) + Len(s)
      BY <1>4
    <3>2. f[n - Len(s)] = n
      BY <3>1
    <3> QED
      BY <3>1, <3>2
  <2> HIDE DEF f, B, E
  <2> QED
    BY <2>1, <2>2, <2>3 DEF Bijection, Injection, Surjection, IsInjective
<1> HIDE DEF A, B, D, f
<1>7. IsFiniteSet(E) /\ Cardinality(E) = Cardinality(B)
  <2> HIDE DEF E
  <2> QED
    BY <1>1, <1>6, FS_Bijection DEF ExistsBijection
<1>8. D = A \cup E /\ A \cap E = {}
  BY <1>3
<1>9. Cardinality(D) = Cardinality(A) + Cardinality(B)
  <2> HIDE DEF E
  <2>1. Cardinality(A \cup E) = Cardinality(A) + Cardinality(E) - Cardinality(A \cap E)
    BY <1>1, <1>7, FS_Union
  <2>2. Cardinality({}) = 0
    BY FS_EmptySet
  <2>3. Cardinality(A \cap E) = 0 /\ Cardinality(D) = Cardinality(A \cup E)
    BY <1>8, <2>2
  <2> QED
    BY <1>1, <1>7, <2>1, <2>3
<1> QED
  BY <1>9 DEF Count, A, B, D

(* A sequence that repeats one element, and one without that element.      *)
LEMMA CountRepeated ==
  ASSUME NEW m \in Nat, NEW x, NEW s, DOMAIN s = 1..m
  PROVE  /\ (\A n \in 1..m : s[n] = x) => Count(s, x) = m
         /\ (\A n \in 1..m : s[n] # x) => Count(s, x) = 0
<1> DEFINE A == {n \in DOMAIN s : s[n] = x}
<1>1. ASSUME \A n \in 1..m : s[n] = x PROVE Count(s, x) = m
  <2>1. A = 1..m
    BY <1>1
  <2>2. Cardinality(1..m) = m
    BY FS_Interval
  <2> QED
    BY <2>1, <2>2 DEF Count
<1>2. ASSUME \A n \in 1..m : s[n] # x PROVE Count(s, x) = 0
  <2>1. A = {}
    BY <1>2
  <2> QED
    BY <2>1, FS_EmptySet DEF Count
<1> QED
  BY <1>1, <1>2

(* The first k elements and the others.                                    *)
LEMMA CountSplit ==
  ASSUME NEW S, NEW s \in Seq(S), NEW k \in 0..Len(s), NEW x
  PROVE  /\ SubSeq(s, 1, k) \in Seq(S) /\ SubSeq(s, k + 1, Len(s)) \in Seq(S)
         /\ Count(s, x) = Count(SubSeq(s, 1, k), x) + Count(SubSeq(s, k + 1, Len(s)), x)
<1> DEFINE a == SubSeq(s, 1, k)
           b == SubSeq(s, k + 1, Len(s))
<1>0. Len(s) \in Nat /\ k \in Nat /\ k <= Len(s)
  OBVIOUS
<1>1. a \in Seq(S) /\ b \in Seq(S)
  BY <1>0
<1>2. a \o b = SubSeq(s, 1, Len(s))
  <2>1. 1 \in 1..(Len(s) + 1) /\ k \in (1 - 1)..Len(s) /\ Len(s) \in k..Len(s)
    BY <1>0
  <2> QED
    BY <2>1, ConcatAdjacentSubSeq
<1> HIDE DEF a, b
<1>3. a \o b = s
  BY <1>2, SubSeqFull
<1>4. Count(a \o b, x) = Count(a, x) + Count(b, x)
  BY <1>1, CountConcat
<1> QED
  BY <1>1, <1>3, <1>4 DEF a, b

-----------------------------------------------------------------------------
(* Sequences after each other: their elements, and no others.              *)
LEMMA FlattenProperties ==
  ASSUME NEW S, NEW seqs \in Seq(Seq(S))
  PROVE  LET flat == FlattenSeq(seqs)
         IN  /\ flat \in Seq(S)
             /\ \A i \in DOMAIN seqs : \A n \in DOMAIN seqs[i] : \E k \in DOMAIN flat : flat[k] = seqs[i][n]
             /\ \A k \in DOMAIN flat : \E i \in DOMAIN seqs : \E n \in DOMAIN seqs[i] : flat[k] = seqs[i][n]
<1> DEFINE L == Len(seqs)
           flat == FlattenSeq(seqs)
           R == CHOOSE R : R = [i \in 1..L |-> IF i = 1 THEN seqs[i] ELSE R[i - 1] \o seqs[i]]
           T == Seq(S)
<1>1. flat = IF L = 0 THEN seqs ELSE R[L]
  BY DEF FlattenSeq
<1> HIDE DEF R, flat
<1>2. L \in Nat /\ DOMAIN seqs = 1..L /\ \A i \in 1..L : seqs[i] \in T
  OBVIOUS
<1>0. \A s \in Seq(S) : <<>> \o s = s
  <2> SUFFICES ASSUME NEW s \in Seq(S) PROVE <<>> \o s = s
    OBVIOUS
  <2> QED
    BY ConcatEmptySeq
<1>3. CASE L = 0
  <2>1. flat = seqs /\ DOMAIN seqs = {} /\ seqs = <<>>
    BY <1>1, <1>2, <1>3
  <2>2. <<>> \in Seq(S)
    OBVIOUS
  <2>3. DOMAIN flat = {}
    BY <2>1
  <2> QED
    BY <2>1, <2>2, <2>3 DEF flat
<1>4. CASE L # 0
  <2> HIDE DEF L
  <2>1. PICK g \in [0..L -> T] : g[0] = <<>> /\ \A i \in 1..L : g[i] = g[i - 1] \o seqs[i]
    <3> DEFINE step == [i \in 1..L |-> [s \in T |-> s \o seqs[i]]]
               init == <<>>
    <3>1. step \in [1..L -> [T -> T]]
      BY <1>2
    <3>2. init \in T
      OBVIOUS
    <3>3. PICK g : IsLoop(g, L, T, init, step)
      <4> HIDE DEF step, T, init
      <4> QED
        BY <1>2, <3>1, <3>2, LoopExists
    <3>4. g \in [0..L -> T] /\ g[0] = <<>> /\ \A i \in 1..L : g[i] = step[i][g[i - 1]]
      <4> HIDE DEF step, T
      <4> QED
        BY <3>3 DEF IsLoop
    <3>5. ASSUME NEW i \in 1..L PROVE step[i][g[i - 1]] = g[i - 1] \o seqs[i]
      <4>1. i - 1 \in 0..L
        BY <1>2
      <4>2. g[i - 1] \in T
        BY <3>4, <4>1
      <4> QED
        BY <4>2
    <3> HIDE DEF step
    <3> QED
      BY <3>4, <3>5
  <2>2. R = [i \in 1..L |-> IF i = 1 THEN seqs[i] ELSE R[i - 1] \o seqs[i]]
    <3> DEFINE h == [i \in 1..L |-> g[i]]
    <3>1. ASSUME NEW i \in 1..L PROVE h[i] = IF i = 1 THEN seqs[i] ELSE h[i - 1] \o seqs[i]
      <4>1. CASE i = 1
        <5>1. g[i] = g[i - 1] \o seqs[i] /\ seqs[i] \in T
          BY <1>2, <2>1
        <5>2. i - 1 = 0
          BY <4>1
        <5>3. g[i] = g[0] \o seqs[i] /\ seqs[i] \in T
          BY <5>1, <5>2
        <5>4. g[1] = <<>> \o seqs[1] /\ seqs[1] \in Seq(S)
          BY <2>1, <4>1, <5>3
        <5>5. <<>> \o seqs[1] = seqs[1]
          BY <1>0, <5>4
        <5> QED
          BY <4>1, <5>4, <5>5
      <4>2. CASE i # 1
        <5>1. i - 1 \in 1..L
          BY <1>2, <4>2
        <5> QED
          BY <2>1, <4>2, <5>1
      <4> QED
        BY <4>1, <4>2
    <3>2. h = [i \in 1..L |-> IF i = 1 THEN seqs[i] ELSE h[i - 1] \o seqs[i]]
      BY <3>1
    <3> HIDE DEF h
    <3> QED
      BY <3>2 DEF R
  <2>3. \A i \in 1..L : R[i] = g[i]
    <3> DEFINE good == {i \in 0..L : i = 0 \/ R[i] = g[i]}
    <3>1. 0 \in good
      BY <1>2
    <3>2. ASSUME NEW i \in 1..L, i - 1 \in good PROVE i \in good
      <4>1. i \in 0..L /\ i - 1 \in 0..L
        BY <1>2
      <4>2. CASE i = 1
        <5>1. g[i] = g[i - 1] \o seqs[i] /\ seqs[i] \in T
          BY <1>2, <2>1
        <5>2. i - 1 = 0
          BY <4>2
        <5>3. g[i] = g[0] \o seqs[i] /\ seqs[i] \in T
          BY <5>1, <5>2
        <5>4. seqs[1] \in Seq(S) /\ g[1] = <<>> \o seqs[1] /\ R[1] = seqs[1]
          BY <2>1, <2>2, <4>2, <5>3
        <5>5. <<>> \o seqs[1] = seqs[1]
          BY <1>0, <5>4
        <5> QED
          BY <4>1, <4>2, <5>4, <5>5
      <4>3. CASE i # 1
        <5>1. i - 1 # 0
          BY <4>3
        <5>2. R[i - 1] = g[i - 1]
          BY <3>2, <5>1
        <5> QED
          BY <2>1, <2>2, <4>1, <4>3, <5>2
      <4> QED
        BY <4>2, <4>3
    <3> HIDE DEF good
    <3>3. \A i \in 0..L : i \in good
      BY <1>2, <3>1, <3>2, PositionInduction
    <3>4. \A i \in 1..L : i \in 0..L /\ i # 0
      BY <1>2
    <3> QED
      BY <3>3, <3>4 DEF good
  <2> DEFINE Has(s, x) == \E k \in DOMAIN s : s[k] = x
             Fine(i) == /\ \A j \in 1..i : \A n \in DOMAIN seqs[j] : Has(g[i], seqs[j][n])
                        /\ \A k \in DOMAIN g[i] : \E j \in 1..i : \E n \in DOMAIN seqs[j] : g[i][k] = seqs[j][n]
             good == {i \in 0..L : Fine(i)}
  <2>4. 0 \in good
    <3>1. 0 \in 0..L /\ DOMAIN g[0] = {} /\ 1..0 = {}
      BY <1>2, <2>1
    <3>2. Fine(0)
      BY <3>1
    <3> HIDE DEF Fine
    <3> QED
      BY <3>1, <3>2
  <2>5. ASSUME NEW i \in 1..L, i - 1 \in good PROVE i \in good
    <3> DEFINE a == g[i - 1]
               b == seqs[i]
    <3>1. i \in 0..L /\ i - 1 \in 0..L /\ a \in Seq(S) /\ b \in Seq(S) /\ g[i] = a \o b
      <4>1. i \in 0..L /\ i - 1 \in 0..L
        BY <1>2
      <4> QED
        BY <1>2, <2>1, <4>1
    <3>2. Fine(i - 1)
      BY <2>5
    <3>3. /\ Len(a) \in Nat /\ Len(b) \in Nat /\ DOMAIN a = 1..Len(a) /\ DOMAIN b = 1..Len(b)
          /\ DOMAIN g[i] = 1..(Len(a) + Len(b))
          /\ \A k \in 1..Len(a) : g[i][k] = a[k]
          /\ \A k \in 1..Len(b) : g[i][k + Len(a)] = b[k]
      <4> HIDE DEF a, b
      <4> QED
        BY <3>1
    <3>4. /\ \A k \in DOMAIN a : k \in DOMAIN g[i] /\ g[i][k] = a[k]
          /\ \A k \in DOMAIN b : k + Len(a) \in DOMAIN g[i] /\ g[i][k + Len(a)] = b[k]
          /\ \A k \in DOMAIN g[i] : k \in DOMAIN a \/ (k - Len(a) \in DOMAIN b /\ k = (k - Len(a)) + Len(a))
      <4> HIDE DEF a, b
      <4> QED
        BY <3>3
    <3>5. ASSUME NEW j \in 1..i, NEW n \in DOMAIN seqs[j] PROVE Has(g[i], seqs[j][n])
      <4>1. CASE j = i
        BY <3>4, <4>1
      <4>2. CASE j # i
        <5>1. j \in 1..(i - 1)
          BY <4>2
        <5>2. PICK k \in DOMAIN a : a[k] = seqs[j][n]
          BY <3>2, <5>1
        <5> QED
          BY <3>4, <5>2
      <4> QED
        BY <4>1, <4>2
    <3>6. ASSUME NEW k \in DOMAIN g[i] PROVE \E j \in 1..i : \E n \in DOMAIN seqs[j] : g[i][k] = seqs[j][n]
      <4>1. CASE k \in DOMAIN a
        <5>1. PICK j \in 1..(i - 1) : \E n \in DOMAIN seqs[j] : a[k] = seqs[j][n]
          BY <3>2, <4>1
        <5>2. j \in 1..i /\ g[i][k] = a[k]
          BY <3>4, <4>1
        <5> QED
          BY <5>1, <5>2
      <4>2. CASE k \notin DOMAIN a
        <5>1. k - Len(a) \in DOMAIN b /\ g[i][k] = b[k - Len(a)]
          BY <3>4, <4>2
        <5>2. i \in 1..i
          BY <1>2
        <5> QED
          BY <5>1, <5>2
      <4> QED
        BY <4>1, <4>2
    <3>7. Fine(i)
      BY <3>5, <3>6
    <3> HIDE DEF Fine
    <3> QED
      BY <3>1, <3>7
  <2>6. Fine(L)
    <3> HIDE DEF good, Fine
    <3>1. \A i \in 0..L : i \in good
      BY <1>2, <2>4, <2>5, PositionInduction
    <3>2. L \in good
      BY <1>2, <3>1
    <3> QED
      BY <3>2 DEF good
  <2>7. flat = g[L] /\ g[L] \in Seq(S)
    <3>1. L \in 1..L /\ L \in 0..L
      BY <1>2, <1>4
    <3> QED
      BY <1>1, <1>4, <2>1, <2>3, <3>1
  <2>8. /\ \A i \in DOMAIN seqs : \A n \in DOMAIN seqs[i] : \E k \in DOMAIN flat : flat[k] = seqs[i][n]
        /\ \A k \in DOMAIN flat : \E i \in DOMAIN seqs : \E n \in DOMAIN seqs[i] : flat[k] = seqs[i][n]
    <3>1. /\ \A j \in 1..L : \A n \in DOMAIN seqs[j] : Has(g[L], seqs[j][n])
          /\ \A k \in DOMAIN g[L] : \E j \in 1..L : \E n \in DOMAIN seqs[j] : g[L][k] = seqs[j][n]
      BY <2>6
    <3> HIDE DEF good, Fine, T
    <3>2. DOMAIN seqs = 1..L
      BY <1>2
    <3>3. flat = g[L]
      BY <2>7
    <3> HIDE DEF L
    <3> QED
      BY <3>1, <3>2, <3>3
  <2>9. flat \in Seq(S)
    BY <2>7
  <2> QED
    BY <2>8, <2>9 DEF flat
<1> QED
  BY <1>3, <1>4
=============================================================================
