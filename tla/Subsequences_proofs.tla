------------------------ MODULE Subsequences_proofs ------------------------
(* What a filter keeps of a sequence, and what Tail, Append and \o do: the   *)
(* elements, that they occur once, and which of them come first.            *)
EXTENDS Subsequences, Functions, FiniteSetTheorems, TLAPS

\* Only enumerates the places of the elements it keeps in ascending order.
LEMMA RankGrows ==
  ASSUME NEW K, IsFiniteSet(K), K \subseteq Nat, NEW i \in K, NEW j \in K, i < j
  PROVE  Cardinality({m \in K : m <= i}) < Cardinality({m \in K : m <= j})
<1> DEFINE A == {m \in K : m <= i}  B == {m \in K : m <= j}
<1>1. A \subseteq B /\ j \in B /\ j \notin A
  <2>1. i \in Nat /\ j \in Nat
    OBVIOUS
  <2>2. \A m \in K : m \in Nat /\ (m <= i => m <= j)
    BY <2>1
  <2>3. j <= j /\ ~(j <= i)
    BY <2>1
  <2> QED BY <2>2, <2>3
<1>2. IsFiniteSet(B)
  <2>1. B \subseteq K
    OBVIOUS
  <2> QED BY <2>1, FS_Subset
<1> HIDE DEF A, B
<1>3. IsFiniteSet(A) /\ Cardinality(A) <= Cardinality(B) /\ Cardinality(A) # Cardinality(B)
  BY <1>1, <1>2, FS_Subset
<1>4. Cardinality(A) \in Nat /\ Cardinality(B) \in Nat
  BY <1>2, <1>3, FS_CardinalityType
<1>5. QED BY <1>3, <1>4 DEF A, B

Rising(K) == {g \in [1 .. Cardinality(K) -> K] :
                /\ \A i \in K : \E k \in 1 .. Cardinality(K) : g[k] = i
                /\ \A k, l \in 1 .. Cardinality(K) : k < l <=> g[k] < g[l]}

LEMMA NthRises ==
  ASSUME NEW K, IsFiniteSet(K), K \subseteq Nat
  PROVE  [k \in 1 .. Cardinality(K) |->
            CHOOSE i \in K : Cardinality({m \in K : m <= i}) = k] \in Rising(K)
<1> DEFINE R(i) == Cardinality({m \in K : m <= i})
           n == Cardinality(K)
           r == [i \in K |-> R(i)]
           g == [k \in 1 .. n |-> CHOOSE i \in K : R(i) = k]
<1>1. n \in Nat
  BY FS_CardinalityType
<1>2. \A i \in K : R(i) \in 1 .. n
  <2> SUFFICES ASSUME NEW i \in K PROVE R(i) \in 1 .. n
    OBVIOUS
  <2> DEFINE A == {m \in K : m <= i}
  <2>1. A \subseteq K /\ i \in A
    OBVIOUS
  <2>2. IsFiniteSet(A) /\ Cardinality(A) <= n
    BY <2>1, FS_Subset
  <2>3. Cardinality(A) \in Nat /\ Cardinality(A) # 0
    BY <2>1, <2>2, FS_CardinalityType, FS_EmptySet
  <2> QED BY <1>1, <2>2, <2>3
<1>3. \A i, j \in K : i < j => R(i) < R(j)
  BY RankGrows
<1> HIDE DEF R
<1>4. r \in Injection(K, 1 .. n)
  <2>1. r \in [K -> 1 .. n]
    BY <1>2
  <2>2. \A i, j \in K : r[i] = r[j] => i = j
    <3> SUFFICES ASSUME NEW i \in K, NEW j \in K, r[i] = r[j] PROVE i = j
      OBVIOUS
    <3>1. R(i) = R(j) /\ i \in Nat /\ j \in Nat /\ R(i) \in Nat
      BY <1>1, <1>2
    <3> QED BY <1>3, <3>1
  <2> QED BY <2>1, <2>2 DEF Injection, IsInjective
<1>5. Cardinality(1 .. n) = n /\ IsFiniteSet(1 .. n)
  BY <1>1, FS_Interval
<1>6. r \in Surjection(K, 1 .. n)
  BY <1>4, <1>5, FS_Injection
<1>7. \A k \in 1 .. n : g[k] \in K /\ R(g[k]) = k
  <2> SUFFICES ASSUME NEW k \in 1 .. n PROVE g[k] \in K /\ R(g[k]) = k
    OBVIOUS
  <2>1. \E i \in K : R(i) = k
    BY <1>6 DEF Surjection
  <2> QED BY <2>1
<1> HIDE DEF g
<1>8. \A i \in K : g[R(i)] = i
  <2> SUFFICES ASSUME NEW i \in K PROVE g[R(i)] = i
    OBVIOUS
  <2> DEFINE j == g[R(i)]
  <2>1. j \in K /\ R(j) = R(i) /\ R(i) \in Nat
    BY <1>1, <1>2, <1>7
  <2>2. i \in Nat /\ j \in Nat
    BY <2>1
  <2> HIDE DEF j
  <2>3. ~(i < j) /\ ~(j < i)
    BY <1>3, <2>1
  <2>4. i = j
    BY <2>2, <2>3
  <2> QED BY <2>4 DEF j
<1>9. g \in [1 .. n -> K]
  BY <1>7 DEF g
<1>10. \A k, l \in 1 .. n : k < l <=> g[k] < g[l]
  <2> SUFFICES ASSUME NEW k \in 1 .. n, NEW l \in 1 .. n PROVE k < l <=> g[k] < g[l]
    OBVIOUS
  <2>0. g[k] \in K /\ R(g[k]) = k /\ g[l] \in K /\ R(g[l]) = l
    BY <1>7
  <2>1. /\ g[k] \in K /\ R(g[k]) = k /\ g[l] \in K /\ R(g[l]) = l
        /\ g[k] \in Nat /\ g[l] \in Nat /\ k \in Nat /\ l \in Nat
    <3>1. g[k] \in Nat /\ g[l] \in Nat
      BY <2>0
    <3>2. k \in Nat /\ l \in Nat
      BY <1>1
    <3> QED BY <2>0, <3>1, <3>2
  <2>2. /\ g[k] < g[l] => k < l
        /\ g[l] < g[k] => l < k
        /\ g[k] = g[l] => k = l
    BY <1>3, <2>1
  <2> QED BY <2>1, <2>2
<1>11. g \in Rising(K)
  BY <1>2, <1>8, <1>9, <1>10 DEF Rising
<1> QED BY <1>11 DEF g, R

\* Every y in s has an x before it.
Before(s, x, y) == \A j \in DOMAIN s : s[j] = y => \E i \in 1 .. j - 1 : s[i] = x

LEMMA AtPlaces ==
  ASSUME NEW X, NEW s \in Seq(X), NEW K \in SUBSET DOMAIN s
  PROVE  /\ IsFiniteSet(K) /\ Cardinality(K) \in Nat /\ Cardinality(K) <= Len(s)
         /\ \E g \in Rising(K) : At(s, K) = [k \in 1 .. Cardinality(K) |-> s[g[k]]]
<1> DEFINE g == [k \in 1 .. Cardinality(K) |->
                   CHOOSE i \in K : Cardinality({m \in K : m <= i}) = k]
           m == Len(s)
<1>1. K \subseteq 1 .. m /\ K \subseteq Nat /\ m \in Nat
  OBVIOUS
<1> HIDE DEF m
<1>2. IsFiniteSet(1 .. m) /\ Cardinality(1 .. m) = m
  BY <1>1, FS_Interval
<1>3. IsFiniteSet(K) /\ Cardinality(K) <= m
  BY <1>1, <1>2, FS_Subset
<1>4. g \in Rising(K)
  BY <1>1, <1>3, NthRises
<1>5. At(s, K) = [k \in 1 .. Cardinality(K) |-> s[g[k]]]
  BY DEF At
<1> QED BY <1>3, <1>4, <1>5, FS_CardinalityType DEF m

\* At(s, K) has the elements at those places, once if s has them once, in order.
LEMMA AtKeeps ==
  ASSUME NEW X, NEW s \in Seq(X), NEW K \in SUBSET DOMAIN s
  PROVE  /\ At(s, K) \in Seq(X) /\ Len(At(s, K)) <= Len(s)
         /\ Range(At(s, K)) = {s[i] : i \in K}
         /\ IsInjective(s) => IsInjective(At(s, K))
         /\ \A x, y : (\A i \in DOMAIN s : s[i] = x => i \in K) /\ Before(s, x, y)
                        => Before(At(s, K), x, y)
<1> DEFINE n == Cardinality(K)
           t == At(s, K)
<1>1. PICK g \in Rising(K) : t = [k \in 1 .. n |-> s[g[k]]]
  BY AtPlaces
<1>2. n \in Nat /\ n <= Len(s)
  BY AtPlaces
<1>3. \A k \in 1 .. n : g[k] \in K /\ g[k] \in 1 .. Len(s)
  BY DEF Rising
<1>4. /\ \A i \in K : \E k \in 1 .. n : g[k] = i
      /\ \A k, l \in 1 .. n : k < l <=> g[k] < g[l]
  BY DEF Rising
<1> HIDE DEF n, t
<1>5. DOMAIN t = 1 .. n /\ \A k \in 1 .. n : t[k] = s[g[k]]
  BY <1>1
<1>6. t \in Seq(X)
  <2>1. \A k \in 1 .. n : s[g[k]] \in X
    BY <1>3
  <2> QED BY <1>1, <1>2, <2>1
<1>7. Range(t) = {s[i] : i \in K}
  BY <1>3, <1>4, <1>5 DEF Range
<1>8. ASSUME IsInjective(s) PROVE IsInjective(t)
  <2> SUFFICES ASSUME NEW k \in 1 .. n, NEW l \in 1 .. n, t[k] = t[l], k < l PROVE FALSE
    BY <1>2, <1>5 DEF IsInjective
  <2>1. g[k] = g[l] /\ g[k] < g[l] /\ g[k] \in Nat
    BY <1>3, <1>4, <1>5, <1>8 DEF IsInjective
  <2> QED BY <2>1
<1>9. ASSUME NEW x, NEW y, \A i \in DOMAIN s : s[i] = x => i \in K, Before(s, x, y)
      PROVE  Before(t, x, y)
  <2> SUFFICES ASSUME NEW l \in 1 .. n, t[l] = y PROVE \E k \in 1 .. l - 1 : t[k] = x
    BY <1>5 DEF Before
  <2>1. PICK i \in 1 .. g[l] - 1 : s[i] = x
    BY <1>3, <1>5, <1>9 DEF Before
  <2>2. i \in DOMAIN s /\ i < g[l]
    BY <1>3, <2>1
  <2>3. PICK k \in 1 .. n : g[k] = i
    BY <1>4, <1>9, <2>1, <2>2
  <2>4. k < l
    BY <1>4, <2>2, <2>3
  <2> QED BY <1>2, <1>5, <2>1, <2>3, <2>4
<1>10. Len(t) <= Len(s)
  BY <1>1, <1>2
<1> QED BY <1>6, <1>7, <1>8, <1>9, <1>10 DEF t

\* Only(s, S) has the elements of s in S, once if s has them once, in their order.
LEMMA OnlyKeeps ==
  ASSUME NEW X, NEW s \in Seq(X), NEW S
  PROVE  /\ Only(s, S) \in Seq(X) /\ Len(Only(s, S)) <= Len(s)
         /\ Range(Only(s, S)) = Range(s) \cap S
         /\ IsInjective(s) => IsInjective(Only(s, S))
         /\ \A x \in S : \A y : Before(s, x, y) => Before(Only(s, S), x, y)
<1> DEFINE K == {i \in DOMAIN s : s[i] \in S}
<1>1. K \in SUBSET DOMAIN s /\ Only(s, S) = At(s, K)
  BY DEF Only
<1>2. {s[i] : i \in K} = Range(s) \cap S
  BY DEF Range
<1>3. \A x \in S : \A i \in DOMAIN s : s[i] = x => i \in K
  OBVIOUS
<1> HIDE DEF K
<1> QED BY <1>1, <1>2, <1>3, AtKeeps

\* Nothing is in the empty sequence.
LEMMA EmptyKeeps ==
  ASSUME NEW X
  PROVE  /\ << >> \in Seq(X) /\ Range(<< >>) = {} /\ IsInjective(<< >>)
         /\ \A x, y : Before(<< >>, x, y)
BY DEF Range, IsInjective, Before

\* What is left of a sequence without its head.
LEMMA TailKeeps ==
  ASSUME NEW X, NEW s \in Seq(X), s # << >>
  PROVE  /\ Head(s) \in X /\ Head(s) \in Range(s) /\ Tail(s) \in Seq(X)
         /\ Range(s) = Range(Tail(s)) \cup {Head(s)}
         /\ IsInjective(s) => IsInjective(Tail(s)) /\ Head(s) \notin Range(Tail(s))
         /\ \A x, y : Before(s, x, y) => Head(s) # y /\ (Head(s) # x => Before(Tail(s), x, y))
<1>1. /\ Len(s) \in Nat \ {0} /\ DOMAIN s = 1 .. Len(s) /\ Head(s) = s[1] /\ Head(s) \in X
      /\ DOMAIN Tail(s) = 1 .. Len(s) - 1 /\ Tail(s) \in Seq(X)
      /\ \A i \in 1 .. Len(s) - 1 : Tail(s)[i] = s[i + 1]
  OBVIOUS
<1>2. Head(s) \in Range(s)
  BY <1>1 DEF Range
<1>3. Range(s) = Range(Tail(s)) \cup {Head(s)}
  <2>1. ASSUME NEW i \in 1 .. Len(s) PROVE s[i] \in Range(Tail(s)) \cup {Head(s)}
    <3>1. CASE i = 1
      BY <1>1, <3>1
    <3>2. CASE i # 1
      <4>1. i - 1 \in 1 .. Len(s) - 1 /\ (i - 1) + 1 = i
        BY <1>1, <3>2
      <4>2. s[i] = Tail(s)[i - 1]
        BY <1>1, <4>1
      <4> QED BY <1>1, <4>1, <4>2 DEF Range
    <3> QED BY <3>1, <3>2
  <2>2. ASSUME NEW i \in 1 .. Len(s) - 1 PROVE Tail(s)[i] \in Range(s)
    <3>1. i + 1 \in 1 .. Len(s) /\ Tail(s)[i] = s[i + 1]
      BY <1>1
    <3> QED BY <1>1, <3>1 DEF Range
  <2>3. Range(s) \subseteq Range(Tail(s)) \cup {Head(s)}
    BY <1>1, <2>1 DEF Range
  <2>4. Range(Tail(s)) \subseteq Range(s)
    BY <1>1, <2>2 DEF Range
  <2> QED BY <1>2, <2>3, <2>4
<1>4. ASSUME IsInjective(s) PROVE IsInjective(Tail(s)) /\ Head(s) \notin Range(Tail(s))
  <2>1. ASSUME NEW i \in 1 .. Len(s) - 1, NEW j \in 1 .. Len(s) - 1, Tail(s)[i] = Tail(s)[j]
        PROVE  i = j
    <3>1. s[i + 1] = s[j + 1] /\ i + 1 \in DOMAIN s /\ j + 1 \in DOMAIN s
      BY <1>1, <2>1
    <3>2. i + 1 = j + 1
      BY <1>4, <3>1 DEF IsInjective
    <3> QED BY <3>2
  <2>2. ASSUME NEW i \in 1 .. Len(s) - 1, Tail(s)[i] = Head(s) PROVE FALSE
    <3>1. s[i + 1] = s[1] /\ i + 1 \in DOMAIN s /\ 1 \in DOMAIN s
      BY <1>1, <2>2
    <3>2. i + 1 = 1
      BY <1>4, <3>1 DEF IsInjective
    <3> QED BY <3>2
  <2> QED BY <1>1, <2>1, <2>2 DEF IsInjective, Range
<1>5. ASSUME NEW x, NEW y, Before(s, x, y)
      PROVE  Head(s) # y /\ (Head(s) # x => Before(Tail(s), x, y))
  <2>1. Head(s) # y
    BY <1>1, <1>5 DEF Before
  <2>2. ASSUME Head(s) # x, NEW j \in 1 .. Len(s) - 1, Tail(s)[j] = y
        PROVE  \E i \in 1 .. j - 1 : Tail(s)[i] = x
    <3>1. s[j + 1] = y /\ j + 1 \in DOMAIN s
      BY <1>1, <2>2
    <3>2. PICK i \in 1 .. j : s[i] = x
      BY <1>5, <3>1 DEF Before
    <3>3. i - 1 \in 1 .. j - 1 /\ Tail(s)[i - 1] = x
      BY <1>1, <2>2, <3>2
    <3> QED BY <3>3
  <2> QED BY <1>1, <2>1, <2>2 DEF Before
<1> QED BY <1>1, <1>2, <1>3, <1>4, <1>5

\* What Append and concatenation add.
LEMMA AppendKeeps ==
  ASSUME NEW X, NEW s \in Seq(X), NEW x \in X
  PROVE  /\ Append(s, x) \in Seq(X) /\ Range(Append(s, x)) = Range(s) \cup {x}
         /\ IsInjective(s) /\ x \notin Range(s) => IsInjective(Append(s, x))
<1>1. /\ Len(s) \in Nat /\ DOMAIN s = 1 .. Len(s) /\ Append(s, x) \in Seq(X)
      /\ DOMAIN Append(s, x) = 1 .. Len(s) + 1 /\ Append(s, x)[Len(s) + 1] = x
      /\ \A i \in 1 .. Len(s) : Append(s, x)[i] = s[i]
  OBVIOUS
<1>2. \A i \in 1 .. Len(s) + 1 : i \in 1 .. Len(s) \/ i = Len(s) + 1
  BY <1>1
<1>3. Range(Append(s, x)) = Range(s) \cup {x}
  BY <1>1, <1>2 DEF Range
<1>4. ASSUME IsInjective(s), x \notin Range(s) PROVE IsInjective(Append(s, x))
  BY <1>1, <1>2, <1>4 DEF IsInjective, Range
<1> QED BY <1>1, <1>3, <1>4

LEMMA ConcatKeeps ==
  ASSUME NEW X, NEW s \in Seq(X), NEW t \in Seq(X)
  PROVE  /\ s \o t \in Seq(X) /\ Range(s \o t) = Range(s) \cup Range(t)
         /\ IsInjective(s) /\ IsInjective(t) /\ Range(s) \cap Range(t) = {}
            => IsInjective(s \o t)
         /\ \A x, y : Before(s, x, y) /\ Before(t, x, y) => Before(s \o t, x, y)
<1> DEFINE u == s \o t
<1>1. /\ Len(s) \in Nat /\ Len(t) \in Nat /\ u \in Seq(X)
      /\ DOMAIN s = 1 .. Len(s) /\ DOMAIN t = 1 .. Len(t) /\ DOMAIN u = 1 .. Len(s) + Len(t)
      /\ \A i \in 1 .. Len(s) : u[i] = s[i]
      /\ \A i \in 1 .. Len(t) : u[Len(s) + i] = t[i]
  OBVIOUS
<1> HIDE DEF u
<1>2. \A i \in DOMAIN u : \/ i \in DOMAIN s /\ u[i] = s[i]
                          \/ i - Len(s) \in DOMAIN t /\ i > Len(s) /\ u[i] = t[i - Len(s)]
  <2> SUFFICES ASSUME NEW i \in DOMAIN u, i \notin DOMAIN s
               PROVE  i - Len(s) \in DOMAIN t /\ i > Len(s) /\ u[i] = t[i - Len(s)]
    BY <1>1
  <2>1. i > Len(s) /\ i - Len(s) \in 1 .. Len(t) /\ i = Len(s) + (i - Len(s))
    BY <1>1
  <2> QED BY <1>1, <2>1
<1>3. Range(u) = Range(s) \cup Range(t)
  <2>1. Range(u) \subseteq Range(s) \cup Range(t)
    BY <1>2 DEF Range
  <2>2. Range(s) \subseteq Range(u)
    BY <1>1 DEF Range
  <2>3. \A i \in 1 .. Len(t) : Len(s) + i \in DOMAIN u
    BY <1>1
  <2>4. Range(t) \subseteq Range(u)
    BY <1>1, <2>3 DEF Range
  <2> QED BY <2>1, <2>2, <2>4
<1>4. ASSUME IsInjective(s), IsInjective(t), Range(s) \cap Range(t) = {} PROVE IsInjective(u)
  <2> SUFFICES ASSUME NEW i \in DOMAIN u, NEW j \in DOMAIN u, u[i] = u[j] PROVE i = j
    BY DEF IsInjective
  <2>1. CASE i \in DOMAIN s /\ j \in DOMAIN s
    BY <1>1, <1>4, <2>1 DEF IsInjective
  <2>2. CASE i \notin DOMAIN s /\ j \notin DOMAIN s
    <3>1. i - Len(s) = j - Len(s)
      BY <1>2, <1>4, <2>2 DEF IsInjective
    <3> QED BY <1>1, <3>1
  <2>3. CASE i \in DOMAIN s /\ j \notin DOMAIN s
    BY <1>2, <1>4, <2>3 DEF Range
  <2>4. CASE i \notin DOMAIN s /\ j \in DOMAIN s
    BY <1>2, <1>4, <2>4 DEF Range
  <2> QED BY <2>1, <2>2, <2>3, <2>4
<1>5. ASSUME NEW x, NEW y, Before(s, x, y), Before(t, x, y) PROVE Before(u, x, y)
  <2> SUFFICES ASSUME NEW j \in DOMAIN u, u[j] = y PROVE \E i \in 1 .. j - 1 : u[i] = x
    BY DEF Before
  <2>1. CASE j \in DOMAIN s
    <3>1. PICK i \in 1 .. j - 1 : s[i] = x
      BY <1>1, <1>5, <2>1 DEF Before
    <3>2. i \in 1 .. Len(s)
      BY <1>1, <2>1
    <3> QED BY <1>1, <3>1, <3>2
  <2>2. CASE j \notin DOMAIN s
    <3>1. j - Len(s) \in DOMAIN t /\ j > Len(s) /\ t[j - Len(s)] = y
      BY <1>2, <2>2
    <3>2. PICK i \in 1 .. (j - Len(s)) - 1 : t[i] = x
      BY <1>5, <3>1 DEF Before
    <3>3. i \in 1 .. Len(t) /\ Len(s) + i \in 1 .. j - 1
      BY <1>1, <3>1, <3>2
    <3> QED BY <1>1, <3>2, <3>3
  <2> QED BY <2>1, <2>2
<1> QED BY <1>1, <1>3, <1>4, <1>5 DEF u
=============================================================================
