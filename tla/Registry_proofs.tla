--------------------------- MODULE Registry_proofs ---------------------------
(***************************************************************************)
(* Proofs about the registration of objects: what sorting by partial       *)
(* orders does with any events, and that the registry loses none of any    *)
(* objects, registers each once, tells each listener of each once, and     *)
(* leaves nothing behind of an object that was unregistered.               *)
(***************************************************************************)
EXTENDS Registry, MCRegistrationOrder, Subsequences_proofs, WellFoundedInduction

-----------------------------------------------------------------------------
(* Numbers and functions                                                   *)

\* Sets of natural numbers have a smallest element.
LEMMA Smallest ==
  ASSUME NEW S \in SUBSET Nat, S # {}
  PROVE  Min(S) \in S /\ \A k \in S : Min(S) <= k
<1> DEFINE Less == {p \in Nat \X Nat : p[1] < p[2]}
<1>1. IsWellFoundedOn(Less, Nat)
  BY NatLessThanWellFounded DEF OpToRel
<1>2. PICK m \in S : \A k \in S : ~ (<<k, m>> \in Less)
  BY <1>1, WFMin
<1>3. \A k \in S : k \in Nat /\ m \in Nat /\ ~ (k < m)
  BY <1>2
<1>4. \A k \in S : m <= k
  BY <1>3
<1> QED BY <1>4 DEF Min

\* Induction, for a set of numbers.
LEMMA AllNumbers ==
  ASSUME NEW P, 0 \in P, \A n \in Nat : n \in P => n + 1 \in P
  PROVE  Nat \subseteq P
<1> SUFFICES ASSUME NEW n \in Nat \ P PROVE FALSE
  OBVIOUS
<1> DEFINE m == Min(Nat \ P)
<1>1. m \in Nat \ P /\ \A k \in Nat \ P : m <= k
  BY Smallest
<1> HIDE DEF m
<1>2. m # 0 /\ m - 1 \in Nat
  BY <1>1
<1>3. m - 1 \in P
  BY <1>1, <1>2
<1>4. (m - 1) + 1 = m
  BY <1>1
<1> QED BY <1>1, <1>2, <1>3, <1>4

\* d is defined by tail recursion: base where it stops, else the value at next.
Recursive(d, S, stop, base, next) ==
  /\ d = [x \in S |-> d[x]]
  /\ \A x \in S : d[x] = IF x \in stop THEN base[x] ELSE d[next[x]]

Solvable(S, stop, base, next) == \E d : Recursive(d, S, stop, base, next)

\* Such functions exist, whether the recursion ends or not.
LEMMA TailRecursion ==
  ASSUME NEW S, NEW stop, NEW base, NEW next, \A x \in S \ stop : next[x] \in S
  PROVE  Solvable(S, stop, base, next)
<1> DEFINE Closed(C) == \A z \in C \ stop : next[z] \in C
           R(x) == {y \in S \cap stop : \A C \in SUBSET S : x \in C /\ Closed(C) => y \in C}
           d == [x \in S |-> base[CHOOSE y \in R(x) : TRUE]]
<1>1. ASSUME NEW x \in S, x \in stop PROVE R(x) = {x}
  <2>1. {x} \in SUBSET S /\ x \in {x} /\ Closed({x})
    BY <1>1
  <2>2. x \in R(x)
    BY <1>1
  <2> QED BY <2>1, <2>2
<1>2. ASSUME NEW x \in S, x \notin stop PROVE R(x) = R(next[x])
  <2>1. R(next[x]) \subseteq R(x)
    BY <1>2
  <2>2. ASSUME NEW y \in R(x), NEW C \in SUBSET S, next[x] \in C, Closed(C) PROVE y \in C
    <3>1. Closed(C \cup {x}) /\ C \cup {x} \in SUBSET S /\ x \in C \cup {x}
      BY <2>2
    <3>2. y \in C \cup {x} /\ y \in stop
      BY <3>1
    <3> QED BY <1>2, <3>2
  <2>3. R(x) \subseteq R(next[x])
    BY <2>2
  <2> QED BY <2>1, <2>3
<1> HIDE DEF R
<1>3. ASSUME NEW x \in S
      PROVE  d[x] = IF x \in stop THEN base[x] ELSE d[next[x]]
  <2>1. CASE x \in stop
    BY <1>1, <2>1
  <2>2. CASE x \notin stop
    BY <1>2, <2>2
  <2> QED BY <2>1, <2>2
<1>4. d = [x \in S |-> d[x]]
  OBVIOUS
<1> HIDE DEF d
<1> QED BY <1>3, <1>4 DEF Recursive, Solvable

-----------------------------------------------------------------------------
(* sort_registration_events                                                *)

\* What has to come right before an event is an event.
LEMMA PredecessorsAreIndices ==
  ASSUME NEW X, NEW events \in Seq(X), NEW Y, NEW orders \in SUBSET Seq(Y)
  PROVE  \A ix : Predecessors(events, orders, ix) \subseteq Indices(events)
<1> SUFFICES ASSUME NEW ix, NEW order \in orders
             PROVE  LET idx == EventIndices(events, order)
                    IN {idx[k] : k \in {m \in 1..Len(idx) - 1 : idx[m + 1] = ix}} \subseteq Indices(events)
  BY DEF Predecessors
<1> DEFINE objs == {events[j].obj : j \in Indices(events)}
           named == Only(order, objs)
           idx == [k \in 1..Len(named) |-> Min({j \in Indices(events) : events[j].obj = named[k]})]
<1>1. named \in Seq(Y) /\ Range(named) = Range(order) \cap objs
  BY OnlyKeeps
<1>2. EventIndices(events, order) = idx
  BY DEF EventIndices
<1>3. Indices(events) \subseteq Nat
  BY DEF Indices
<1>4. ASSUME NEW k \in 1..Len(named) PROVE idx[k] \in Indices(events)
  <2>1. named[k] \in Range(named)
    <3> HIDE DEF named
    <3> QED BY <1>1 DEF Range
  <2>2. named[k] \in objs
    BY <1>1, <2>1
  <2> DEFINE T == {j \in Indices(events) : events[j].obj = named[k]}
  <2>3. T # {} /\ T \in SUBSET Nat
    BY <1>3, <2>2
  <2>4. Min(T) \in T
    BY <2>3, Smallest
  <2> HIDE DEF named
  <2> QED BY <2>4
<1> DEFINE n == Len(named)
<1>5. n \in Nat
  BY <1>1
<1>6. Len(idx) = n
  BY <1>5
<1>7. \A k \in 1..n - 1 : idx[k] \in Indices(events)
  <2>1. \A k \in 1..n - 1 : k \in 1..n
    BY <1>5
  <2> HIDE DEF idx
  <2> QED BY <2>1, <1>4
<1> HIDE DEF idx, n
<1> QED BY <1>2, <1>6, <1>7

\* j has to come before k, or is k.
LEMMA RequiredIsTransitive ==
  ASSUME NEW events, NEW orders, NEW ix \in Indices(events), NEW j \in Indices(events),
         NEW k \in Indices(events),
         <<j, k>> \in Required(events, orders) \/ j = k,
         ix \in Predecessors(events, orders, j)
  PROVE  <<ix, k>> \in Required(events, orders)
BY DEF Required

Missing(events, orders, appended, path) ==
  Predecessors(events, orders, Last(path)) \ (appended \cup ToSet(path))

\* What Descend returns is not appended, is required before the first event not
\* appended, if it is not that itself, and before all its predecessors that are not
\* appended.
LEMMA DescendEnds ==
  ASSUME NEW X, NEW events \in Seq(X), NEW Y, NEW orders \in SUBSET Seq(Y),
         NEW appended, Indices(events) \ appended # {}
  PROVE  LET x == Descend(events, orders, appended)
             first == Min(Indices(events) \ appended)
         IN  /\ x \in Indices(events) \ appended
             /\ \A y \in {first} \cup (Predecessors(events, orders, x) \ appended) :
                    x = y \/ <<x, y>> \in Required(events, orders)
<1> DEFINE N == Indices(events)
           S == Seq(N)
           P(ix) == Predecessors(events, orders, ix)
           M(p) == Missing(events, orders, appended, p)
           first == Min(N \ appended)
           F(d) == [path \in S |-> 
             LET missing == Predecessors(events, orders, Last(path))
                                \ (appended \cup ToSet(path))
            IN  IF missing = {} THEN Last(path)
                ELSE d[Append(path, Min(missing))]]
           down == CHOOSE d : d = F(d)
           G(x) == /\ x \in N \ appended
                   /\ \A y \in {first} \cup (P(x) \ appended) :
                        x = y \/ <<x, y>> \in Required(events, orders)
<1>1. Descend(events, orders, appended) = down[<<first>>]
  BY DEF Descend
<1>2. \A p \in S : M(p) \in SUBSET N
  BY PredecessorsAreIndices DEF Missing
<1>3. \A T \in SUBSET N : T # {} => Min(T) \in T
  <2>1. N \in SUBSET Nat
    BY DEF Indices
  <2> QED BY <2>1, Smallest
<1>4. \A p \in S : M(p) # {} => Min(M(p)) \in M(p) /\ Append(p, Min(M(p))) \in S
  BY <1>2, <1>3, AppendKeeps
<1>5. \E d : d = F(d)
  <2> DEFINE stop == {p \in S : M(p) = {}}
             base == [p \in S |-> Last(p)]
             next == [p \in S |-> Append(p, Min(M(p)))]
  <2>1. \A p \in S \ stop : next[p] \in S
    BY <1>4
  <2>2. Solvable(S, stop, base, next)
    <3> HIDE DEF S, stop, base, next
    <3> QED BY <2>1, TailRecursion
  <2> PICK d : Recursive(d, S, stop, base, next)
    BY <2>2 DEF Solvable
  <2>3. \A p \in S : d[p] = IF M(p) = {} THEN Last(p) ELSE d[Append(p, Min(M(p)))]
    BY DEF Recursive
  <2>4. d = [p \in S |-> IF M(p) = {} THEN Last(p) ELSE d[Append(p, Min(M(p)))]]
    <3> HIDE DEF S, stop, base, next, M
    <3> QED BY <2>3 DEF Recursive
  <2>5. d = F(d)
    <3> HIDE DEF S
    <3> QED BY <2>4 DEF Missing
  <2> QED BY <2>5
<1>6. \A p \in S : down[p] = IF M(p) = {} THEN Last(p) ELSE down[Append(p, Min(M(p)))]
  <2>1. down = F(down)
    <3> HIDE DEF F
    <3> QED BY <1>5
  <2> HIDE DEF down, S
  <2> QED BY <2>1 DEF Missing
<1> DEFINE Good(p) == /\ p \in S /\ p # << >> /\ IsInjective(p)
                      /\ Range(p) \cap appended = {}
                      /\ first \in Range(p)
                      /\ \A y \in Range(p) : Last(p) = y \/ <<Last(p), y>> \in Required(events, orders)
<1>7. ASSUME NEW p, Good(p), M(p) = {} PROVE G(Last(p))
  <2>1. Last(p) \in Range(p) /\ Range(p) \subseteq N
    BY <1>7 DEF Last, Range
  <2>2. P(Last(p)) \ appended \subseteq Range(p)
    BY <1>7 DEF Missing, ToSet, Range
  <2> HIDE DEF N, P, first
  <2> QED BY <1>7, <2>1, <2>2
<1>8. ASSUME NEW p, Good(p), M(p) # {} PROVE Good(Append(p, Min(M(p))))
  <2> DEFINE m == Min(M(p))
             q == Append(p, m)
  <2>1. m \in P(Last(p)) /\ m \notin appended /\ m \notin Range(p) /\ m \in N /\ q \in S
    BY <1>2, <1>4, <1>7, <1>8 DEF Missing, ToSet, Range
  <2>2. Last(p) \in Range(p) /\ Range(p) \subseteq N
    BY <1>8 DEF Last, Range
  <2> HIDE DEF m
  <2>3. Range(q) = Range(p) \cup {m} /\ IsInjective(q)
    BY <1>8, <2>1, AppendKeeps
  <2>4. Last(q) = m /\ q # << >>
    BY <1>8, <2>1 DEF Last
  <2>5. \A y \in Range(p) : <<m, y>> \in Required(events, orders)
    <3> HIDE DEF q
    <3> QED BY <1>8, <2>1, <2>2, RequiredIsTransitive
  <2> HIDE DEF q, N, first, S
  <2>6. Good(q)
    BY <1>8, <2>1, <2>3, <2>4, <2>5
  <2> QED BY <2>6 DEF q, m
\* the induction: over the number of elements that are not on the path
<1>9. \A p : Good(p) => Len(p) \in Nat /\ Len(p) <= Len(events)
  <2> SUFFICES ASSUME NEW p, Good(p) PROVE Len(p) \in Nat /\ Len(p) <= Len(events)
    OBVIOUS
  <2>1. p \in Injection(1..Len(p), N)
    BY DEF Injection, IsInjective
  <2> DEFINE n == Len(p)  e == Len(events)
  <2>2. n \in Nat /\ e \in Nat
    OBVIOUS
  <2> HIDE DEF n, e
  <2>3. Cardinality(1..n) = n /\ IsFiniteSet(1..n)
    BY <2>2, FS_Interval
  <2>4. Cardinality(1..e) = e /\ IsFiniteSet(1..e)
    BY <2>2, FS_Interval
  <2>5. Cardinality(1..n) <= Cardinality(1..e)
    BY <2>1, <2>3, <2>4, FS_Injection DEF Indices, n, e
  <2> QED BY <2>2, <2>3, <2>4, <2>5 DEF n, e
<1>10. \A p : Good(p) => G(down[p])
  <2> DEFINE e == Len(events)
             Q == {k \in Nat : \A p : Good(p) /\ Len(p) + k = e => G(down[p])}
  <2>0. e \in Nat
    OBVIOUS
  <2>1. 0 \in Q
    <3> SUFFICES ASSUME NEW p, Good(p), Len(p) + 0 = e PROVE G(down[p])
      BY DEF Q
    <3>1. M(p) = {}
      <4> SUFFICES ASSUME M(p) # {} PROVE FALSE
        OBVIOUS
      <4> DEFINE q == Append(p, Min(M(p)))
      <4>1. Good(q)
        BY <1>8
      <4>2. Len(q) = Len(p) + 1 /\ Len(p) \in Nat
        <5> HIDE DEF M
        <5> QED OBVIOUS
      <4> HIDE DEF q
      <4>3. Len(q) <= e /\ Len(p) = e
        <5> HIDE DEF Good
        <5> QED BY <1>9, <2>0, <4>1, <4>2
      <4> QED BY <2>0, <4>2, <4>3
    <3>2. down[p] = Last(p)
      <4> HIDE DEF down, M
      <4> QED BY <1>6, <3>1
    <3> HIDE DEF down, Good, M, G
    <3> QED BY <1>7, <3>1, <3>2
  <2>2. ASSUME NEW k \in Nat, k \in Q PROVE k + 1 \in Q
    <3> SUFFICES ASSUME NEW p, Good(p), Len(p) + (k + 1) = e PROVE G(down[p])
      <4>1. k + 1 \in Nat
        OBVIOUS
      <4> HIDE DEF Good, G, down, e
      <4> QED BY <4>1 DEF Q
    <3> HIDE DEF down
    <3>0. p \in S /\ Len(p) \in Nat
      OBVIOUS
    <3>1. CASE M(p) = {}
      <4>2. down[p] = Last(p)
        <5> HIDE DEF M
        <5> QED BY <1>6, <3>1
      <4> HIDE DEF Good, M, G
      <4> QED BY <1>7, <3>1, <4>2
    <3>2. CASE M(p) # {}
      <4> DEFINE q == Append(p, Min(M(p)))
      <4>1. Good(q)
        BY <1>8, <3>2
      <4>2. Len(q) = Len(p) + 1
        <5> HIDE DEF M
        <5> QED BY <3>0
      <4>3. down[p] = down[q]
        <5> HIDE DEF M
        <5> QED BY <1>6, <3>2
      <4>4. Len(q) + k = e
        BY <3>0, <4>2
      <4> HIDE DEF q, G, Good
      <4>5. G(down[q])
        BY <2>2, <4>1, <4>4
      <4> QED BY <4>3, <4>5
    <3> QED BY <3>1, <3>2
  <2>3. Nat \subseteq Q
    <3> HIDE DEF Q
    <3> QED BY <2>1, <2>2, AllNumbers
  <2> SUFFICES ASSUME NEW p, Good(p) PROVE G(down[p])
    OBVIOUS
  <2> HIDE DEF down, Good, G
  <2>4. e - Len(p) \in Nat /\ Len(p) + (e - Len(p)) = e
    BY <1>9, <2>0
  <2> QED BY <2>3, <2>4
<1>11. Good(<<first>>)
  <2>1. first \in N \ appended
    BY <1>3
  <2> HIDE DEF first
  <2>2. Range(<<first>>) = {first} /\ IsInjective(<<first>>) /\ Last(<<first>>) = first
    BY DEF Range, IsInjective, Last
  <2> HIDE DEF N
  <2>3. <<first>> \in S /\ <<first>> # << >>
    BY <2>1
  <2> HIDE DEF S
  <2> QED BY <2>1, <2>2, <2>3
<1>12. G(down[<<first>>])
  <2> HIDE DEF Good, G, down
  <2> QED BY <1>10, <1>11
<1> QED BY <1>1, <1>12

\* An injective sequence of indices that lacks none, for its length.
LEMMA InjectiveIsOnto ==
  ASSUME NEW n \in Nat, NEW s \in Seq(1..n), IsInjective(s)
  PROVE  /\ Len(s) <= n
         /\ Len(s) = n => Range(s) = 1..n
         /\ Len(s) < n => (1..n) \ Range(s) # {}
<1> DEFINE k == Len(s)  N == 1..n
<1>1. k \in Nat /\ s \in [1..k -> N]
  OBVIOUS
<1> HIDE DEF k
<1>2. s \in Injection(1..k, N)
  BY <1>1 DEF Injection, IsInjective
<1>3. /\ Cardinality(1..k) = k /\ IsFiniteSet(1..k)
      /\ Cardinality(N) = n /\ IsFiniteSet(N)
  BY <1>1, FS_Interval
<1> HIDE DEF N
<1>4. k <= n /\ (k = n => s \in Surjection(1..k, N))
  BY <1>2, <1>3, FS_Injection
<1>5. ASSUME k = n PROVE Range(s) = N
  BY <1>1, <1>4, <1>5 DEF Surjection, Range
<1>6. ASSUME k < n, N \subseteq Range(s) PROVE FALSE
  <2>1. s \in Surjection(1..k, N)
    BY <1>1, <1>6 DEF Surjection, Range
  <2>2. n <= k
    BY <2>1, <1>3, FS_Surjection
  <2> QED BY <1>1, <1>6, <2>2
<1> QED BY <1>4, <1>5, <1>6 DEF k, N

\* Each index is what Descend returns when those before it have been appended.
Descends(events, orders, s) ==
  \A j \in DOMAIN s : s[j] = Descend(events, orders, {s[l] : l \in 1..j - 1})

Appending(events, orders, s) ==
  s \in Seq(Indices(events)) /\ IsInjective(s) /\ Descends(events, orders, s)

\* Appending what Descend returns next keeps that for one index more.
LEMMA AppendDescends ==
  ASSUME NEW X, NEW events \in Seq(X), NEW Y, NEW orders \in SUBSET Seq(Y),
         NEW s, Appending(events, orders, s), Len(s) < Len(events)
  PROVE  LET t == Append(s, Descend(events, orders, ToSet(s)))
         IN  Appending(events, orders, t) /\ Len(t) = Len(s) + 1
<1> DEFINE n == Len(events)
           x == Descend(events, orders, ToSet(s))
           t == Append(s, x)
<1>1. n \in Nat /\ Indices(events) = 1..n
  BY DEF Indices
<1>2. s \in Seq(1..n) /\ IsInjective(s) /\ Descends(events, orders, s)
  BY <1>1 DEF Appending
<1> HIDE DEF n
<1>3. (1..n) \ ToSet(s) # {}
  BY <1>1, <1>2, InjectiveIsOnto DEF n, Range, ToSet
<1>4. x \in 1..n /\ x \notin ToSet(s)
  BY <1>1, <1>3, DescendEnds
<1>5. x \notin Range(s)
  BY <1>4 DEF Range, ToSet
<1>6. t \in Seq(1..n) /\ IsInjective(t)
  <2> HIDE DEF x
  <2> QED BY <1>2, <1>4, <1>5, AppendKeeps
<1>7. /\ Len(s) \in Nat /\ Len(t) = Len(s) + 1 /\ t[Len(s) + 1] = x
      /\ \A j \in 1..Len(s) : t[j] = s[j]
  <2> HIDE DEF x
  <2> QED BY <1>2, <1>4
<1>8. ASSUME NEW j \in DOMAIN t PROVE t[j] = Descend(events, orders, {t[l] : l \in 1..j - 1})
  <2>0. j \in 1..Len(s) + 1 /\ DOMAIN s = 1..Len(s)
    BY <1>2, <1>4, <1>7
  <2> HIDE DEF t
  <2>1. {t[l] : l \in 1..j - 1} = {s[l] : l \in 1..j - 1}
    <3>1. \A l \in 1..j - 1 : t[l] = s[l]
      BY <1>7, <2>0
    <3> QED BY <3>1
  <2>2. CASE j \in 1..Len(s)
    <3>1. t[j] = s[j]
      BY <1>7, <2>2
    <3>2. s[j] = Descend(events, orders, {s[l] : l \in 1..j - 1})
      BY <1>2, <2>0, <2>2 DEF Descends
    <3> QED BY <2>1, <3>1, <3>2
  <2>3. CASE j = Len(s) + 1
    <3>1. j - 1 = Len(s)
      BY <1>7, <2>3
    <3>2. {s[l] : l \in 1..j - 1} = ToSet(s)
      BY <2>0, <3>1 DEF ToSet
    <3> QED BY <1>7, <2>1, <2>3, <3>2
  <2> QED BY <1>7, <2>0, <2>2, <2>3
<1> QED BY <1>1, <1>6, <1>7, <1>8 DEF Appending, Descends

\* The permutation is what appending all indices like that gives.
LEMMA PermutationDescends ==
  ASSUME NEW X, NEW events \in Seq(X), NEW Y, NEW orders \in SUBSET Seq(Y)
  PROVE  /\ Appending(events, orders, Permutation(events, orders))
         /\ Len(Permutation(events, orders)) = Len(events)
<1> DEFINE n == Len(events)
           D(s) == Append(s, Descend(events, orders, ToSet(s)))
           F(f) == [k \in 0..n |-> IF k = 0 THEN << >> ELSE D(f[k - 1])]
           perm == CHOOSE f : f = F(f)
<1>1. n \in Nat
  OBVIOUS
<1>2. Permutation(events, orders) = perm[n]
  BY DEF Permutation
<1> HIDE DEF n
<1>3. \E f : f = F(f)
  <2> DEFINE Upto(k, f) == f = [j \in 0..k |-> IF j = 0 THEN << >> ELSE D(f[j - 1])]
             P == {k \in Nat : \E f : Upto(k, f)}
  <2>1. 0 \in P
    <3> DEFINE f == [j \in 0..0 |-> << >>]
    <3>1. Upto(0, f)
      <4>1. \A j \in 0..0 : j = 0
        OBVIOUS
      <4> HIDE DEF D
      <4> QED BY <4>1
    <3> HIDE DEF f, Upto
    <3> QED BY <3>1
  <2>2. ASSUME NEW k \in Nat, k \in P PROVE k + 1 \in P
    <3> HIDE DEF D
    <3> PICK f : Upto(k, f)
      BY <2>2
    <3> DEFINE g == [j \in 0..k + 1 |-> IF j = k + 1 THEN D(f[k]) ELSE f[j]]
    <3>1. \A j \in 0..k + 1 : g[j] = IF j = 0 THEN << >> ELSE D(g[j - 1])
      <4> SUFFICES ASSUME NEW j \in 0..k + 1 PROVE g[j] = IF j = 0 THEN << >> ELSE D(g[j - 1])
        OBVIOUS
      <4>1. CASE j = k + 1
        <5>1. j # 0 /\ j - 1 = k /\ k \in 0..k + 1 /\ k # k + 1
          BY <4>1
        <5>2. g[j] = D(f[k]) /\ g[k] = f[k]
          BY <4>1, <5>1
        <5> HIDE DEF g
        <5> QED BY <5>1, <5>2
      <4>2. CASE j # k + 1
        <5>1. j \in 0..k /\ g[j] = f[j]
          BY <4>2
        <5>2. f[j] = IF j = 0 THEN << >> ELSE D(f[j - 1])
          BY <5>1
        <5>3. j # 0 => j - 1 \in 0..k + 1 /\ j - 1 # k + 1
          BY <5>1
        <5>4. j # 0 => g[j - 1] = f[j - 1]
          BY <5>3
        <5> HIDE DEF g, Upto
        <5> QED BY <5>1, <5>2, <5>4
      <4> QED BY <4>1, <4>2
    <3>2. g = [j \in 0..k + 1 |-> g[j]]
      OBVIOUS
    <3> HIDE DEF g
    <3>3. Upto(k + 1, g)
      BY <3>1, <3>2
    <3> HIDE DEF Upto
    <3> QED BY <3>3
  <2>3. n \in P
    <3> HIDE DEF P
    <3> QED BY <1>1, <2>1, <2>2, AllNumbers
  <2> QED BY <2>3
<1>4. perm = F(perm)
  <2> HIDE DEF F
  <2> QED BY <1>3
<1> HIDE DEF perm
<1>5. perm[0] = << >> /\ \A k \in 1..n : perm[k] = D(perm[k - 1])
  <2>1. \A k \in 0..n : perm[k] = IF k = 0 THEN << >> ELSE D(perm[k - 1])
    <3> HIDE DEF D
    <3> QED BY <1>4
  <2> HIDE DEF D, F
  <2> QED BY <1>1, <2>1
<1> DEFINE Good(k) == Appending(events, orders, perm[k]) /\ Len(perm[k]) = k
           Q == {k \in Nat : k <= n => Good(k)}
<1>6. 0 \in Q
  <2>1. Good(0)
    BY <1>5 DEF Appending, Descends, IsInjective
  <2> HIDE DEF Good
  <2> QED BY <2>1
<1>7. ASSUME NEW k \in Nat, k \in Q PROVE k + 1 \in Q
  <2> SUFFICES ASSUME k + 1 <= n PROVE Good(k + 1)
    <3> HIDE DEF Good
    <3> QED BY <1>1
  <2>1. k <= n /\ k < n /\ k + 1 \in 1..n /\ (k + 1) - 1 = k
    BY <1>1
  <2>2. Good(k)
    <3> HIDE DEF Good
    <3> QED BY <1>7, <2>1
  <2>3. perm[k + 1] = D(perm[k])
    <3> HIDE DEF D
    <3> QED BY <1>5, <2>1
  <2>4. Len(perm[k]) < Len(events)
    BY <2>1, <2>2 DEF n
  <2> QED BY <2>2, <2>3, <2>4, AppendDescends
<1>8. Good(n)
  <2> HIDE DEF Q, Good
  <2>1. n \in Q
    BY <1>1, <1>6, <1>7, AllNumbers
  <2> QED BY <1>1, <2>1 DEF Q
<1> QED BY <1>2, <1>8 DEF n

\* sort_registration_events is right, whatever the events and the orders are: the
\* result is a permutation, so that it never aborts and never loses an event, in
\* accordance to the orders but for cycles, in which events overtake others only for
\* a reason.
THEOREM SortingIsRight ==
  ASSUME NEW X, NEW events \in Seq(X), NEW Y, NEW orders \in SUBSET Seq(Y)
  PROVE  LET p == Permutation(events, orders)
         IN  /\ p \in [Indices(events) -> Indices(events)] /\ IsInjective(p)
             /\ InOrder(events, orders, p)
             /\ OvertakesIfRequired(events, orders, p)
<1> DEFINE n == Len(events)
           N == Indices(events)
           p == Permutation(events, orders)
           R == Required(events, orders)
           P(ix) == Predecessors(events, orders, ix)
           App(j) == {p[l] : l \in 1..j - 1}
           first(j) == Min(N \ App(j))
<1>1. n \in Nat /\ N = 1..n
  BY DEF Indices
<1>2. p \in Seq(N) /\ IsInjective(p) /\ Len(p) = n /\ Descends(events, orders, p)
  BY PermutationDescends DEF Appending
<1> HIDE DEF p, n
<1>3. p \in [N -> N] /\ DOMAIN p = N /\ ToSet(p) = N
  <2>1. Range(p) = 1..n
    BY <1>1, <1>2, InjectiveIsOnto
  <2>2. p \in [1..Len(p) -> N]
    BY <1>2
  <2>3. p \in [N -> N] /\ DOMAIN p = N
    BY <1>1, <1>2, <2>2
  <2> QED BY <1>1, <2>1, <2>3 DEF Range, ToSet
<1>4. ASSUME NEW j \in N
      PROVE  /\ \A k \in N : j <= k => p[k] \in N \ App(j)
             /\ \A y \in {first(j)} \cup (P(p[j]) \ App(j)) : p[j] = y \/ <<p[j], y>> \in R
  <2>1. \A k \in N, l \in 1..j - 1 : j <= k => l \in N /\ l # k
    BY <1>1
  <2>2. \A k \in N : j <= k => p[k] \in N \ App(j)
    BY <1>2, <1>3, <2>1 DEF IsInjective
  <2>3. p[j] \in N \ App(j)
    BY <1>1, <2>2
  <2>4. p[j] = Descend(events, orders, App(j))
    BY <1>2, <1>3 DEF Descends
  <2> HIDE DEF App
  <2> QED BY <2>2, <2>3, <2>4, DescendEnds
<1> HIDE DEF P, R
<1>5. ASSUME NEW j \in N, NEW k \in N, p[k] \in P(p[j]), j < k
      PROVE  <<p[j], p[k]>> \in R
  <2>1. p[k] \in N \ App(j)
    BY <1>1, <1>4, <1>5
  <2>2. p[j] # p[k]
    BY <1>1, <1>2, <1>3, <1>5 DEF IsInjective
  <2> HIDE DEF App
  <2> QED BY <1>4, <1>5, <2>1, <2>2
<1>6. ASSUME NEW j \in N, NEW k \in N, j < k, p[j] > p[k]
      PROVE  \E m \in 1..p[k] : <<p[j], m>> \in R
  <2>1. p[k] \in N \ App(j) /\ N \ App(j) \in SUBSET Nat
    BY <1>1, <1>4, <1>6
  <2> HIDE DEF App
  <2>2. first(j) \in N /\ first(j) <= p[k]
    BY <2>1, Smallest
  <2> HIDE DEF first
  <2>3. first(j) # p[j] /\ first(j) \in 1..p[k]
    BY <1>1, <1>3, <1>6, <2>2
  <2> QED BY <1>4, <2>3
<1>7. InOrder(events, orders, p)
  <2>1. Len(p) = Len(events)
    BY <1>2 DEF n
  <2> QED BY <1>3, <1>5, <2>1 DEF InOrder, P, R
<1>8. OvertakesIfRequired(events, orders, p)
  BY <1>6 DEF OvertakesIfRequired, R
<1> QED BY <1>2, <1>3, <1>7, <1>8 DEF p

\* Whatever orders have been defined, they are sequences.
LEMMA OrdersAreSequences ==
  OrdersSpec => [](order_infos \subseteq Seq(ToSet(Types) \cup {Absent}))
<1> DEFINE Y == ToSet(Types) \cup {Absent}
           I == order_infos \subseteq Seq(Y)
<1>1. BoundedSeq(Y, MaxLength) \subseteq Seq(Y)
  <2> HIDE DEF Y
  <2> QED BY OrdersAssumption DEF BoundedSeq, SeqOf
<1>2. OrdersInit => I
  BY DEF OrdersInit
<1>3. I /\ [DefineRegistrationOrder]_order_infos => I'
  <2> SUFFICES ASSUME I, [DefineRegistrationOrder]_order_infos PROVE I'
    OBVIOUS
  <2>1. CASE UNCHANGED order_infos
    BY <2>1
  <2>2. CASE DefineRegistrationOrder
    <3>1. PICK order \in BoundedSeq(Y, MaxLength) : order_infos' = order_infos \cup {order}
      BY <2>2 DEF DefineRegistrationOrder
    <3> HIDE DEF Y
    <3>2. order \in Seq(Y)
      BY <1>1
    <3> QED BY <3>1, <3>2
  <2> QED BY <2>1, <2>2
<1> QED BY <1>2, <1>3, PTL DEF OrdersSpec

\* Both properties of the order found, for the events of Types.
LEMMA SortedTypes == OrdersSpec => [](OrdersHold /\ OvertakesForAReason)
<1>1. TypeEvents \in Seq([obj : ToSet(Types)])
  BY DEF TypeEvents, Types, ToSet
<1>2. order_infos \subseteq Seq(ToSet(Types) \cup {Absent}) => OrdersHold /\ OvertakesForAReason
  BY <1>1, SortingIsRight DEF OrdersHold, OvertakesForAReason, Permuted
<1> QED BY <1>2, OrdersAreSequences, PTL

\* The orders that define_registration_order has collected hold, but for cycles, and
\* sort_registration_events neither aborts nor loses an event.
THEOREM SortedInOrder == OrdersSpec => []OrdersHold
BY SortedTypes, PTL

\* Sorting changes no more than the orders ask for: an event overtakes another
\* only if it is required before one that does not come after the other.  It is not
\* the order closest to the actual one.
THEOREM SortOvertakesForAReason == OrdersSpec => []OvertakesForAReason
BY SortedTypes, PTL

-----------------------------------------------------------------------------
(* Types                                                                   *)

\* Sorting has a sequence of the same entries as result.
LEMMA SortKeeps ==
  ASSUME NEW X, NEW events \in Seq(X), NEW Y, NEW orders \in SUBSET Seq(Y)
  PROVE  LET s == SortRegistrationEvents(events, orders)
         IN  s \in Seq(X) /\ Len(s) = Len(events) /\ Range(s) = Range(events)
<1> DEFINE p == Permutation(events, orders)
           n == Len(events)
           s == SortRegistrationEvents(events, orders)
<1>1. n \in Nat /\ Indices(events) = 1..n /\ DOMAIN events = 1..n
  BY DEF Indices
<1>2. p \in [1..n -> 1..n] /\ ToSet(p) = 1..n
  BY <1>1, SortingIsRight DEF InOrder
<1>3. s = [k \in 1..n |-> events[p[k]]]
  BY <1>1 DEF SortRegistrationEvents
<1> HIDE DEF p, n
<1>4. \A k \in 1..n : events[p[k]] \in X
  BY <1>1, <1>2
<1>5. s \in Seq(X) /\ Len(s) = n
  BY <1>1, <1>3, <1>4
<1> HIDE DEF s
<1>6. Range(s) = Range(events)
  <2>1. \A j \in 1..n : \E k \in 1..n : p[k] = j
    BY <1>2 DEF ToSet
  <2> QED BY <1>1, <1>2, <1>3, <2>1 DEF Range
<1> QED BY <1>5, <1>6 DEF s, n

\* How often an element occurs in a sequence.
LEMMA OccurrencesCount ==
  ASSUME NEW X, NEW s \in Seq(X), NEW x
  PROVE  /\ Occurrences(s, x) \in Nat
         /\ Occurrences(s, x) = 0 <=> x \notin Range(s)
         /\ IsInjective(s) => Occurrences(s, x) <= 1
<1> DEFINE n == Len(s)
           K == {k \in DOMAIN s : s[k] = x}
<1>1. n \in Nat /\ DOMAIN s = 1..n
  OBVIOUS
<1> HIDE DEF n
<1>2. IsFiniteSet(1..n) /\ K \subseteq 1..n
  BY <1>1, FS_Interval
<1>3. IsFiniteSet(K) /\ Cardinality(K) \in Nat
  BY <1>2, FS_Subset, FS_CardinalityType
<1>4. Cardinality(K) = 0 <=> K = {}
  BY <1>3, FS_EmptySet
<1>5. K = {} <=> x \notin Range(s)
  BY DEF Range
<1>6. ASSUME IsInjective(s) PROVE Cardinality(K) <= 1
  <2>1. CASE K = {}
    BY <1>3, <1>4, <2>1
  <2>2. CASE K # {}
    <3> PICK k \in K : TRUE
      BY <2>2
    <3>1. K = {k}
      BY <1>6 DEF IsInjective
    <3>2. Cardinality({k}) = 1
      BY FS_Singleton
    <3> HIDE DEF K
    <3> QED BY <3>1, <3>2
  <2> QED BY <2>1, <2>2
<1> HIDE DEF K
<1>7. Occurrences(s, x) = Cardinality(K)
  BY DEF Occurrences, K
<1> QED BY <1>3, <1>4, <1>5, <1>6, <1>7

Told == [Listeners -> [Objects -> Nat]]

\* What the listeners have been told after register_object_internal
LEMMA TellAllIs ==
  ASSUME NEW td \in Told, NEW ls \in Seq(Listeners), NEW e \in Entry
  PROVE  /\ TellAll(td, ls, e) \in Told
         /\ \A l \in Listeners, o \in Objects :
              TellAll(td, ls, e)[l][o] = IF e.built /\ o = e.obj
                                         THEN td[l][o] + Occurrences(ls, l) ELSE td[l][o]
<1>1. \A l : Occurrences(ls, l) \in Nat
  BY OccurrencesCount
<1> QED BY <1>1 DEF TellAll, Told, Entry

\* What a listener has been told after a replay of events
LEMMA ReplayIs ==
  ASSUME NEW td \in Told, NEW l \in Listeners, NEW X, NEW events \in Seq(X)
  PROVE  /\ Replay(td, l, events) \in Told
         /\ \A m \in Listeners, o \in Objects :
              Replay(td, l, events)[m][o] = IF m = l THEN td[l][o] + Occurrences(events, Built(o))
                                            ELSE td[m][o]
<1>1. \A o : Occurrences(events, Built(o)) \in Nat
  BY OccurrencesCount
<1> QED BY <1>1 DEF Replay, Told

\* SubSeq reads the first n places of a sequence, whether it has them or not.
LEMMA Prefix ==
  ASSUME NEW X, NEW s \in Seq(X), NEW n \in Nat
  PROVE  /\ SubSeq(s, 1, n) \in Seq({s[k] : k \in 1..n})
         /\ DOMAIN SubSeq(s, 1, n) = 1..n
         /\ \A k \in 1..n : SubSeq(s, 1, n)[k] = s[k]
<1> DEFINE f == [k \in 1..n |-> s[k]]
           S == {s[k] : k \in 1..n}
<1>1. SubSeq(s, 1, n) = f
  OBVIOUS
<1>2. f \in [1..n -> S]
  OBVIOUS
<1>3. \A k \in 1..n : f[k] = s[k]
  OBVIOUS
<1> HIDE DEF f, S
<1>4. f \in Seq(S) /\ DOMAIN f = 1..n
  BY <1>2
<1> QED BY <1>1, <1>3, <1>4 DEF S

\* The part of a sequence behind the first m places
LEMMA SubSeqIs ==
  ASSUME NEW X, NEW s \in Seq(X), NEW m \in Nat, NEW n \in Nat, m <= n, n <= Len(s)
  PROVE  /\ SubSeq(s, m + 1, n) \in Seq(X)
         /\ Len(SubSeq(s, m + 1, n)) = n - m
         /\ \A k \in 1..n - m : SubSeq(s, m + 1, n)[k] = s[k + m]
OBVIOUS

\* Replayed events are a sequence, in any state.
LEMMA EventsBeforeIs ==
  ASSUME registration_events \in Seq(Entry), nr_events_before_disable \in Nat,
         NEW k \in DOMAIN registration_events
  PROVE  \E X : EventsBefore(k) \in Seq(X)
<1> DEFINE nr == nr_events_before_disable
           old == SubSeq(registration_events, 1, nr)
           middle == SubSeq(registration_events, nr + 1, k - 1)
           new == Only(middle, {Built(l) : l \in Listeners})
           X == {registration_events[j] : j \in 1..nr} \cup Entry
<1>1. old \in Seq(X)
  <2>1. old \in Seq({registration_events[j] : j \in 1..nr})
    BY Prefix
  <2> HIDE DEF old
  <2> QED BY <2>1
<1>2. middle \in Seq(Entry)
  <2>1. nr \in Nat /\ k \in Nat /\ k <= Len(registration_events)
    OBVIOUS
  <2> HIDE DEF nr
  <2> QED BY <2>1
<1> HIDE DEF middle
<1>3. new \in Seq(Entry)
  BY <1>2, OnlyKeeps
<1> HIDE DEF old, new
<1>4. new \in Seq(X)
  BY <1>3
<1> HIDE DEF X
<1>5. old \o new \in Seq(X)
  BY <1>1, <1>4, ConcatKeeps
<1>6. EventsBefore(k) = old \o new
  BY DEF EventsBefore, old, new, middle
<1> QED BY <1>5, <1>6

\* remove_object erases some of the places where it finds the entry.
LEMMA RemoveObjectIs ==
  ASSUME NEW s \in Seq(Entry), NEW e
  PROVE  /\ RemoveObject(s, e) \in Seq(Entry)
         /\ Range(RemoveObject(s, e)) \subseteq Range(s)
         /\ IsInjective(s) => /\ IsInjective(RemoveObject(s, e))
                              /\ Range(RemoveObject(s, e)) = Range(s) \ {e}
<1> DEFINE found == {k \in DOMAIN s : s[k] = e}
           Skips(E) == \A k \in DOMAIN s : k \in E <=> s[k] = e /\ {k - 1, k - 2} \cap E = {}
           erased == CHOOSE E \in SUBSET found : Skips(E)
           K == DOMAIN s \ erased
<1>1. RemoveObject(s, e) = At(s, K)
  BY DEF RemoveObject
<1> HIDE DEF erased
<1>2. K \in SUBSET DOMAIN s
  OBVIOUS
<1>3. /\ At(s, K) \in Seq(Entry) /\ Range(At(s, K)) = {s[k] : k \in K}
      /\ IsInjective(s) => IsInjective(At(s, K))
  <2> HIDE DEF K
  <2> QED BY <1>2, AtKeeps
<1>4. {s[k] : k \in K} \subseteq Range(s)
  BY DEF Range
<1>5. ASSUME IsInjective(s) PROVE {s[k] : k \in K} = Range(s) \ {e}
  <2>1. \A j, k \in found : j = k
    BY <1>5 DEF IsInjective
  <2>2. DOMAIN s \subseteq Nat
    OBVIOUS
  <2>3. \A k \in DOMAIN s : k - 1 # k /\ k - 2 # k
    BY <2>2
  <2>4. Skips(found)
    BY <2>1, <2>3
  <2>5. erased \in SUBSET found /\ Skips(erased)
    <3> HIDE DEF Skips, found
    <3> QED BY <2>4 DEF erased
  <2>6. erased = found
    BY <2>1, <2>3, <2>5
  <2> QED BY <2>6 DEF Range
<1> HIDE DEF K
<1> QED BY <1>1, <1>3, <1>4, <1>5

\* The constructors of the events after the first i0 are executed.
LEMMA ConstructIs ==
  ASSUME NEW events \in Seq(Entry), NEW i0
  PROVE  /\ Construct(events, i0) \in Seq(Entry)
         /\ Len(Construct(events, i0)) = Len(events)
         /\ \A k \in DOMAIN events :
              Construct(events, i0)[k] = IF k > i0 THEN Built(events[k].obj) ELSE events[k]
<1> DEFINE n == Len(events)
           c == Construct(events, i0)
<1>1. n \in Nat /\ DOMAIN events = 1..n /\ \A k \in 1..n : events[k] \in Entry
  OBVIOUS
<1>2. \A e \in Entry : [e EXCEPT !.built = TRUE] = Built(e.obj) /\ Built(e.obj) \in Entry
  <2> SUFFICES ASSUME NEW e \in Entry
               PROVE  [e EXCEPT !.built = TRUE] = Built(e.obj) /\ Built(e.obj) \in Entry
    OBVIOUS
  <2> DEFINE yes == TRUE
  <2> HIDE DEF yes
  <2>1. [e EXCEPT !.built = yes] = [obj |-> e.obj, built |-> yes]
    BY DEF Entry
  <2>2. [e EXCEPT !.built = TRUE] = Built(e.obj)
    BY <2>1 DEF Built, yes
  <2>3. e.obj \in Objects
    BY DEF Entry
  <2>4. Built(e.obj) \in Entry
    BY <2>3 DEF Built, Entry
  <2> QED BY <2>2, <2>4
<1> HIDE DEF n
<1>3. c = [k \in 1..n |-> IF k > i0 THEN Built(events[k].obj) ELSE events[k]]
  BY <1>1, <1>2 DEF Construct
<1>4. \A k \in 1..n : (IF k > i0 THEN Built(events[k].obj) ELSE events[k]) \in Entry
  BY <1>1, <1>2
<1> HIDE DEF c
<1>5. c \in Seq(Entry) /\ Len(c) = n
  BY <1>1, <1>3, <1>4
<1> QED BY <1>1, <1>3, <1>5 DEF c, n

\* What is in a sequence of entries has been submitted.
Known(s) == \A e \in Range(s) : e.obj \in submitted
Looping == phase \in {"servers", "drivers", "listeners", "remaining"}
TypeInv == /\ TypeOK /\ Known(registration_events) /\ Known(objects)
           /\ Looping => i > 0

\* The four loops
LEMMA PhaseNames == ToSet(Phases) = {"servers", "drivers", "listeners", "remaining"}
BY DEF Phases, ToSet

\* Entries of objects, and objects of entries
LEMMA EntryOf ==
  /\ \A o \in Objects : Built(o) \in Entry /\ Built(o).obj = o /\ Built(o).built
  /\ \A o \in Objects : EntryFor(o) \in Entry /\ EntryFor(o).obj = o
  /\ \A e \in Entry : e.obj \in Objects /\ e.built \in BOOLEAN /\ (e.built => e = Built(e.obj))
<1>1. \A o \in Objects : Built(o) \in Entry /\ Built(o).obj = o /\ Built(o).built
  BY DEF Built, Entry
<1>2. ASSUME NEW o \in Objects PROVE EntryFor(o) \in Entry /\ EntryFor(o).obj = o
  <2> DEFINE b == registration_enabled \/ o \notin Delayed
  <2>1. b \in BOOLEAN
    OBVIOUS
  <2>2. EntryFor(o) = [obj |-> o, built |-> b]
    BY DEF EntryFor
  <2> HIDE DEF b
  <2> QED BY <2>1, <2>2 DEF Entry
<1>3. ASSUME NEW e \in Entry
      PROVE  e.obj \in Objects /\ e.built \in BOOLEAN /\ (e.built => e = Built(e.obj))
  BY DEF Entry, Built
<1> QED BY <1>1, <1>2, <1>3

\* on_register registers objects.
LEMMA OnRegisterIs == \A o \in Objects : OnRegister[o] \in Seq(Objects)
<1> SUFFICES ASSUME NEW o \in Objects PROVE OnRegister[o] \in Seq(Objects)
  OBVIOUS
<1>1. OnRegister[o] \in Seq(Objects \ FromProgram)
  BY RegistryAssumption
<1> QED BY <1>1

\* ref_listeners() holds listeners only.
LEMMA AddListenerIs ==
  ASSUME NEW ls \in Seq(Listeners), NEW o \in Objects
  PROVE  AddListener(ls, o) \in Seq(Listeners)
BY DEF AddListener

\* register_object_internal keeps the types.
LEMMA RegisterInternalTyped ==
  ASSUME TypeInv, NEW e \in Entry, e.obj \in submitted', submitted \subseteq submitted',
         NEW ls \in Seq(Listeners), NEW td \in Told, RegisterInternal(e, ls, td)
  PROVE  told' \in Told /\ objects' \in Seq(Entry) /\ Known(objects)' /\ calls' \in [Objects -> Nat]
<1>1. told' \in Told
  BY TellAllIs DEF RegisterInternal
<1>2. objects \in Seq(Entry) /\ calls \in [Objects -> Nat] /\ Known(objects)
  BY DEF TypeInv, TypeOK
<1>3. objects' \in Seq(Entry) /\ Range(objects') \subseteq Range(objects) \cup {e}
  BY <1>2, AppendKeeps DEF RegisterInternal
<1>4. Known(objects)'
  BY <1>2, <1>3 DEF Known
<1>5. calls' \in [Objects -> Nat]
  BY <1>2, EntryOf DEF RegisterInternal
<1> QED BY <1>1, <1>3, <1>4, <1>5

\* register_object keeps the types.
LEMMA RegisterObjectTyped ==
  ASSUME TypeInv, NEW e \in Entry, NEW rest \in Seq(Objects), RegisterObject(e, rest)
  PROVE  TypeInv'
<1> USE DEF TypeInv, TypeOK
<1> DEFINE o == e.obj
           store == ~registration_enabled \/ ~registration_event_cleanup
           events == IF store THEN Append(registration_events, e) ELSE registration_events
<1>1. o \in Objects
  BY EntryOf
<1>2. /\ submitted' = submitted \cup {o} /\ registration_events' = events
      /\ UNCHANGED <<flags, nr_events_before_disable, phase, i, gone>>
  BY DEF RegisterObject
<1>3. events \in Seq(Entry) /\ Range(events) \subseteq Range(registration_events) \cup {e}
  BY AppendKeeps
<1>4. Known(registration_events)'
  BY <1>2, <1>3 DEF Known
<1> HIDE DEF o, store, events
<1>5. CASE ~registration_enabled
  <2>1. todo' = rest /\ UNCHANGED <<listeners, objects, calls, told>>
    BY <1>5 DEF RegisterObject
  <2>2. Known(objects)'
    BY <1>2, <2>1 DEF Known
  <2> QED BY <1>1, <1>2, <1>3, <1>4, <2>1, <2>2 DEF flags, Looping
<1>6. CASE registration_enabled
  <2> DEFINE td == IF o \in Listeners THEN Replay(told, o, events) ELSE told
  <2>1. /\ todo' = OnRegister[o] \o rest /\ listeners' = AddListener(listeners, o)
        /\ RegisterInternal(Built(o), listeners', td)
    BY <1>6 DEF RegisterObject, o, store, events
  <2>2. listeners' \in Seq(Listeners)
    BY <1>1, <2>1, AddListenerIs
  <2>3. told \in Told
    BY DEF Told
  <2>4. td \in Told
    BY <1>3, <2>3, ReplayIs
  <2>5. todo' \in Seq(Objects)
    BY <1>1, <2>1, OnRegisterIs
  <2> HIDE DEF td
  <2>6. Built(o) \in Entry /\ Built(o).obj \in submitted' /\ submitted \subseteq submitted'
    BY <1>1, <1>2, EntryOf
  <2>7. told' \in Told /\ objects' \in Seq(Entry) /\ Known(objects)' /\ calls' \in [Objects -> Nat]
    BY <2>1, <2>2, <2>4, <2>6, RegisterInternalTyped
  <2> QED BY <1>1, <1>2, <1>3, <1>4, <2>2, <2>5, <2>7 DEF flags, Told, Looping
<1> QED BY <1>5, <1>6

\* unregister_object keeps the types.
LEMMA UnregisterTyped ==
  ASSUME TypeInv, NEW e \in Entry, e.obj \in submitted, UnregisterObject(e), UNCHANGED phase
  PROVE  TypeInv'
<1> USE DEF TypeInv, TypeOK
<1>1. objects' \in Seq(Entry) /\ Range(objects') \subseteq Range(objects)
  BY RemoveObjectIs DEF UnregisterObject
<1>2. registration_events' \in Seq(Entry) /\ Range(registration_events') \subseteq Range(registration_events)
  BY OnlyKeeps DEF UnregisterObject, EraseEvents
<1>3. UNCHANGED <<flags, nr_events_before_disable, i, todo, submitted, calls>>
  BY DEF UnregisterObject
<1>4. Known(objects)' /\ Known(registration_events)'
  BY <1>1, <1>2, <1>3 DEF Known
<1>5. listeners' \in Seq(Listeners) /\ told' \in Told /\ gone' \subseteq submitted
  <2>0. told \in Told
    BY DEF Told
  <2>1. CASE e.built
    <3>1. listeners' = Only(listeners, Listeners \ {e.obj}) /\ gone' = gone \cup {e.obj}
      BY <2>1 DEF UnregisterObject
    <3>2. told' = [l \in Listeners |-> IF l \in ToSet(listeners') THEN [told[l] EXCEPT ![e.obj] = 0] ELSE told[l]]
      BY <2>1 DEF UnregisterObject
    <3> QED BY <2>0, <3>1, <3>2, OnlyKeeps DEF Told
  <2>2. CASE ~e.built
    BY <2>0, <2>2 DEF UnregisterObject
  <2> QED BY <2>1, <2>2
<1> QED BY <1>1, <1>2, <1>3, <1>4, <1>5 DEF flags, Told, Looping

\* An iteration of enable_registration keeps the types.
LEMMA LoopStepTyped ==
  ASSUME TypeInv, LoopStep
  PROVE  TypeInv'
<1> USE DEF TypeInv, TypeOK
<1> DEFINE e == registration_events[i]
           td == IF phase = "listeners" /\ e.built /\ e.obj \in Listeners
                 THEN Replay(told, e.obj, EventsBefore(i)) ELSE told
           nested == NestedIn(e)
           more == [k \in DOMAIN nested |-> EntryFor(nested[k])]
<1>0. /\ Looping /\ i \in DOMAIN registration_events /\ i' = i + 1
      /\ UNCHANGED <<flags, nr_events_before_disable, phase, todo, gone>>
  BY PhaseNames DEF LoopStep, Looping
<1>1. e \in Entry /\ e.obj \in submitted /\ e.obj \in Objects
  <2>1. e \in Range(registration_events) /\ e \in Entry
    BY <1>0 DEF Range
  <2> QED BY <2>1, EntryOf DEF Known
<1>2. td \in Told
  <2>1. told \in Told
    BY DEF Told
  <2>2. \E X : EventsBefore(i) \in Seq(X)
    BY <1>0, EventsBeforeIs
  <2> QED BY <2>1, <2>2, ReplayIs
<1> HIDE DEF td
<1>3. CASE InPhase(phase, e)
  <2>1. /\ RegisterInternal(e, listeners, td)
        /\ listeners' = IF e.built THEN AddListener(listeners, e.obj) ELSE listeners
        /\ submitted' = submitted \cup ToSet(nested)
        /\ registration_events' = registration_events \o more
    BY <1>3 DEF LoopStep, td
  <2>2. nested \in Seq(Objects) /\ DOMAIN more = DOMAIN nested
    BY <1>1, OnRegisterIs DEF NestedIn
  <2>3. more \in Seq(Entry) /\ \A f \in Range(more) : f.obj \in ToSet(nested)
    <3> DEFINE n == Len(nested)
    <3>1. n \in Nat /\ DOMAIN nested = 1..n /\ \A k \in 1..n : nested[k] \in Objects
      BY <2>2
    <3>2. more \in [1..n -> Entry] /\ \A k \in 1..n : more[k].obj = nested[k]
      BY <3>1, EntryOf
    <3> HIDE DEF more, n
    <3>3. more \in Seq(Entry)
      BY <3>1, <3>2
    <3> QED BY <3>1, <3>2, <3>3 DEF Range, ToSet
  <2> HIDE DEF more, nested, e
  <2>4. /\ registration_events' \in Seq(Entry)
        /\ Range(registration_events') = Range(registration_events) \cup Range(more)
    BY <2>1, <2>3, ConcatKeeps
  <2>5. submitted' \subseteq Objects /\ submitted \subseteq submitted' /\ gone' \subseteq submitted'
    BY <1>0, <2>1, <2>2 DEF ToSet
  <2>6. Known(registration_events)'
    BY <2>1, <2>3, <2>4 DEF Known
  <2>7. told' \in Told /\ objects' \in Seq(Entry) /\ Known(objects)' /\ calls' \in [Objects -> Nat]
    BY <1>1, <1>2, <2>1, <2>5, RegisterInternalTyped
  <2>8. listeners' \in Seq(Listeners)
    BY <1>1, <2>1, AddListenerIs
  <2> QED BY <1>0, <2>4, <2>5, <2>6, <2>7, <2>8 DEF flags, Told, Looping
<1>4. CASE ~InPhase(phase, e)
  <2>1. told' = td /\ UNCHANGED <<listeners, objects, submitted, calls, registration_events>>
    BY <1>4 DEF LoopStep, td
  <2> QED BY <1>0, <1>2, <2>1 DEF flags, Told, Looping, Known
<1> QED BY <1>3, <1>4

\* Types at the start
LEMMA TypeInit == Init => TypeInv
<1> SUFFICES ASSUME Init PROVE TypeInv
  OBVIOUS
<1> USE DEF Init
<1>1. phase = "idle" /\ calls \in [Objects -> Nat] /\ told \in [Listeners -> [Objects -> Nat]]
  OBVIOUS
<1>2. registration_events = << >> /\ objects = << >>
  OBVIOUS
<1>3. Known(registration_events) /\ Known(objects)
  BY <1>2, EmptyKeeps DEF Known
<1>4. TypeOK
  <2>1. /\ registration_enabled \in BOOLEAN /\ permanent_registration \in BOOLEAN
        /\ registration_event_cleanup \in BOOLEAN
    OBVIOUS
  <2>2. nr_events_before_disable \in Nat /\ i \in Nat /\ submitted \subseteq Objects /\ gone \subseteq submitted
    OBVIOUS
  <2>3. /\ registration_events \in Seq(Entry) /\ objects \in Seq(Entry)
        /\ listeners \in Seq(Listeners) /\ todo \in Seq(Objects)
    OBVIOUS
  <2> QED BY <1>1, <2>1, <2>2, <2>3 DEF TypeOK
<1>5. ~Looping
  BY <1>1 DEF Looping
<1> QED BY <1>3, <1>4, <1>5 DEF TypeInv

\* Every step keeps the types.
LEMMA TypeStep ==
  ASSUME TypeInv, [Next]_vars
  PROVE  TypeInv'
<1>1. CASE UNCHANGED vars
  BY <1>1 DEF vars, flags, history, TypeInv, TypeOK, Known, Looping
<1>2. ASSUME NEW o \in Objects, Register(o) PROVE TypeInv'
  <2>1. EntryFor(o) \in Entry /\ << >> \in Seq(Objects)
    BY EntryOf
  <2> QED BY <1>2, <2>1, RegisterObjectTyped DEF Register
<1>3. ASSUME NEW o \in Objects, RegisterConstructor(o) PROVE TypeInv'
  <2>1. [obj |-> o, built |-> FALSE] \in Entry /\ << >> \in Seq(Objects)
    BY DEF Entry
  <2> QED BY <1>3, <2>1, RegisterObjectTyped DEF RegisterConstructor
<1>4. ASSUME NEW o \in Objects, Unregister(o) PROVE TypeInv'
  <2>1. Built(o) \in Entry /\ Built(o).obj \in submitted
    BY <1>4, EntryOf DEF Unregister
  <2> QED BY <1>4, <2>1, UnregisterTyped DEF Unregister
<1>5. CASE RegisterNested
  <2>1. Head(todo) \in Objects /\ Tail(todo) \in Seq(Objects)
    BY <1>5, TailKeeps DEF RegisterNested, TypeInv, TypeOK
  <2>2. EntryFor(Head(todo)) \in Entry
    BY <2>1, EntryOf
  <2> QED BY <1>5, <2>1, <2>2, RegisterObjectTyped DEF RegisterNested
<1>6. CASE Enable
  <2> DEFINE sorted == SortRegistrationEvents(registration_events, OrdersBefore)
             built == Construct(sorted, nr_events_before_disable)
  <2>1. OrdersBefore \in SUBSET Seq(Objects) /\ OrdersAfter \in SUBSET Seq(Objects)
    BY RegistryAssumption
  <2>2. registration_events \in Seq(Entry) /\ nr_events_before_disable \in Nat
    BY DEF TypeInv, TypeOK
  <2>3. sorted \in Seq(Entry) /\ Range(sorted) = Range(registration_events)
    BY <2>1, <2>2, SortKeeps
  <2> HIDE DEF sorted
  <2>4. built \in Seq(Entry) /\ \A f \in Range(built) : \E e \in Range(sorted) : f.obj = e.obj
    <3>1. /\ built \in Seq(Entry) /\ Len(built) = Len(sorted)
          /\ \A k \in DOMAIN sorted : built[k] = IF k > nr_events_before_disable
                                          THEN Built(sorted[k].obj) ELSE sorted[k]
      BY <2>3, ConstructIs
    <3> HIDE DEF built
    <3>2. DOMAIN built = DOMAIN sorted /\ \A k \in DOMAIN sorted : sorted[k] \in Entry
      BY <2>3, <3>1
    <3>3. \A k \in DOMAIN sorted : built[k].obj = sorted[k].obj
      BY <3>1, <3>2, EntryOf
    <3> QED BY <3>1, <3>2, <3>3 DEF Range
  <2>5. registration_events' = SortRegistrationEvents(built, OrdersAfter)
    BY <1>6 DEF Enable, sorted
  <2> HIDE DEF built
  <2>6. registration_events' \in Seq(Entry) /\ Range(registration_events') = Range(built)
    BY <2>1, <2>4, <2>5, SortKeeps
  <2>7. UNCHANGED submitted
    BY <1>6 DEF Enable, history
  <2>8. Known(registration_events)'
    BY <2>3, <2>4, <2>6, <2>7 DEF Known, TypeInv
  <2> QED BY <1>6, <2>2, <2>6, <2>8, PhaseNames DEF Enable, flags, history, TypeInv, TypeOK, Known, Looping
<1>7. CASE LoopStep
  BY <1>7, LoopStepTyped
<1>8. CASE NextLoop
  <2>1. phase' \in {"servers", "drivers", "listeners", "remaining"} /\ i' = nr_events_before_disable + 1
        /\ UNCHANGED <<flags, nr_events_before_disable, registration_events, listeners, objects, todo, history>>
    BY <1>8 DEF NextLoop, Phases
  <2> QED BY <2>1, PhaseNames DEF flags, history, TypeInv, TypeOK, Known, Looping
<1>9. CASE EnableDone
  <2>1. registration_events' \in Seq(Entry) /\ Range(registration_events') \subseteq Range(registration_events)
    BY <1>9, EmptyKeeps DEF EnableDone, TypeInv, TypeOK
  <2>2. nr_events_before_disable' \in Nat
    BY <1>9, <2>1 DEF EnableDone
  <2>3. Known(registration_events)' /\ Known(objects)'
    BY <1>9, <2>1 DEF EnableDone, history, Known, TypeInv
  <2> QED BY <1>9, <2>1, <2>2, <2>3 DEF EnableDone, history, TypeInv, TypeOK, Looping
<1>10. CASE Disable
  <2>1. nr_events_before_disable' \in Nat
    BY <1>10 DEF Disable, TypeInv, TypeOK
  <2> QED BY <1>10, <2>1 DEF Disable, history, TypeInv, TypeOK, Known, Looping
<1>11. CASE UnregisterAll
  BY <1>11 DEF UnregisterAll, flags, history, TypeInv, TypeOK, Known, Looping
<1>12. CASE ClearStep
  <2> DEFINE e == Last(objects)
  <2>1. e \in Range(objects) /\ e \in Entry
    BY <1>12 DEF ClearStep, Last, Range, TypeInv, TypeOK
  <2>2. e.obj \in submitted
    BY <2>1 DEF TypeInv, Known
  <2> HIDE DEF e
  <2>3. UnregisterObject(e) /\ UNCHANGED phase
    BY <1>12 DEF ClearStep, e
  <2> QED BY <2>1, <2>2, <2>3, UnregisterTyped
<1>13. CASE ClearDone
  BY <1>13 DEF ClearDone, flags, history, TypeInv, TypeOK, Known, Looping
<1>14. CASE EnablePermanent \/ DisablePermanent \/ DisableCleanup
  BY <1>14 DEF EnablePermanent, DisablePermanent, DisableCleanup, history, TypeInv, TypeOK, Known, Looping
<1>15. CASE EnableCleanup
  <2> DEFINE nr == nr_events_before_disable  new == SubSeq(registration_events, nr + 1, Len(registration_events))
  <2>1. registration_events \in Seq(Entry) /\ nr \in Nat
    BY DEF TypeInv, TypeOK
  <2>2. new \in Seq(Entry) /\ Range(new) \subseteq Range(registration_events)
    <3>1. CASE nr <= Len(registration_events)
      <4> DEFINE n == Len(registration_events)
      <4>1. new \in Seq(Entry) /\ Len(new) = n - nr /\ \A k \in 1..n - nr : new[k] = registration_events[k + nr]
        BY <2>1, <3>1, SubSeqIs
      <4>2. n \in Nat /\ DOMAIN registration_events = 1..n
        BY <2>1
      <4> HIDE DEF new, nr
      <4>3. \A k \in DOMAIN new : k + nr \in DOMAIN registration_events /\ new[k] = registration_events[k + nr]
        BY <2>1, <4>1, <4>2
      <4> QED BY <4>1, <4>3 DEF Range
    <3>2. CASE nr > Len(registration_events)
      <4>1. new = << >>
        BY <2>1, <3>2
      <4> QED BY <4>1, EmptyKeeps
    <3> QED BY <2>1, <3>1, <3>2
  <2>3. registration_events' = IF registration_enabled THEN << >> ELSE new
    BY <1>15 DEF EnableCleanup
  <2> HIDE DEF new
  <2>4. registration_events' \in Seq(Entry) /\ Range(registration_events') \subseteq Range(registration_events)
    BY <2>2, <2>3, EmptyKeeps
  <2>5. Known(registration_events)' /\ Known(objects)'
    BY <1>15, <2>4 DEF EnableCleanup, history, Known, TypeInv
  <2> QED BY <1>15, <2>4, <2>5 DEF EnableCleanup, history, TypeInv, TypeOK, Looping
<1> QED BY <1>1, <1>2, <1>3, <1>4, <1>5, <1>6, <1>7, <1>8, <1>9, <1>10, <1>11, <1>12,
           <1>13, <1>14, <1>15 DEF Next, EnableStep, ClearAllStep

\* TypeInv is inductive.
LEMMA TypeInvariant == Spec => []TypeInv
BY TypeInit, TypeStep, PTL DEF Spec

\* Whatever the program registers and in whichever way: the variables have their
\* types, listeners holds listeners only.
THEOREM RegistryTypeCorrect == Spec => []TypeOK
BY TypeInvariant, PTL DEF TypeInv

-----------------------------------------------------------------------------
(* Nothing is lost and nothing is registered twice                         *)

\* The loop that registers an object, and the number of a loop.
Loop(o) == IF o \in Servers THEN 1 ELSE IF o \in Drivers THEN 2
           ELSE IF o \in Listeners THEN 3 ELSE 4
Rank(p) == IF p = "servers" THEN 1 ELSE IF p = "drivers" THEN 2
           ELSE IF p = "listeners" THEN 3 ELSE 4

Nested(o) == Range(OnRegister[o])

\* What is assumed of a program: it unregisters nothing while registration is
\* disabled, and an object that is registered by on_register is so once, by one
\* object, not through a constructor, and belongs to no earlier loop than that object.
Ordinary ==
  /\ "early_unregister" \notin Uses
  /\ \A o \in Objects :
       /\ IsInjective(OnRegister[o])
       /\ \A x \in Nested(o) : x \notin Delayed /\ Loop(x) >= Loop(o)
       /\ \A p \in Objects \ {o} : Nested(o) \cap Nested(p) = {}

\* No two entries of one object.
Unique(s) == IsInjective(s) /\ \A e, f \in Range(s) : e.obj = f.obj => e = f

EntriesUnique == Unique(registration_events) /\ Unique(objects)

CollectionSound ==
  \A e \in Range(objects) : e.built /\ calls[e.obj] = 1 /\ e.obj \notin gone

CallsOnce ==
  \A o \in Objects : /\ calls[o] \in {0, 1}
                     /\ calls[o] = 1 => o \in submitted
                     /\ o \in gone => calls[o] = 1 /\ Built(o) \notin Range(registration_events)

EnabledAllCalled ==
  registration_enabled => ~Looping /\ \A o \in submitted : calls[o] = 1

\* The events that have been buffered
New == nr_events_before_disable + 1 .. Len(registration_events)

\* Of the buffered events none has been sent, of the others all; no object that has
\* not been registered is without event.
Buffered ==
  ~registration_enabled =>
    /\ phase # "clearing" /\ todo = << >> /\ nr_events_before_disable <= Len(registration_events)
    /\ \A k \in 1 .. nr_events_before_disable : calls[registration_events[k].obj] = 1
    /\ \A o \in submitted : calls[o] = 0 => \E k \in New : registration_events[k].obj = o
    /\ ~Looping => \A k \in New : calls[registration_events[k].obj] = 0

\* While they are sent: those of earlier loops and, of this one, those before i.
LoopProgress ==
  Looping =>
    /\ ~registration_enabled
    /\ i \in nr_events_before_disable + 1 .. Len(registration_events) + 1
    /\ \A k \in New :
         /\ registration_events[k].built
         /\ calls[registration_events[k].obj] = 1 <=>
              \/ Loop(registration_events[k].obj) < Rank(phase)
              \/ Loop(registration_events[k].obj) = Rank(phase) /\ k < i

\* What on_register of an object will register has not been registered.
NestedFresh ==
  /\ \A o \in Objects : calls[o] = 0 => Nested(o) \cap (submitted \cup Range(todo)) = {}
  /\ IsInjective(todo) /\ Range(todo) \cap submitted = {}

Core == /\ EntriesUnique /\ CollectionSound /\ CallsOnce /\ EnabledAllCalled
        /\ Buffered /\ LoopProgress /\ NestedFresh

\* Loops are numbered 1 to 4.
LEMMA LoopIs ==
  /\ \A o : Loop(o) \in 1..4
  /\ \A q : Rank(q) \in 1..4
BY DEF Loop, Rank

\* Uniqueness by places, in subsequences, and after appending
LEMMA UniqueIs ==
  ASSUME NEW s \in Seq(Entry)
  PROVE  /\ Unique(s) <=> \A j, k \in DOMAIN s : s[j].obj = s[k].obj => j = k
         /\ \A t \in Seq(Entry) : Unique(s) /\ IsInjective(t) /\ Range(t) \subseteq Range(s) => Unique(t)
         /\ \A e \in Entry : /\ Unique(s) /\ (\A f \in Range(s) : f.obj # e.obj)
                               => Unique(Append(s, e))
                             /\ Append(s, e) \in Seq(Entry) /\ Range(Append(s, e)) = Range(s) \cup {e}
<1>1. Unique(s) <=> \A j, k \in DOMAIN s : s[j].obj = s[k].obj => j = k
  BY DEF Unique, IsInjective, Range
<1>2. ASSUME NEW t \in Seq(Entry), Unique(s), IsInjective(t), Range(t) \subseteq Range(s) PROVE Unique(t)
  BY <1>2 DEF Unique
<1>3. ASSUME NEW e \in Entry
      PROVE  /\ Unique(s) /\ (\A f \in Range(s) : f.obj # e.obj) => Unique(Append(s, e))
             /\ Append(s, e) \in Seq(Entry) /\ Range(Append(s, e)) = Range(s) \cup {e}
  <2>1. /\ Append(s, e) \in Seq(Entry) /\ Range(Append(s, e)) = Range(s) \cup {e}
        /\ IsInjective(s) /\ e \notin Range(s) => IsInjective(Append(s, e))
    BY AppendKeeps
  <2> QED BY <2>1 DEF Unique
<1> QED BY <1>1, <1>2, <1>3

\* An event is buffered.
LEMMA CoreBuffer ==
  ASSUME Ordinary, TypeInv, Core, NEW e \in Entry, RegisterObject(e, << >>),
         ~registration_enabled, ~Looping, e.obj \notin submitted,
         \A p \in Objects : e.obj \notin Nested(p)
  PROVE  Core'
<1> DEFINE o == e.obj
           E == registration_events
           nr == nr_events_before_disable
<1>1. /\ submitted' = submitted \cup {o} /\ E' = Append(E, e) /\ todo' = << >>
      /\ UNCHANGED <<registration_enabled, nr, phase, i, gone, objects, calls>>
  BY DEF RegisterObject, flags
<1>2. /\ E \in Seq(Entry) /\ nr \in Nat /\ o \in Objects /\ objects \in Seq(Entry)
      /\ gone \subseteq submitted /\ submitted \subseteq Objects
  BY EntryOf DEF TypeInv, TypeOK
<1>3. \A f \in Range(E) : f.obj # o
  BY DEF TypeInv, Known
<1>4. calls[o] = 0 /\ o \notin gone
  BY <1>2 DEF Core, CallsOnce
<1>5. Unique(E') /\ E' \in Seq(Entry) /\ Range(E') = Range(E) \cup {e}
  BY <1>1, <1>2, <1>3, UniqueIs DEF Core, EntriesUnique
<1>6. EntriesUnique'
  BY <1>1, <1>5 DEF Core, EntriesUnique
<1>7. CollectionSound'
  BY <1>1 DEF Core, CollectionSound
<1>8. CallsOnce'
  <2>1. \A g \in gone : Built(g) # e
    BY <1>2, <1>4, EntryOf
  <2> QED BY <1>1, <1>5, <2>1 DEF Core, CallsOnce
<1>9. EnabledAllCalled' /\ LoopProgress'
  BY <1>1 DEF EnabledAllCalled, LoopProgress, Looping
<1>10. Buffered'
  <2> DEFINE n == Len(E)
  <2>1. /\ n \in Nat /\ Len(E') = n + 1 /\ E'[n + 1] = e /\ \A k \in 1..n : E'[k] = E[k]
    BY <1>1, <1>2
  <2>2. /\ phase # "clearing" /\ nr <= n
        /\ \A k \in 1 .. nr : calls[E[k].obj] = 1
        /\ \A x \in submitted : calls[x] = 0 => \E k \in nr + 1 .. n : E[k].obj = x
        /\ \A k \in nr + 1 .. n : calls[E[k].obj] = 0
    BY DEF Core, Buffered, New
  <2>3. New' = nr + 1 .. n + 1
    BY <1>1, <2>1 DEF New
  <2> HIDE DEF n
  <2>4. \A k \in 1 .. nr : calls[E'[k].obj] = 1
    BY <1>2, <2>1, <2>2
  <2>5. \A k \in nr + 1 .. n + 1 : calls[E'[k].obj] = 0
    <3>1. \A k \in nr + 1 .. n + 1 : k = n + 1 \/ k \in nr + 1 .. n
      BY <1>2, <2>1
    <3>2. \A k \in nr + 1 .. n : k \in 1..n
      BY <1>2, <2>1
    <3> QED BY <1>4, <2>1, <2>2, <3>1, <3>2
  <2>6. \A x \in submitted' : calls[x] = 0 => \E k \in nr + 1 .. n + 1 : E'[k].obj = x
    <3>1. n + 1 \in nr + 1 .. n + 1 /\ \A k \in nr + 1 .. n : k \in nr + 1 .. n + 1 /\ E'[k] = E[k]
      BY <1>2, <2>1, <2>2
    <3> QED BY <1>1, <2>1, <2>2, <3>1
  <2>7. nr <= Len(E')
    BY <1>2, <2>1, <2>2
  <2> QED BY <1>1, <2>2, <2>3, <2>4, <2>5, <2>6, <2>7 DEF Buffered, Looping
<1>11. NestedFresh'
  <2>1. Range(todo') = {} /\ IsInjective(todo')
    BY <1>1, EmptyKeeps
  <2> QED BY <1>1, <2>1 DEF Core, NestedFresh
<1> QED BY <1>6, <1>7, <1>8, <1>9, <1>10, <1>11 DEF Core

\* An object is registered at once.
LEMMA CoreRegister ==
  ASSUME Ordinary, TypeInv, Core, NEW e \in Entry, NEW rest \in Seq(Objects),
         RegisterObject(e, rest), registration_enabled, e.obj \notin submitted,
         \A p \in Objects : calls[p] = 0 => e.obj \notin Nested(p),
         IsInjective(rest), Range(rest) \subseteq Range(todo), e.obj \notin Range(rest)
  PROVE  Core'
<1> DEFINE o == e.obj
           E == registration_events
           store == ~registration_enabled \/ ~registration_event_cleanup
<1>1. /\ submitted' = submitted \cup {o} /\ E' = IF store THEN Append(E, e) ELSE E
      /\ todo' = OnRegister[o] \o rest
      /\ objects' = IF permanent_registration THEN Append(objects, Built(o)) ELSE objects
      /\ calls' = IF Built(o).built THEN [calls EXCEPT ![Built(o).obj] = @ + 1] ELSE calls
      /\ UNCHANGED <<registration_enabled, phase, gone>>
  BY DEF RegisterObject, RegisterInternal, flags
<1>2. /\ E \in Seq(Entry) /\ o \in Objects /\ objects \in Seq(Entry) /\ todo \in Seq(Objects)
      /\ gone \subseteq submitted /\ submitted \subseteq Objects /\ calls \in [Objects -> Nat]
  BY EntryOf DEF TypeInv, TypeOK
<1>3. \A f \in Range(E) : f.obj # o
  BY DEF TypeInv, Known
<1>4. calls[o] = 0 /\ o \notin gone
  BY <1>2 DEF Core, CallsOnce
<1>5. calls' = [calls EXCEPT ![o] = 1]
  <2>1. Built(o).built /\ Built(o).obj = o
    BY <1>2, EntryOf
  <2>2. calls' = [calls EXCEPT ![o] = calls[o] + 1]
    BY <1>1, <2>1
  <2>3. calls[o] + 1 = 1
    BY <1>4
  <2> QED BY <2>2, <2>3
<1>6. Unique(E') /\ Range(E') \subseteq Range(E) \cup {e}
  BY <1>1, <1>2, <1>3, UniqueIs DEF Core, EntriesUnique
<1>7. Unique(objects') /\ Range(objects') \subseteq Range(objects) \cup {Built(o)}
  <2>1. \A f \in Range(objects) : f.obj # o
    BY <1>4 DEF Core, CollectionSound
  <2>2. Built(o) \in Entry /\ Built(o).obj = o
    BY <1>2, EntryOf
  <2> QED BY <1>1, <1>2, <2>1, <2>2, UniqueIs DEF Core, EntriesUnique
<1>8. EntriesUnique'
  BY <1>6, <1>7 DEF EntriesUnique
<1>9. CollectionSound'
  <2>1. \A f \in Range(objects) : f.obj \in Objects
    BY <1>2, EntryOf DEF Range
  <2> QED BY <1>1, <1>2, <1>4, <1>5, <1>7, <2>1, EntryOf DEF Core, CollectionSound
<1>10. CallsOnce'
  <2>1. \A g \in gone : Built(g) # e
    BY <1>2, <1>4, EntryOf
  <2> QED BY <1>1, <1>2, <1>5, <1>6, <2>1 DEF Core, CallsOnce
<1>11. EnabledAllCalled' /\ LoopProgress' /\ Buffered'
  BY <1>1, <1>2, <1>5 DEF Core, EnabledAllCalled, LoopProgress, Buffered, Looping
<1>12. NestedFresh'
  <2>1. OnRegister[o] \in Seq(Objects) /\ IsInjective(OnRegister[o])
    BY <1>2, OnRegisterIs DEF Ordinary
  <2>2. Nested(o) \cap (submitted \cup Range(todo)) = {} /\ o \notin Nested(o)
    BY <1>2, <1>4 DEF Core, NestedFresh
  <2>3. /\ Range(todo') = Nested(o) \cup Range(rest)
        /\ IsInjective(OnRegister[o]) /\ IsInjective(rest) /\ Nested(o) \cap Range(rest) = {}
           => IsInjective(todo')
    BY <1>1, <2>1, ConcatKeeps DEF Nested
  <2>4. IsInjective(todo')
    BY <2>1, <2>2, <2>3
  <2>5. Range(rest) \cap submitted = {}
    BY DEF Core, NestedFresh
  <2>6. ASSUME NEW p \in Objects, calls'[p] = 0 PROVE Nested(p) \cap (submitted' \cup Range(todo')) = {}
    <3>1. p # o /\ calls[p] = 0
      BY <1>2, <1>5, <2>6
    <3>2. Nested(p) \cap Nested(o) = {} /\ o \notin Nested(p)
      BY <1>2, <3>1 DEF Ordinary
    <3>3. Nested(p) \cap (submitted \cup Range(todo)) = {}
      BY <3>1 DEF Core, NestedFresh
    <3> QED BY <1>1, <2>3, <3>2, <3>3
  <2>7. Range(todo') \cap submitted' = {}
    BY <1>1, <2>2, <2>3, <2>5
  <2> QED BY <2>4, <2>6, <2>7 DEF NestedFresh
<1> QED BY <1>8, <1>9, <1>10, <1>11, <1>12 DEF Core

\* Without orders sorting changes nothing.
LEMMA NotSorted ==
  ASSUME NEW X, NEW s \in Seq(X)
  PROVE  SortRegistrationEvents(s, {}) = s
<1> DEFINE n == Len(s)
           p == Permutation(s, {})
<1>1. n \in Nat /\ Indices(s) = 1..n /\ DOMAIN s = 1..n
  BY DEF Indices
<1>2. {} \in SUBSET Seq({})
  OBVIOUS
<1>3. /\ p \in [1..n -> 1..n] /\ IsInjective(p) /\ ToSet(p) = 1..n
      /\ OvertakesIfRequired(s, {}, p)
  BY <1>1, <1>2, SortingIsRight DEF InOrder
<1>4. Required(s, {}) = {}
  <2>1. \A k : Predecessors(s, {}, k) = {}
    BY DEF Predecessors
  <2> SUFFICES ASSUME NEW q \in Required(s, {}) PROVE FALSE
    OBVIOUS
  <2> DEFINE before == [k \in Indices(s) |-> Predecessors(s, {}, k)]
  <2>2. /\ q \in Indices(s) \X Indices(s)
        /\ \A S \in SUBSET Indices(s) : (\A k \in S : before[k] \subseteq S) /\ before[q[2]] \subseteq S
             => q[1] \in S
    BY DEF Required
  <2>3. before[q[2]] = {}
    BY <2>1, <2>2
  <2> HIDE DEF before
  <2> QED BY <2>2, <2>3
<1> HIDE DEF n, p
<1>5. \A j, k \in 1..n : j < k => ~(p[j] > p[k])
  BY <1>1, <1>4, <1>3 DEF OvertakesIfRequired
<1>6. ASSUME {j \in 1..n : p[j] # j} # {} PROVE FALSE
  <2> DEFINE B == {j \in 1..n : p[j] # j}
             j == Min(B)
  <2>1. j \in B /\ \A k \in B : j <= k
    <3>1. B \in SUBSET Nat /\ B # {}
      BY <1>6
    <3> HIDE DEF B
    <3> QED BY <3>1, Smallest
  <2> HIDE DEF j
  <2>2. j \in 1..n /\ p[j] # j /\ p[j] \in 1..n
    BY <1>3, <2>1
  <2>3. \A k \in 1..n : k < j => p[k] = k
    BY <2>1, <2>2
  <2>4. PICK m \in 1..n : p[m] = j
    BY <1>3, <2>2 DEF ToSet
  <2>5. m > j
    BY <2>2, <2>3, <2>4
  <2>6. p[j] > j
    <3>1. CASE p[j] < j
      <4>1. p[p[j]] = p[j]
        BY <2>2, <2>3, <3>1
      <4>2. p[j] = j
        BY <1>3, <2>2, <4>1 DEF IsInjective
      <4> QED BY <2>2, <4>2
    <3> QED BY <2>2, <3>1
  <2> QED BY <1>5, <2>2, <2>4, <2>5, <2>6
<1>7. SortRegistrationEvents(s, {}) = [k \in 1..n |-> s[p[k]]]
  BY <1>1 DEF SortRegistrationEvents, p
<1>8. \A k \in 1..n : s[p[k]] = s[k]
  BY <1>6
<1>9. s = [k \in 1..n |-> s[k]]
  BY <1>1
<1> QED BY <1>7, <1>8, <1>9

\* Sorting that keeps the old events at the front is a permutation of either part.
LEMMA StayIs ==
  ASSUME NEW events \in Seq(Entry), IsInjective(events), NEW orders \in SUBSET Seq(Objects),
         NEW nr \in Nat, nr <= Len(events),
         LET s == SortRegistrationEvents(events, orders)
         IN  {s[k] : k \in 1..nr} = {events[k] : k \in 1..nr}
  PROVE  \E p \in [1 .. Len(events) -> 1 .. Len(events)] :
           /\ IsInjective(p) /\ \A j \in 1 .. Len(events) : \E k \in 1 .. Len(events) : p[k] = j
           /\ \A k \in 1 .. Len(events) : p[k] <= nr <=> k <= nr
           /\ SortRegistrationEvents(events, orders) = [k \in 1 .. Len(events) |-> events[p[k]]]
<1> DEFINE n == Len(events)
           p == Permutation(events, orders)
           s == SortRegistrationEvents(events, orders)
<1>1. n \in Nat /\ Indices(events) = 1..n /\ DOMAIN events = 1..n /\ nr <= n
  BY DEF Indices
<1>2. p \in [1..n -> 1..n] /\ IsInjective(p) /\ ToSet(p) = 1..n
  BY <1>1, SortingIsRight DEF InOrder
<1>3. s = [k \in 1..n |-> events[p[k]]]
  BY <1>1 DEF SortRegistrationEvents
<1>4. {s[k] : k \in 1..nr} = {events[k] : k \in 1..nr}
  OBVIOUS
<1> HIDE DEF n, p, s
<1>5. \A j, k \in 1..n : events[j] = events[k] => j = k
  BY <1>1 DEF IsInjective
<1>6. \A k \in 1..nr : k \in 1..n
  BY <1>1
<1>7. ASSUME NEW k \in 1..n, k <= nr PROVE p[k] <= nr
  <2>1. k \in 1..nr
    BY <1>1, <1>7
  <2>2. PICK j \in 1..nr : s[k] = events[j]
    BY <1>4, <2>1
  <2>3. p[k] = j
    BY <1>2, <1>3, <1>5, <1>6, <2>2
  <2> QED BY <2>3
<1>8. ASSUME NEW k \in 1..n, p[k] <= nr PROVE k <= nr
  <2>1. p[k] \in 1..nr
    BY <1>1, <1>2, <1>8
  <2>2. PICK j \in 1..nr : events[p[k]] = s[j]
    BY <1>4, <2>1
  <2>3. p[k] = p[j] /\ j \in 1..n
    BY <1>2, <1>3, <1>5, <1>6, <2>2
  <2>4. k = j
    BY <1>2, <2>3 DEF IsInjective
  <2> QED BY <2>4
<1>9. \A j \in 1..n : \E k \in 1..n : p[k] = j
  BY <1>2 DEF ToSet
<1> QED BY <1>2, <1>3, <1>7, <1>8, <1>9 DEF n, s

\* What enabling makes of the events: a permutation of the old, and of the new ones,
\* which are objects then.
LEMMA EnableIs ==
  ASSUME TypeInv, Core, Enable, OldEventsStay
  PROVE  LET E == registration_events
             n == Len(E)
             nr == nr_events_before_disable
         IN  /\ E' \in Seq(Entry) /\ Len(E') = n
             /\ \E q \in [1..n -> 1..n] :
                  /\ IsInjective(q) /\ \A j \in 1..n : \E k \in 1..n : q[k] = j
                  /\ \A k \in 1..n : q[k] <= nr <=> k <= nr
                  /\ \A k \in 1..n : E'[k] = IF k > nr THEN Built(E[q[k]].obj) ELSE E[q[k]]
<1> DEFINE E == registration_events
           n == Len(E)
           nr == nr_events_before_disable
           sorted == SortRegistrationEvents(E, OrdersBefore)
           built == Construct(sorted, nr)
<1>1. /\ OrdersBefore \in SUBSET Seq(Objects) /\ OrdersAfter \in SUBSET Seq(Objects)
      /\ E \in Seq(Entry) /\ n \in Nat /\ nr \in Nat /\ DOMAIN E = 1..n
  BY RegistryAssumption DEF TypeInv, TypeOK
<1>2. nr <= n /\ IsInjective(E) /\ \A j, k \in 1..n : E[j].obj = E[k].obj => j = k
  BY <1>1, UniqueIs DEF Enable, Core, Buffered, EntriesUnique, Unique
<1>3. \A k \in 1..n : E[k] \in Entry
  BY <1>1
<1>4. {sorted[k] : k \in 1..nr} = {E[k] : k \in 1..nr}
  BY DEF OldEventsStay
<1>5. LET s == SortRegistrationEvents(built, OrdersAfter)
      IN  {s[k] : k \in 1..nr} = {built[k] : k \in 1..nr}
  BY DEF OldEventsStay
<1>6. E' = SortRegistrationEvents(built, OrdersAfter)
  BY DEF Enable
<1> HIDE DEF n, nr
<1>7. PICK p \in [1..n -> 1..n] :
           /\ IsInjective(p) /\ \A j \in 1..n : \E k \in 1..n : p[k] = j
           /\ \A k \in 1..n : p[k] <= nr <=> k <= nr
           /\ sorted = [k \in 1..n |-> E[p[k]]]
  BY <1>1, <1>2, <1>4, StayIs DEF n
<1> HIDE DEF sorted
<1>8. sorted \in Seq(Entry) /\ Len(sorted) = n /\ DOMAIN sorted = 1..n
  BY <1>1, <1>3, <1>7
<1>9. /\ built \in Seq(Entry) /\ Len(built) = n /\ DOMAIN built = 1..n
      /\ \A k \in 1..n : built[k] = IF k > nr THEN Built(E[p[k]].obj) ELSE E[p[k]]
  <2>1. /\ built \in Seq(Entry) /\ Len(built) = Len(sorted)
        /\ \A k \in DOMAIN sorted : built[k] = IF k > nr THEN Built(sorted[k].obj) ELSE sorted[k]
    BY <1>8, ConstructIs
  <2> HIDE DEF built
  <2>2. built \in Seq(Entry) /\ Len(built) = n /\ DOMAIN built = 1..n
    BY <1>1, <1>8, <2>1
  <2>3. \A k \in 1..n : sorted[k] = E[p[k]]
    BY <1>7
  <2>4. \A k \in 1..n : built[k] = IF k > nr THEN Built(sorted[k].obj) ELSE sorted[k]
    BY <1>8, <2>1
  <2> QED BY <2>2, <2>3, <2>4
<1> HIDE DEF built
<1>10. ASSUME NEW k \in 1..n PROVE p[k] \in 1..n /\ built[k].obj = E[p[k]].obj
  <2>1. p[k] \in 1..n
    BY <1>7
  <2>2. E[p[k]].obj \in Objects
    BY <1>3, <2>1, EntryOf
  <2>3. built[k] = Built(E[p[k]].obj) \/ built[k] = E[p[k]]
    BY <1>9
  <2> QED BY <2>1, <2>2, <2>3, EntryOf
<1>11. IsInjective(built)
  <2> SUFFICES ASSUME NEW j \in 1..n, NEW k \in 1..n, built[j] = built[k] PROVE j = k
    BY <1>9 DEF IsInjective
  <2>1. E[p[j]].obj = E[p[k]].obj
    BY <1>10
  <2>2. p[j] = p[k]
    BY <1>2, <1>10, <2>1
  <2> QED BY <1>7, <2>2 DEF IsInjective
<1>12. PICK r \in [1..n -> 1..n] :
           /\ IsInjective(r) /\ \A j \in 1..n : \E k \in 1..n : r[k] = j
           /\ \A k \in 1..n : r[k] <= nr <=> k <= nr
           /\ E' = [k \in 1..n |-> built[r[k]]]
  <2>1. /\ nr <= Len(built) /\ nr \in Nat /\ built \in Seq(Entry)
        /\ OrdersAfter \in SUBSET Seq(Objects)
    BY <1>1, <1>2, <1>9
  <2>2. \E r \in [1 .. Len(built) -> 1 .. Len(built)] :
           /\ IsInjective(r) /\ \A j \in 1 .. Len(built) : \E k \in 1 .. Len(built) : r[k] = j
           /\ \A k \in 1 .. Len(built) : r[k] <= nr <=> k <= nr
           /\ SortRegistrationEvents(built, OrdersAfter) = [k \in 1 .. Len(built) |-> built[r[k]]]
    BY <1>5, <1>11, <2>1, StayIs
  <2>3. Len(built) = n
    BY <1>9
  <2> QED BY <1>6, <2>2, <2>3
<1>13. E' \in Seq(Entry) /\ Len(E') = n
  <2>1. \A k \in 1..n : built[r[k]] \in Entry
    BY <1>9, <1>12
  <2> QED BY <1>1, <1>12, <2>1
<1> DEFINE q == [k \in 1..n |-> p[r[k]]]
<1>14. q \in [1..n -> 1..n] /\ \A k \in 1..n : r[k] \in 1..n /\ q[k] = p[r[k]]
  BY <1>7, <1>12
<1> HIDE DEF q
<1>15. IsInjective(q)
  <2> SUFFICES ASSUME NEW j \in 1..n, NEW k \in 1..n, q[j] = q[k] PROVE j = k
    BY <1>14 DEF IsInjective
  <2>1. r[j] = r[k]
    BY <1>7, <1>14 DEF IsInjective
  <2> QED BY <1>12, <2>1 DEF IsInjective
<1>16. ASSUME NEW j \in 1..n PROVE \E k \in 1..n : q[k] = j
  <2>1. PICK m \in 1..n : p[m] = j
    BY <1>7
  <2>2. PICK k \in 1..n : r[k] = m
    BY <1>12
  <2> QED BY <1>14, <2>1, <2>2
<1>17. \A k \in 1..n : q[k] <= nr <=> k <= nr
  BY <1>7, <1>12, <1>14
<1>18. ASSUME NEW k \in 1..n PROVE E'[k] = IF k > nr THEN Built(E[q[k]].obj) ELSE E[q[k]]
  <2>1. E'[k] = IF r[k] > nr THEN Built(E[q[k]].obj) ELSE E[q[k]]
    <3>1. E'[k] = built[r[k]] /\ r[k] \in 1..n /\ q[k] = p[r[k]]
      BY <1>12, <1>14
    <3> QED BY <1>9, <3>1
  <2>2. r[k] \in Nat /\ k \in Nat /\ (r[k] <= nr <=> k <= nr)
    BY <1>1, <1>12
  <2>3. nr \in Nat
    BY <1>1
  <2> HIDE DEF E
  <2>4. (r[k] > nr) = (k > nr)
    BY <2>2, <2>3
  <2> QED BY <2>1, <2>4
<1>19. \E f \in [1..n -> 1..n] :
           /\ IsInjective(f) /\ \A j \in 1..n : \E k \in 1..n : f[k] = j
           /\ \A k \in 1..n : f[k] <= nr <=> k <= nr
           /\ \A k \in 1..n : E'[k] = IF k > nr THEN Built(E[f[k]].obj) ELSE E[f[k]]
  BY <1>14, <1>15, <1>16, <1>17, <1>18
<1> QED BY <1>13, <1>19 DEF n, nr

\* Entry q[k] becomes entry k: the same is known of its object.
LEMMA CoreEnable ==
  ASSUME Ordinary, TypeInv, Core, Enable, OldEventsStay
  PROVE  Core'
<1> DEFINE E == registration_events
           nr == nr_events_before_disable
           n == Len(E)
<1>0. /\ E \in Seq(Entry) /\ nr \in Nat /\ n \in Nat /\ DOMAIN E = 1..n
      /\ gone \subseteq submitted /\ submitted \subseteq Objects
  BY DEF TypeInv, TypeOK
<1>1. /\ phase' = "servers" /\ i' = nr + 1 /\ ~registration_enabled
      /\ ~Looping /\ todo = << >>
      /\ UNCHANGED <<registration_enabled, nr, objects, todo, submitted, gone, calls>>
  BY DEF Enable, Ready, Looping, flags, history
<1>2. PICK q \in [1..n -> 1..n] :
           /\ IsInjective(q) /\ \A j \in 1..n : \E k \in 1..n : q[k] = j
           /\ \A k \in 1..n : q[k] <= nr <=> k <= nr
           /\ \A k \in 1..n : E'[k] = IF k > nr THEN Built(E[q[k]].obj) ELSE E[q[k]]
  BY EnableIs
<1>3. E' \in Seq(Entry) /\ Len(E') = n
  BY EnableIs
<1> HIDE DEF n
<1>4. /\ DOMAIN E' = 1..n
      /\ \A k \in 1..n : /\ q[k] \in 1..n /\ E[q[k]] \in Entry /\ E'[k].obj = E[q[k]].obj
                         /\ k > nr => E'[k].built
  <2>1. DOMAIN E' = 1..n
    BY <1>3
  <2>2. ASSUME NEW k \in 1..n
        PROVE  q[k] \in 1..n /\ E[q[k]] \in Entry /\ E'[k].obj = E[q[k]].obj /\ (k > nr => E'[k].built)
    <3>1. q[k] \in 1..n
      BY <1>2
    <3>2. E[q[k]] \in Entry
      BY <1>0, <3>1
    <3>3. E[q[k]].obj \in Objects
      BY <3>2, EntryOf
    <3>4. E'[k] = IF k > nr THEN Built(E[q[k]].obj) ELSE E[q[k]]
      BY <1>2
    <3> QED BY <3>1, <3>2, <3>3, <3>4, EntryOf
  <2> QED BY <2>1, <2>2
<1>5. EntriesUnique'
  <2>1. \A j, k \in 1..n : E[j].obj = E[k].obj => j = k
    BY <1>0, UniqueIs DEF Core, EntriesUnique
  <2>2. ASSUME NEW j \in 1..n, NEW k \in 1..n, E'[j].obj = E'[k].obj PROVE j = k
    <3>1. E[q[j]].obj = E[q[k]].obj /\ q[j] \in 1..n /\ q[k] \in 1..n
      BY <1>4, <2>2
    <3>2. q[j] = q[k]
      BY <2>1, <3>1
    <3> QED BY <1>2, <3>2 DEF IsInjective
  <2>3. Unique(E')
    BY <1>3, <1>4, <2>2, UniqueIs
  <2> QED BY <1>1, <2>3 DEF Core, EntriesUnique
<1>6. CollectionSound'
  BY <1>1 DEF Core, CollectionSound
<1>7. /\ nr <= n /\ \A k \in 1..n : k <= nr => calls[E[k].obj] = 1
      /\ \A k \in 1..n : ~(k <= nr) => calls[E[k].obj] = 0
      /\ \A o \in submitted : calls[o] = 0 => \E k \in 1..n : ~(k <= nr) /\ E[k].obj = o
  <2>1. /\ nr <= n /\ \A k \in 1..nr : calls[E[k].obj] = 1
        /\ \A k \in nr + 1 .. n : calls[E[k].obj] = 0
        /\ \A o \in submitted : calls[o] = 0 => \E k \in nr + 1 .. n : E[k].obj = o
    BY <1>1 DEF Core, Buffered, New, n
  <2>2. /\ \A k \in 1..n : IF k <= nr THEN k \in 1..nr ELSE k \in nr + 1 .. n
        /\ \A k \in nr + 1 .. n : k \in 1..n /\ ~(k <= nr)
    BY <1>0
  <2> QED BY <2>1, <2>2
<1>8. CallsOnce'
  <2>1. ASSUME NEW g \in gone PROVE Built(g) \notin Range(E')
    <3> SUFFICES ASSUME NEW k \in 1..n, E'[k] = Built(g) PROVE FALSE
      BY <1>4 DEF Range
    <3>1. g \in Objects /\ calls[g] = 1 /\ Built(g) \notin Range(E)
      BY <1>0 DEF Core, CallsOnce
    <3>2. E[q[k]].obj = g
      BY <1>4, <3>1, EntryOf
    <3>3. q[k] <= nr
      BY <1>4, <1>7, <3>1, <3>2
    <3>4. ~(k > nr)
      BY <1>0, <1>2, <3>3
    <3>5. E[q[k]] = Built(g)
      BY <1>2, <3>4
    <3> QED BY <1>0, <1>4, <3>1, <3>5 DEF Range
  <2> QED BY <1>1, <2>1 DEF Core, CallsOnce
<1>9. EnabledAllCalled'
  BY <1>1 DEF EnabledAllCalled
<1>10. New' = nr + 1 .. n /\ \A k \in nr + 1 .. n : k \in 1..n /\ k > nr /\ ~(k <= nr)
  BY <1>0, <1>1, <1>3 DEF New
<1>11. Buffered'
  <2>1. ASSUME NEW k \in 1..nr PROVE calls[E'[k].obj] = 1
    <3>1. k \in 1..n /\ k <= nr
      BY <1>0, <1>7
    <3>2. q[k] \in 1..n /\ q[k] <= nr /\ E'[k].obj = E[q[k]].obj
      BY <1>2, <1>4, <3>1
    <3> QED BY <1>7, <3>2
  <2>2. ASSUME NEW o \in submitted, calls[o] = 0 PROVE \E k \in nr + 1 .. n : E'[k].obj = o
    <3>1. PICK j \in 1..n : ~(j <= nr) /\ E[j].obj = o
      BY <1>7, <2>2
    <3>2. PICK k \in 1..n : q[k] = j
      BY <1>2
    <3>3. ~(k <= nr) /\ E'[k].obj = o
      BY <1>2, <1>4, <3>1, <3>2
    <3>4. k \in nr + 1 .. n
      BY <1>0, <3>3
    <3> QED BY <3>3, <3>4
  <2>3. nr <= Len(E')
    BY <1>3, <1>7
  <2> QED BY <1>1, <1>10, <2>1, <2>2, <2>3 DEF Buffered, Looping
<1>12. LoopProgress'
  <2>1. i' \in nr + 1 .. n + 1
    BY <1>0, <1>1, <1>7
  <2>2. Rank(phase') = 1
    BY <1>1 DEF Rank
  <2>3. ASSUME NEW k \in nr + 1 .. n
        PROVE  /\ E'[k].built
               /\ calls[E'[k].obj] = 1 <=>
                    Loop(E'[k].obj) < 1 \/ (Loop(E'[k].obj) = 1 /\ k < nr + 1)
    <3>1. k \in 1..n /\ k > nr /\ ~(k <= nr)
      BY <1>10
    <3>2. ~(q[k] <= nr) /\ q[k] \in 1..n /\ E'[k].obj = E[q[k]].obj /\ E'[k].built
      BY <1>2, <1>4, <3>1
    <3>3. calls[E'[k].obj] = 0
      BY <1>7, <3>2
    <3>4. Loop(E'[k].obj) \in 1..4 /\ ~(k < nr + 1)
      BY <1>0, LoopIs
    <3> QED BY <3>2, <3>3, <3>4
  <2>4. ASSUME NEW k \in nr + 1 .. n
        PROVE  /\ E'[k].built
               /\ calls'[E'[k].obj] = 1 <=>
                    Loop(E'[k].obj) < Rank(phase') \/ (Loop(E'[k].obj) = Rank(phase') /\ k < i')
    BY <1>1, <2>2, <2>3
  <2>5. /\ ~registration_enabled' /\ New' = nr' + 1 .. Len(E')
        /\ i' \in nr' + 1 .. Len(E') + 1
    BY <1>1, <1>3, <2>1 DEF New
  <2> QED BY <1>10, <2>4, <2>5 DEF LoopProgress
<1>13. NestedFresh'
  BY <1>1 DEF Core, NestedFresh
<1> QED BY <1>5, <1>6, <1>8, <1>9, <1>11, <1>12, <1>13 DEF Core

\* A loop registers the entries of objects that belong to it.
LEMMA InPhaseIs ==
  ASSUME Looping, NEW e \in Entry, e.built
  PROVE  InPhase(phase, e) <=> Loop(e.obj) = Rank(phase)
<1>1. Servers \cap Drivers = {}
  BY RegistryAssumption
<1>2. CASE phase = "servers"
  BY <1>2 DEF InPhase, Loop, Rank
<1>3. CASE phase = "drivers"
  BY <1>1, <1>3 DEF InPhase, Loop, Rank
<1>4. CASE phase = "listeners"
  BY <1>4 DEF InPhase, Loop, Rank
<1>5. CASE phase = "remaining"
  BY <1>5 DEF InPhase, Loop, Rank
<1> QED BY <1>2, <1>3, <1>4, <1>5 DEF Looping

\* The entry of an iteration, and what is known of it.
LEMMA CurrentEntry ==
  ASSUME TypeInv, Core, LoopStep
  PROVE  LET e == registration_events[i]
         IN  /\ Looping /\ ~registration_enabled /\ i \in DOMAIN registration_events /\ i \in New
             /\ e \in Entry /\ e \in Range(registration_events) /\ e = Built(e.obj) /\ e.built
             /\ e.obj \in Objects /\ e.obj \in submitted
             /\ InPhase(phase, e) <=> Loop(e.obj) = Rank(phase)
             /\ InPhase(phase, e) => calls[e.obj] = 0
<1> DEFINE e == registration_events[i]
<1>0. registration_events \in Seq(Entry) /\ nr_events_before_disable \in Nat /\ i \in Nat
  BY DEF TypeInv, TypeOK
<1>1. Looping /\ i \in DOMAIN registration_events
  BY <1>0, PhaseNames DEF LoopStep, Looping, TypeInv
<1>2. ~registration_enabled /\ i \in New
  BY <1>0, <1>1 DEF Core, LoopProgress, New
<1>3. e \in Entry /\ e \in Range(registration_events)
  BY <1>0, <1>1 DEF Range
<1>4. e.built
  BY <1>1, <1>2 DEF Core, LoopProgress
<1>5. e = Built(e.obj) /\ e.obj \in Objects /\ e.obj \in submitted
  BY <1>3, <1>4, EntryOf DEF TypeInv, Known
<1>6. InPhase(phase, e) <=> Loop(e.obj) = Rank(phase)
  BY <1>1, <1>3, <1>4, InPhaseIs
<1>7. ASSUME Loop(e.obj) = Rank(phase) PROVE calls[e.obj] = 0
  <2>1. ~(i < i) /\ ~(Loop(e.obj) < Rank(phase))
    BY <1>0, <1>7, LoopIs
  <2>2. calls[e.obj] # 1
    BY <1>1, <1>2, <2>1 DEF Core, LoopProgress
  <2> QED BY <1>5, <2>2 DEF Core, CallsOnce
<1> QED BY <1>1, <1>2, <1>3, <1>4, <1>5, <1>6, <1>7

\* An iteration for an object that another loop registers.
LEMMA CoreSkip ==
  ASSUME TypeInv, Core, LoopStep, ~InPhase(phase, registration_events[i])
  PROVE  Core'
<1> DEFINE e == registration_events[i]
           E == registration_events
<1>1. /\ i' = i + 1
      /\ UNCHANGED <<flags, nr_events_before_disable, phase, todo, gone, listeners, objects,
                     submitted, calls, registration_events>>
  BY DEF LoopStep
<1>2. /\ Looping /\ ~registration_enabled /\ i \in DOMAIN E /\ i \in New
      /\ Loop(e.obj) # Rank(phase)
  BY CurrentEntry
<1>3. i \in Nat /\ Len(E) \in Nat /\ nr_events_before_disable \in Nat /\ DOMAIN E = 1 .. Len(E)
  BY DEF TypeInv, TypeOK
<1>4. LoopProgress'
  <2>1. i' \in nr_events_before_disable + 1 .. Len(E) + 1
    BY <1>1, <1>2, <1>3 DEF New
  <2>2. \A k \in New : k = i \/ (k < i <=> k < i + 1)
    BY <1>3 DEF New
  <2>3. \A k \in New : /\ E[k].built
                       /\ calls[E[k].obj] = 1 <=>
                            \/ Loop(E[k].obj) < Rank(phase)
                            \/ Loop(E[k].obj) = Rank(phase) /\ k < i + 1
    BY <1>2, <2>2 DEF Core, LoopProgress
  <2>4. New' = New
    BY <1>1 DEF New
  <2> QED BY <1>1, <1>2, <2>1, <2>3, <2>4 DEF LoopProgress, Looping, flags
<1>5. /\ EntriesUnique' /\ CollectionSound' /\ CallsOnce' /\ EnabledAllCalled'
      /\ Buffered' /\ NestedFresh'
  BY <1>1 DEF Core, EntriesUnique, CollectionSound, CallsOnce, EnabledAllCalled, Buffered,
              NestedFresh, Looping, New, flags
<1> QED BY <1>4, <1>5 DEF Core

\* The events that on_register of a built entry e appends, registration being disabled.
Appended(e) == [k \in DOMAIN OnRegister[e.obj] |-> Built(OnRegister[e.obj][k])]

\* An iteration for an object of this loop.
LEMMA RegisteringStep ==
  ASSUME Ordinary, TypeInv, Core, LoopStep, InPhase(phase, registration_events[i])
  PROVE  LET e == registration_events[i]
             o == e.obj
             td == IF phase = "listeners" /\ o \in Listeners
                   THEN Replay(told, o, EventsBefore(i)) ELSE told
         IN  /\ i' = i + 1
             /\ submitted' = submitted \cup Nested(o)
             /\ registration_events' = registration_events \o Appended(e)
             /\ listeners' = AddListener(listeners, o)
             /\ objects' = IF permanent_registration THEN Append(objects, e) ELSE objects
             /\ calls' = [calls EXCEPT ![o] = 1]
             /\ told' = TellAll(td, listeners, e)
             /\ UNCHANGED <<flags, nr_events_before_disable, phase, todo, gone>>
<1> DEFINE e == registration_events[i]
           o == e.obj
           td == IF phase = "listeners" /\ o \in Listeners
                 THEN Replay(told, o, EventsBefore(i)) ELSE told
<1>1. /\ ~registration_enabled /\ e.built /\ o \in Objects /\ calls[o] = 0
  BY CurrentEntry
<1>2. NestedIn(e) = OnRegister[o]
  BY <1>1 DEF NestedIn
<1>3. [k \in DOMAIN NestedIn(e) |-> EntryFor(NestedIn(e)[k])] = Appended(e)
  <2>1. \A k \in DOMAIN OnRegister[o] : OnRegister[o][k] \notin Delayed
    BY <1>1 DEF Ordinary, Nested, Range
  <2>2. ASSUME NEW k \in DOMAIN OnRegister[o]
        PROVE  EntryFor(OnRegister[o][k]) = Built(OnRegister[o][k])
    <3> DEFINE b == registration_enabled \/ OnRegister[o][k] \notin Delayed
    <3>1. b = TRUE
      BY <2>1
    <3>2. EntryFor(OnRegister[o][k]) = [obj |-> OnRegister[o][k], built |-> b]
      BY DEF EntryFor
    <3> HIDE DEF b
    <3> QED BY <3>1, <3>2 DEF Built
  <2> HIDE DEF o, e
  <2> QED BY <1>2, <2>2 DEF Appended, o
<1>4. ToSet(NestedIn(e)) = Nested(o)
  BY <1>2 DEF ToSet, Nested, Range
<1>5. /\ i' = i + 1
      /\ UNCHANGED <<flags, nr_events_before_disable, phase, todo, gone>>
  BY DEF LoopStep
<1>6. /\ RegisterInternal(e, listeners, IF phase = "listeners" /\ e.built /\ e.obj \in Listeners
                 THEN Replay(told, e.obj, EventsBefore(i)) ELSE told)
      /\ listeners' = IF e.built THEN AddListener(listeners, e.obj) ELSE listeners
      /\ submitted' = submitted \cup ToSet(NestedIn(e))
      /\ registration_events' = registration_events \o
            [k \in DOMAIN NestedIn(e) |-> EntryFor(NestedIn(e)[k])]
  BY DEF LoopStep
<1> HIDE DEF e
<1>7. RegisterInternal(e, listeners, td) /\ listeners' = AddListener(listeners, o)
  BY <1>1, <1>6
<1> HIDE DEF td
<1>8. /\ told' = TellAll(td, listeners, e)
      /\ objects' = IF permanent_registration THEN Append(objects, e) ELSE objects
      /\ calls' = [calls EXCEPT ![o] = calls[o] + 1]
  BY <1>1, <1>7 DEF RegisterInternal
<1>9. calls' = [calls EXCEPT ![o] = 1]
  <2>1. calls[o] + 1 = 1
    BY <1>1
  <2> QED BY <1>8, <2>1
<1> QED BY <1>3, <1>4, <1>5, <1>6, <1>7, <1>8, <1>9 DEF td, e

\* What is appended is unique, built, and the objects nested.
LEMMA AppendedIs ==
  ASSUME Ordinary, NEW e \in Entry
  PROVE  /\ Appended(e) \in Seq(Entry) /\ Unique(Appended(e))
         /\ Range(Appended(e)) = {Built(x) : x \in Nested(e.obj)}
         /\ \A x \in Nested(e.obj) : \E k \in DOMAIN Appended(e) : Appended(e)[k].obj = x
         /\ \A k \in DOMAIN Appended(e) : /\ Appended(e)[k].built
                                          /\ Appended(e)[k].obj \in Nested(e.obj)
<1> DEFINE r == OnRegister[e.obj]
           n == Len(r)
           a == Appended(e)
<1>1. r \in Seq(Objects) /\ n \in Nat /\ DOMAIN r = 1..n /\ IsInjective(r) /\ Nested(e.obj) = Range(r)
  BY EntryOf, OnRegisterIs DEF Ordinary, Nested
<1>2. a = [k \in 1..n |-> Built(r[k])]
  BY <1>1 DEF Appended
<1> HIDE DEF r, n, a
<1>3. \A k \in 1..n : r[k] \in Objects
  BY <1>1
<1>4. \A k \in 1..n : a[k] \in Entry /\ a[k].obj = r[k] /\ a[k].built
  BY <1>2, <1>3, EntryOf
<1>5. a \in Seq(Entry) /\ DOMAIN a = 1..n
  BY <1>1, <1>2, <1>4
<1>6. Unique(a)
  <2>1. \A j, k \in 1..n : a[j].obj = a[k].obj => j = k
    BY <1>1, <1>4 DEF IsInjective
  <2> QED BY <1>5, <2>1, UniqueIs
<1>7. Range(a) = {Built(x) : x \in Range(r)}
  BY <1>1, <1>2, <1>5 DEF Range
<1>8. /\ \A x \in Range(r) : \E k \in 1..n : a[k].obj = x
      /\ \A k \in 1..n : a[k].obj \in Range(r)
  BY <1>1, <1>4 DEF Range
<1> QED BY <1>1, <1>4, <1>5, <1>6, <1>7, <1>8 DEF a

\* An iteration for an object of this loop keeps the core.
LEMMA CoreLoop ==
  ASSUME Ordinary, TypeInv, Core, LoopStep, InPhase(phase, registration_events[i])
  PROVE  Core'
<1> DEFINE E == registration_events
           e == E[i]
           o == e.obj
           a == Appended(e)
           nr == nr_events_before_disable
           n == Len(E)
           m == Len(a)
<1>1. /\ i' = i + 1 /\ submitted' = submitted \cup Nested(o) /\ E' = E \o a
      /\ objects' = IF permanent_registration THEN Append(objects, e) ELSE objects
      /\ calls' = [calls EXCEPT ![o] = 1]
      /\ UNCHANGED <<registration_enabled, nr, phase, todo, gone>>
  BY RegisteringStep DEF flags
<1>2. /\ Looping /\ ~registration_enabled /\ i \in DOMAIN E /\ i \in New
      /\ e \in Entry /\ e \in Range(E) /\ e = Built(o) /\ e.built
      /\ o \in Objects /\ o \in submitted /\ Loop(o) = Rank(phase) /\ calls[o] = 0
  BY CurrentEntry
<1>3. /\ E \in Seq(Entry) /\ nr \in Nat /\ n \in Nat /\ DOMAIN E = 1..n /\ i \in Nat
      /\ objects \in Seq(Entry) /\ todo \in Seq(Objects)
      /\ gone \subseteq submitted /\ submitted \subseteq Objects /\ calls \in [Objects -> Nat]
  BY DEF TypeInv, TypeOK
<1>4. /\ a \in Seq(Entry) /\ Unique(a) /\ Range(a) = {Built(x) : x \in Nested(o)}
      /\ \A x \in Nested(o) : \E k \in DOMAIN a : a[k].obj = x
      /\ \A k \in DOMAIN a : a[k].built /\ a[k].obj \in Nested(o)
  BY <1>2, AppendedIs
<1>5. m \in Nat /\ DOMAIN a = 1..m
  BY <1>4
<1>6. /\ o \notin gone /\ Nested(o) \cap submitted = {} /\ Nested(o) \subseteq Objects
  <2>1. OnRegister[o] \in Seq(Objects)
    BY <1>2, OnRegisterIs
  <2>2. Nested(o) \subseteq Objects
    BY <2>1 DEF Nested, Range
  <2> QED BY <1>2, <1>3, <2>2 DEF Core, CallsOnce, NestedFresh
<1>7. nr <= n /\ i <= n /\ i >= nr + 1
  BY <1>2, <1>3 DEF New
<1> HIDE DEF e, o, a, n, m
<1>8. /\ Len(E') = n + m /\ (\A k \in 1..n : E'[k] = E[k])
      /\ (\A k \in 1..m : E'[n + k] = a[k])
  BY <1>1, <1>3, <1>4, <1>5 DEF n, m
<1>9. E' \in Seq(Entry) /\ Range(E') = Range(E) \cup Range(a) /\ Unique(E')
  <2>1. \A f \in Range(E) : f.obj \in submitted
    BY DEF TypeInv, Known
  <2>2. \A f \in Range(a) : f.obj \in Nested(o)
    BY <1>4 DEF Range
  <2>3. \A f \in Range(E), g \in Range(a) : f.obj # g.obj
    BY <1>6, <2>1, <2>2
  <2>4. /\ E' \in Seq(Entry) /\ Range(E') = Range(E) \cup Range(a)
        /\ IsInjective(E) /\ IsInjective(a) /\ Range(E) \cap Range(a) = {} => IsInjective(E')
    BY <1>1, <1>3, <1>4, ConcatKeeps
  <2>5. Unique(E)
    BY DEF Core, EntriesUnique
  <2>6. Range(E) \cap Range(a) = {}
    BY <2>3
  <2> QED BY <1>4, <2>3, <2>4, <2>5, <2>6 DEF Unique
<1>10. Unique(objects') /\ Range(objects') \subseteq Range(objects) \cup {e}
  <2>1. \A f \in Range(objects) : f.obj # o
    BY <1>2 DEF Core, CollectionSound
  <2> QED BY <1>1, <1>2, <1>3, <2>1, UniqueIs DEF Core, EntriesUnique, o
<1>11. EntriesUnique'
  BY <1>9, <1>10 DEF EntriesUnique
<1>12. CollectionSound'
  <2>1. \A f \in Range(objects) : f.obj \in Objects
    BY <1>3, EntryOf DEF Range
  <2>2. calls'[o] = 1 /\ \A x \in Objects : calls[x] = 1 => calls'[x] = 1
    BY <1>1, <1>2, <1>3
  <2> QED BY <1>1, <1>2, <1>6, <1>10, <2>1, <2>2 DEF Core, CollectionSound, o
<1>13. CallsOnce'
  <2>1. \A x \in Objects : calls'[x] = IF x = o THEN 1 ELSE calls[x]
    BY <1>1, <1>3
  <2>2. ASSUME NEW g \in gone PROVE Built(g) \notin Range(a)
    <3>1. g \notin Nested(o) /\ g \in Objects
      BY <1>3, <1>6
    <3>2. \A x \in Nested(o) : Built(x).obj = x
      BY <1>6, EntryOf
    <3>3. Built(g).obj = g
      BY <3>1, EntryOf
    <3> QED BY <1>4, <3>1, <3>2, <3>3
  <2> QED BY <1>1, <1>2, <1>9, <2>1, <2>2 DEF Core, CallsOnce
<1>14. EnabledAllCalled'
  BY <1>1, <1>2 DEF EnabledAllCalled
<1>15. New' = nr + 1 .. n + m
  BY <1>1, <1>8 DEF New
<1>16. \A k \in 1..n : E[k].obj \in submitted /\ E[k].obj \in Objects
  <2>1. \A k \in DOMAIN E : E[k] \in Range(E) /\ E[k] \in Entry
    <3> HIDE DEF E
    <3> QED BY <1>3 DEF Range
  <2> QED BY <1>3, <2>1, EntryOf DEF TypeInv, Known
<1>17. \A x \in Objects : calls'[x] = IF x = o THEN 1 ELSE calls[x]
  BY <1>1, <1>3
<1>18. New = nr + 1 .. n
  BY DEF New, n
<1>19. Buffered'
  <2>1. /\ phase # "clearing" /\ todo = << >>
        /\ \A k \in 1 .. nr : calls[E[k].obj] = 1
        /\ \A x \in submitted : calls[x] = 0 => \E k \in nr + 1 .. n : E[k].obj = x
    BY <1>2, <1>18 DEF Core, Buffered
  <2>2. \A k \in 1 .. nr : calls'[E'[k].obj] = 1
    <3>1. \A k \in 1 .. nr : k \in 1..n
      BY <1>3, <1>7
    <3> QED BY <1>8, <1>16, <1>17, <2>1, <3>1
  <2>3. ASSUME NEW x \in submitted', calls'[x] = 0
        PROVE  \E k \in nr + 1 .. n + m : E'[k].obj = x
    <3>1. CASE x \in submitted
      <4>1. calls[x] = 0
        BY <1>3, <1>17, <2>3, <3>1
      <4>2. PICK k \in nr + 1 .. n : E[k].obj = x
        BY <2>1, <3>1, <4>1
      <4>3. k \in nr + 1 .. n + m /\ k \in 1..n
        BY <1>3, <1>5
      <4> QED BY <1>8, <4>2, <4>3
    <3>2. CASE x \in Nested(o)
      <4>1. PICK k \in 1..m : a[k].obj = x
        BY <1>4, <1>5, <3>2
      <4>2. n + k \in nr + 1 .. n + m
        BY <1>3, <1>5, <1>7
      <4> QED BY <1>8, <4>1, <4>2
    <3> QED BY <1>1, <3>1, <3>2
  <2>4. nr <= Len(E')
    BY <1>3, <1>5, <1>7, <1>8
  <2>5. Looping'
    BY <1>1, <1>2 DEF Looping
  <2> QED BY <1>1, <1>15, <2>1, <2>2, <2>3, <2>4, <2>5 DEF Buffered
<1>20. LoopProgress'
  <2>1. i' \in nr + 1 .. (n + m) + 1
    BY <1>1, <1>3, <1>5, <1>7
  <2>2. ASSUME NEW k \in nr + 1 .. n + m
        PROVE  /\ E'[k].built
               /\ calls'[E'[k].obj] = 1 <=>
                    Loop(E'[k].obj) < Rank(phase) \/ (Loop(E'[k].obj) = Rank(phase) /\ k < i + 1)
    <3>1. CASE k <= n
      <4>1. k \in 1..n /\ k \in New /\ E'[k] = E[k] /\ E[k].obj \in Objects
        BY <1>3, <1>5, <1>8, <1>16, <1>18, <3>1
      <4>2. /\ E[k].built
            /\ calls[E[k].obj] = 1 <=>
                 Loop(E[k].obj) < Rank(phase) \/ (Loop(E[k].obj) = Rank(phase) /\ k < i)
        BY <1>2, <4>1 DEF Core, LoopProgress
      <4>3. CASE k = i
        <5>1. E'[k].obj = o /\ k < i + 1
          BY <1>3, <4>1, <4>3 DEF o, e
        <5> QED BY <1>2, <1>17, <4>1, <4>2, <5>1
      <4>4. CASE k # i
        <5>1. E[k].obj # o
          <6>1. \A j, l \in DOMAIN E : E[j].obj = E[l].obj => j = l
            BY <1>3, UniqueIs DEF Core, EntriesUnique
          <6> QED BY <1>2, <1>3, <4>1, <4>4, <6>1 DEF o, e
        <5>2. k < i + 1 <=> k < i
          BY <1>3, <4>1, <4>4
        <5> QED BY <1>17, <4>1, <4>2, <5>1, <5>2
      <4> QED BY <4>3, <4>4
    <3>2. CASE ~(k <= n)
      <4> DEFINE j == k - n
                 x == a[j].obj
      <4>1. j \in 1..m /\ n + j = k /\ ~(k < i + 1)
        BY <1>3, <1>5, <1>7, <3>2
      <4> HIDE DEF j
      <4>2. E'[k] = a[j]
        BY <1>8, <4>1
      <4>3. a[j].built /\ x \in Nested(o)
        BY <1>4, <1>5, <4>1
      <4>4. x \in Objects /\ x \notin submitted /\ x # o
        BY <1>2, <1>6, <4>3
      <4>5. calls'[x] = 0
        BY <1>17, <4>4 DEF Core, CallsOnce
      <4>6. Loop(x) >= Loop(o)
        BY <1>2, <4>3 DEF Ordinary
      <4>7. ~(Loop(x) < Rank(phase))
        BY <1>2, <4>6, LoopIs
      <4> QED BY <4>1, <4>2, <4>3, <4>5, <4>7
    <3> QED BY <3>1, <3>2
  <2>3. /\ ~registration_enabled' /\ New' = nr + 1 .. n + m
        /\ i' \in nr' + 1 .. Len(E') + 1
    BY <1>1, <1>2, <1>8, <1>15, <2>1
  <2> QED BY <1>1, <2>2, <2>3 DEF LoopProgress
<1>21. NestedFresh'
  <2>1. ASSUME NEW p \in Objects, calls'[p] = 0 PROVE Nested(p) \cap (submitted' \cup Range(todo')) = {}
    <3>1. p # o /\ calls[p] = 0
      BY <1>17, <2>1
    <3>2. Nested(p) \cap Nested(o) = {}
      BY <1>2, <3>1 DEF Ordinary
    <3>3. Nested(p) \cap (submitted \cup Range(todo)) = {}
      BY <3>1 DEF Core, NestedFresh
    <3> QED BY <1>1, <3>2, <3>3
  <2>2. Range(todo) = {} /\ IsInjective(todo)
    <3>1. todo = << >>
      BY <1>2 DEF Core, Buffered
    <3> QED BY <3>1, EmptyKeeps
  <2> QED BY <1>1, <2>1, <2>2 DEF NestedFresh
<1> QED BY <1>11, <1>12, <1>13, <1>14, <1>19, <1>20, <1>21 DEF Core

\* The next loop, and the end of the last one
LEMMA CoreNextLoop ==
  ASSUME TypeInv, Core, NextLoop
  PROVE  Core'
<1> DEFINE E == registration_events
           nr == nr_events_before_disable
<1>1. /\ i > Len(E) /\ i' = nr + 1 /\ Looping /\ Looping' /\ Rank(phase') = Rank(phase) + 1
      /\ phase' # "clearing"
      /\ UNCHANGED <<registration_enabled, nr, E, objects, todo, submitted, gone, calls>>
  <2>1. PICK k \in 1..3 : phase = Phases[k] /\ phase' = Phases[k + 1]
    BY DEF NextLoop
  <2>2. /\ Phases[1] = "servers" /\ Phases[2] = "drivers"
        /\ Phases[3] = "listeners" /\ Phases[4] = "remaining"
    BY DEF Phases
  <2>3. \/ phase = "servers" /\ phase' = "drivers"
        \/ phase = "drivers" /\ phase' = "listeners"
        \/ phase = "listeners" /\ phase' = "remaining"
    <3>1. k = 1 \/ k = 2 \/ k = 3
      OBVIOUS
    <3>2. 1 + 1 = 2 /\ 2 + 1 = 3 /\ 3 + 1 = 4
      OBVIOUS
    <3> QED BY <2>1, <2>2, <3>1, <3>2
  <2>4. Looping /\ Looping' /\ phase' # "clearing"
    BY <2>3 DEF Looping
  <2>5. Rank(phase') = Rank(phase) + 1
    BY <2>3 DEF Rank
  <2> QED BY <2>4, <2>5 DEF NextLoop, flags, history
<1>2. i \in Nat /\ Len(E) \in Nat /\ nr \in Nat
  BY DEF TypeInv, TypeOK
<1>3. /\ ~registration_enabled /\ nr <= Len(E)
      /\ \A k \in New : /\ E[k].built
                        /\ calls[E[k].obj] = 1 <=>
                             \/ Loop(E[k].obj) < Rank(phase)
                             \/ Loop(E[k].obj) = Rank(phase) /\ k < i
  BY <1>1 DEF Core, LoopProgress, Buffered
<1>4. ASSUME NEW k \in New
      PROVE  /\ E[k].built
             /\ calls[E[k].obj] = 1 <=>
                  Loop(E[k].obj) < Rank(phase') \/ (Loop(E[k].obj) = Rank(phase') /\ k < i')
  <2>1. k < i /\ ~(k < i')
    BY <1>1, <1>2 DEF New
  <2>2. Loop(E[k].obj) \in 1..4 /\ Rank(phase) \in 1..4
    BY LoopIs
  <2> QED BY <1>1, <1>3, <2>1, <2>2
<1>5. LoopProgress'
  <2>1. i' \in nr + 1 .. Len(E) + 1
    BY <1>1, <1>2, <1>3
  <2>2. New' = New
    BY <1>1 DEF New
  <2> QED BY <1>1, <1>3, <1>4, <2>1, <2>2 DEF LoopProgress
<1>6. /\ EntriesUnique' /\ CollectionSound' /\ CallsOnce' /\ EnabledAllCalled'
      /\ Buffered' /\ NestedFresh'
  BY <1>1, <1>3 DEF Core, EntriesUnique, CollectionSound, CallsOnce, EnabledAllCalled, Buffered,
              NestedFresh, New
<1> QED BY <1>5, <1>6 DEF Core

\* After the last loop everything has been registered.
LEMMA CoreDone ==
  ASSUME TypeInv, Core, EnableDone
  PROVE  Core'
<1> DEFINE E == registration_events
           nr == nr_events_before_disable
<1>1. /\ i > Len(E) /\ phase = "remaining" /\ phase' = "idle" /\ Looping /\ ~Looping'
      /\ registration_enabled' /\ (E' = E \/ E' = << >>)
      /\ UNCHANGED <<objects, todo, submitted, gone, calls>>
  BY DEF EnableDone, history, Looping
<1>2. i \in Nat /\ Len(E) \in Nat /\ nr \in Nat
  BY DEF TypeInv, TypeOK
<1>3. /\ ~registration_enabled
      /\ \A o \in submitted : calls[o] = 0 => \E k \in New : E[k].obj = o
      /\ \A k \in New : calls[E[k].obj] = 1 <=>
                             \/ Loop(E[k].obj) < Rank(phase)
                             \/ Loop(E[k].obj) = Rank(phase) /\ k < i
  BY <1>1 DEF Core, LoopProgress, Buffered
<1>4. \A k \in New : calls[E[k].obj] = 1
  <2>1. \A k \in New : k < i
    BY <1>1, <1>2 DEF New
  <2>2. Rank(phase) = 4
    BY <1>1 DEF Rank
  <2>3. \A o : Loop(o) < 4 \/ Loop(o) = 4
    BY LoopIs
  <2> QED BY <1>3, <2>1, <2>2, <2>3
<1>5. \A o \in submitted : calls[o] = 1
  <2>1. \A o \in submitted : calls[o] = 0 \/ calls[o] = 1
    BY DEF Core, CallsOnce, TypeInv, TypeOK
  <2> QED BY <1>3, <1>4, <2>1
<1>6. EnabledAllCalled' /\ Buffered' /\ LoopProgress'
  BY <1>1, <1>5 DEF EnabledAllCalled, Buffered, LoopProgress
<1>7. EntriesUnique' /\ Range(E') \subseteq Range(E)
  <2>1. Unique(<< >>) /\ Range(<< >>) = {}
    BY EmptyKeeps DEF Unique
  <2> QED BY <1>1, <2>1 DEF Core, EntriesUnique
<1>8. CollectionSound' /\ CallsOnce' /\ NestedFresh'
  BY <1>1, <1>7 DEF Core, CollectionSound, CallsOnce, NestedFresh
<1> QED BY <1>6, <1>7, <1>8 DEF Core

\* disable_registration remembers that all events so far have been sent.
LEMMA CoreDisable ==
  ASSUME TypeInv, Core, Disable
  PROVE  Core'
<1> DEFINE E == registration_events
<1>1. /\ phase = "idle" /\ todo = << >> /\ registration_enabled /\ ~registration_enabled'
      /\ nr_events_before_disable' = Len(E) /\ ~Looping'
      /\ UNCHANGED <<E, phase, objects, todo, submitted, gone, calls>>
  BY DEF Disable, Ready, Looping, history
<1>2. E \in Seq(Entry) /\ Len(E) \in Nat /\ DOMAIN E = 1 .. Len(E)
  BY DEF TypeInv, TypeOK
<1>3. \A k \in 1 .. Len(E) : calls[E[k].obj] = 1
  <2>1. \A k \in 1 .. Len(E) : E[k] \in Range(E)
    BY <1>2 DEF Range
  <2> QED BY <1>1, <2>1 DEF Core, EnabledAllCalled, TypeInv, Known
<1>4. New' = {}
  BY <1>1, <1>2 DEF New
<1>5. Buffered'
  <2>1. \A o \in submitted : calls[o] # 0
    BY <1>1 DEF Core, EnabledAllCalled
  <2>2. Len(E) <= Len(E)
    BY <1>2
  <2> QED BY <1>1, <1>3, <1>4, <2>1, <2>2 DEF Buffered
<1>6. /\ EntriesUnique' /\ CollectionSound' /\ CallsOnce' /\ EnabledAllCalled'
      /\ LoopProgress' /\ NestedFresh'
  BY <1>1 DEF Core, EntriesUnique, CollectionSound, CallsOnce, EnabledAllCalled, LoopProgress,
              NestedFresh
<1> QED BY <1>5, <1>6 DEF Core

\* An object is unregistered, registration being enabled.
LEMMA CoreUnregister ==
  ASSUME TypeInv, Core, NEW e \in Entry, e.built, e.obj \in submitted, registration_enabled,
         UnregisterObject(e), UNCHANGED phase
  PROVE  Core'
<1> DEFINE E == registration_events
           o == e.obj
<1>1. /\ objects' = RemoveObject(objects, e) /\ E' = Only(E, Entry \ {e}) /\ gone' = gone \cup {o}
      /\ UNCHANGED <<registration_enabled, todo, submitted, calls>>
  BY DEF UnregisterObject, EraseEvents, flags
<1>2. /\ E \in Seq(Entry) /\ objects \in Seq(Entry) /\ o \in Objects /\ e = Built(o)
  BY EntryOf DEF TypeInv, TypeOK
<1>3. /\ calls[o] = 1 /\ ~Looping
  BY DEF Core, EnabledAllCalled
<1>4. E' \in Seq(Entry) /\ Range(E') \subseteq Range(E) \ {e} /\ Unique(E')
  <2>1. /\ E' \in Seq(Entry) /\ Range(E') = Range(E) \cap (Entry \ {e})
        /\ IsInjective(E) => IsInjective(E')
    BY <1>1, <1>2, OnlyKeeps
  <2>2. Unique(E) /\ IsInjective(E)
    BY DEF Core, EntriesUnique, Unique
  <2> QED BY <1>2, <2>1, <2>2, UniqueIs
<1>5. objects' \in Seq(Entry) /\ Range(objects') = Range(objects) \ {e} /\ Unique(objects')
  <2>1. Unique(objects) /\ IsInjective(objects)
    BY DEF Core, EntriesUnique, Unique
  <2>2. objects' \in Seq(Entry) /\ IsInjective(objects') /\ Range(objects') = Range(objects) \ {e}
    BY <1>1, <1>2, <2>1, RemoveObjectIs
  <2> QED BY <1>2, <2>1, <2>2, UniqueIs
<1>6. EntriesUnique'
  BY <1>4, <1>5 DEF EntriesUnique
<1>7. CollectionSound'
  <2>1. ASSUME NEW f \in Range(objects'), f.obj = o PROVE FALSE
    <3>1. f \in Range(objects) /\ f # e /\ f \in Entry
      BY <1>2, <1>5 DEF Range
    <3>2. f.built
      BY <3>1 DEF Core, CollectionSound
    <3>3. f = Built(f.obj)
      BY <3>1, <3>2, EntryOf
    <3> QED BY <1>2, <2>1, <3>1, <3>3
  <2> QED BY <1>1, <1>5, <2>1 DEF Core, CollectionSound
<1>8. CallsOnce'
  <2>1. \A g \in gone' : Built(g) \notin Range(E')
    BY <1>1, <1>2, <1>4 DEF Core, CallsOnce, TypeInv, TypeOK
  <2> QED BY <1>1, <1>3, <2>1 DEF Core, CallsOnce
<1>9. EnabledAllCalled' /\ Buffered' /\ LoopProgress' /\ NestedFresh'
  BY <1>1, <1>3 DEF Core, EnabledAllCalled, Buffered, LoopProgress, NestedFresh, Looping
<1> QED BY <1>6, <1>7, <1>8, <1>9 DEF Core

\* The events that have been sent are dropped.
LEMMA CoreCleanup ==
  ASSUME TypeInv, Core, EnableCleanup
  PROVE  Core'
<1> DEFINE E == registration_events
           nr == nr_events_before_disable
           n == Len(E)
           new == SubSeq(E, nr + 1, n)
<1>1. /\ E' = IF registration_enabled THEN << >> ELSE new
      /\ nr_events_before_disable' = 0 /\ phase = "idle" /\ ~Looping /\ todo = << >>
      /\ UNCHANGED <<registration_enabled, phase, objects, todo, submitted, gone, calls>>
  BY DEF EnableCleanup, Ready, Looping, history
<1>2. E \in Seq(Entry) /\ nr \in Nat /\ n \in Nat /\ DOMAIN E = 1..n
  BY DEF TypeInv, TypeOK
<1>3. ASSUME ~registration_enabled
      PROVE  /\ new \in Seq(Entry) /\ Len(new) = n - nr /\ nr <= n
             /\ \A k \in 1 .. n - nr : k + nr \in nr + 1 .. n /\ k + nr \in 1..n /\ new[k] = E[k + nr]
  <2>1. nr <= n
    BY <1>3 DEF Core, Buffered
  <2>2. /\ new \in Seq(Entry) /\ Len(new) = n - nr
        /\ \A k \in 1 .. n - nr : new[k] = E[k + nr]
    <3>1. n <= Len(E)
      BY <1>2
    <3> HIDE DEF n
    <3> QED BY <1>2, <2>1, <3>1, SubSeqIs
  <2>3. \A k \in 1 .. n - nr : k + nr \in nr + 1 .. n /\ k + nr \in 1..n
    BY <1>2, <2>1
  <2> HIDE DEF new
  <2> QED BY <2>1, <2>2, <2>3
<1> HIDE DEF new, n
<1>4. ASSUME ~registration_enabled PROVE Range(new) \subseteq Range(E) /\ Unique(new)
  <2>1. DOMAIN new = 1 .. n - nr
    BY <1>3, <1>4
  <2>2. Range(new) \subseteq Range(E)
    BY <1>2, <1>3, <1>4, <2>1 DEF Range
  <2>3. \A j, k \in 1..n : E[j].obj = E[k].obj => j = k
    BY <1>2, UniqueIs DEF Core, EntriesUnique
  <2>4. ASSUME NEW j \in 1 .. n - nr, NEW k \in 1 .. n - nr, new[j].obj = new[k].obj PROVE j = k
    <3>1. j + nr = k + nr
      BY <1>3, <1>4, <2>3, <2>4
    <3> QED BY <1>2, <3>1
  <2>5. Unique(new)
    BY <1>3, <1>4, <2>1, <2>4, UniqueIs
  <2> QED BY <2>2, <2>5
<1>5. Unique(<< >>) /\ Range(<< >>) = {}
  BY EmptyKeeps DEF Unique
<1>6. EntriesUnique' /\ Range(E') \subseteq Range(E)
  BY <1>1, <1>4, <1>5 DEF Core, EntriesUnique
<1>7. CollectionSound' /\ CallsOnce' /\ NestedFresh' /\ EnabledAllCalled' /\ LoopProgress'
  BY <1>1, <1>6 DEF Core, CollectionSound, CallsOnce, NestedFresh, EnabledAllCalled, LoopProgress, Looping
<1>8. Buffered'
  <2> SUFFICES ASSUME ~registration_enabled PROVE Buffered'
    BY <1>1 DEF Buffered
  <2>1. /\ \A o \in submitted : calls[o] = 0 => \E k \in nr + 1 .. n : E[k].obj = o
        /\ \A k \in nr + 1 .. n : calls[E[k].obj] = 0
    BY <1>1 DEF Core, Buffered, New, n
  <2>2. E' = new /\ Len(new) = n - nr
    BY <1>1, <1>3
  <2>3. New' = 1 .. n - nr
    BY <1>1, <2>2 DEF New
  <2>4. \A k \in 1 .. n - nr : calls[new[k].obj] = 0
    BY <1>3, <2>1
  <2>5. ASSUME NEW o \in submitted, calls[o] = 0 PROVE \E k \in 1 .. n - nr : new[k].obj = o
    <3>1. PICK k \in nr + 1 .. n : E[k].obj = o
      BY <2>1, <2>5
    <3>2. k - nr \in 1 .. n - nr /\ (k - nr) + nr = k
      BY <1>2
    <3>3. new[k - nr] = E[k]
      BY <1>3, <3>2
    <3> QED BY <3>1, <3>2, <3>3
  <2>6. 0 <= n - nr /\ 1..0 = {}
    BY <1>2, <1>3
  <2> QED BY <1>1, <2>2, <2>3, <2>4, <2>5, <2>6 DEF Buffered, Looping
<1> QED BY <1>6, <1>7, <1>8 DEF Core

\* The core at the start
LEMMA CoreInit == Init => Core
<1> SUFFICES ASSUME Init PROVE Core
  OBVIOUS
<1>1. /\ Range(registration_events) = {} /\ IsInjective(registration_events)
      /\ Range(objects) = {} /\ IsInjective(objects) /\ Range(todo) = {} /\ IsInjective(todo)
  BY EmptyKeeps DEF Init
<1>2. /\ \A o \in Objects : calls[o] = 0
      /\ submitted = {} /\ gone = {} /\ ~registration_enabled /\ ~Looping /\ phase # "clearing"
      /\ todo = << >> /\ nr_events_before_disable = 0 /\ registration_events = << >>
  BY DEF Init, Looping
<1>3. EntriesUnique /\ CollectionSound /\ CallsOnce /\ EnabledAllCalled /\ LoopProgress /\ NestedFresh
  BY <1>1, <1>2 DEF EntriesUnique, Unique, CollectionSound, CallsOnce, EnabledAllCalled,
                    LoopProgress, NestedFresh
<1>4. Len(registration_events) = 0 /\ 1..0 = {} /\ New = {}
  BY <1>2 DEF New
<1>5. Buffered
  BY <1>2, <1>4 DEF Buffered
<1> QED BY <1>3, <1>5 DEF Core

\* The kinds of steps: an event is buffered,
Buffers(e) ==
  /\ RegisterObject(e, << >>) /\ ~registration_enabled /\ ~Looping /\ e.obj \notin submitted
  /\ \A p \in Objects : e.obj \notin Nested(p)

\* an object is registered at once,
Registers(e, rest) ==
  /\ RegisterObject(e, rest) /\ registration_enabled /\ e.obj \notin submitted
  /\ \A p \in Objects : calls[p] = 0 => e.obj \notin Nested(p)
  /\ IsInjective(rest) /\ Range(rest) \subseteq Range(todo) /\ e.obj \notin Range(rest)
  /\ e.built \/ "raw_constructor" \in Uses

\* an object is unregistered,
Unregisters(e) ==
  /\ UnregisterObject(e) /\ e.built /\ e.obj \in submitted /\ registration_enabled
  /\ UNCHANGED phase

\* nothing is registered or unregistered.
Quiet ==
  /\ UNCHANGED <<registration_enabled, nr_events_before_disable, registration_events,
                 listeners, objects, i, todo, history>>
  /\ registration_event_cleanup' => registration_event_cleanup
  /\ phase' = phase \/ (registration_enabled /\ phase' \in {"idle", "clearing"})

\* Other steps leave the core alone.
LEMMA CoreQuiet ==
  ASSUME TypeInv, Core, Quiet
  PROVE  Core'
<1>1. Looping' => Looping
  BY DEF Looping, Quiet
<1>2. CASE phase' = phase
  BY <1>2 DEF Quiet, history, Core, EntriesUnique, CollectionSound, CallsOnce, EnabledAllCalled,
              Buffered, LoopProgress, NestedFresh, New, Looping
<1>3. CASE registration_enabled /\ phase' \in {"idle", "clearing"}
  <2>1. ~Looping'
    BY <1>3 DEF Looping
  <2> QED BY <1>3, <2>1 DEF Quiet, history, Core, EntriesUnique, CollectionSound, CallsOnce,
                            EnabledAllCalled, Buffered, LoopProgress, NestedFresh
<1> QED BY <1>2, <1>3 DEF Quiet

\* register_object of the program: the object is not one that on_register registers.
LEMMA Submits ==
  ASSUME Ordinary, Ready, NEW e \in Entry, RegisterObject(e, << >>),
         e.obj \in FromProgram \ submitted,
         registration_enabled => e.built \/ "raw_constructor" \in Uses
  PROVE  Buffers(e) \/ Registers(e, << >>)
<1>1. \A p \in Objects : e.obj \notin Nested(p)
  <2> SUFFICES ASSUME NEW p \in Objects PROVE e.obj \notin Nested(p)
    OBVIOUS
  <2>1. OnRegister[p] \in Seq(Objects \ FromProgram)
    BY RegistryAssumption
  <2> QED BY <2>1 DEF Nested, Range
<1>2. ~Looping
  BY DEF Ready, Looping
<1>3. IsInjective(<< >>) /\ Range(<< >>) = {}
  BY EmptyKeeps
<1>4. CASE registration_enabled
  BY <1>1, <1>3, <1>4 DEF Registers
<1>5. CASE ~registration_enabled
  BY <1>1, <1>2, <1>5 DEF Buffers
<1> QED BY <1>4, <1>5

\* An enabled registration gets objects, not constructors.
LEMMA EntryForIs ==
  ASSUME NEW o \in Objects, registration_enabled
  PROVE  EntryFor(o).built
<1> DEFINE b == registration_enabled \/ o \notin Delayed
<1>1. EntryFor(o) = [obj |-> o, built |-> b]
  BY DEF EntryFor
<1>2. b = TRUE
  OBVIOUS
<1> HIDE DEF b
<1> QED BY <1>1, <1>2

\* Every step is of one of these kinds or one of enabling, disabling and cleanup.
LEMMA StepKinds ==
  ASSUME Ordinary, TypeInv, Core, [Next /\ Orderly]_vars
  PROVE  \/ \E e \in Entry : Buffers(e) \/ Unregisters(e)
         \/ \E e \in Entry, rest \in Seq(Objects) : Registers(e, rest)
         \/ Enable /\ OldEventsStay
         \/ LoopStep \/ NextLoop \/ EnableDone \/ Disable \/ EnableCleanup \/ Quiet
<1> DEFINE Some == \/ \E e \in Entry : Buffers(e) \/ Unregisters(e)
                   \/ \E e \in Entry, rest \in Seq(Objects) : Registers(e, rest)
<1>0. << >> \in Seq(Objects)
  OBVIOUS
<1>1. ASSUME UNCHANGED vars PROVE Quiet
  BY <1>1 DEF vars, flags, Quiet
<1>2. ASSUME NEW o \in Objects, Register(o) PROVE Some
  <2>1. /\ Ready /\ EntryFor(o) \in Entry /\ EntryFor(o).obj = o
        /\ RegisterObject(EntryFor(o), << >>) /\ o \in FromProgram \ submitted
        /\ registration_enabled => EntryFor(o).built
    BY <1>2, EntryOf, EntryForIs DEF Register
  <2>2. Buffers(EntryFor(o)) \/ Registers(EntryFor(o), << >>)
    BY <2>1, Submits
  <2> QED BY <1>0, <2>1, <2>2
<1>3. ASSUME NEW o \in Objects, RegisterConstructor(o) PROVE Some
  <2> DEFINE e == [obj |-> o, built |-> FALSE]
  <2>1. e \in Entry /\ e.obj = o
    BY DEF Entry
  <2>2. /\ Ready /\ RegisterObject(e, << >>) /\ o \in FromProgram \ submitted
        /\ "raw_constructor" \in Uses
    BY <1>3 DEF RegisterConstructor
  <2> HIDE DEF e
  <2>3. Buffers(e) \/ Registers(e, << >>)
    BY <2>1, <2>2, Submits
  <2> QED BY <1>0, <2>1, <2>3
<1>4. ASSUME NEW o \in Objects, Unregister(o) PROVE Some
  <2>1. /\ Built(o) \in Entry /\ Built(o).obj = o /\ Built(o).built /\ o \in submitted
        /\ registration_enabled /\ UnregisterObject(Built(o)) /\ UNCHANGED phase
    BY <1>4, EntryOf DEF Unregister, Ordinary
  <2> QED BY <2>1 DEF Unregisters
<1>5. ASSUME RegisterNested PROVE Some
  <2> DEFINE o == Head(todo)
             e == EntryFor(o)
  <2>0. todo \in Seq(Objects) /\ todo # << >> /\ RegisterObject(e, Tail(todo))
    BY <1>5 DEF RegisterNested, TypeInv, TypeOK
  <2>1. /\ o \in Objects /\ o \in Range(todo) /\ Tail(todo) \in Seq(Objects)
        /\ Range(Tail(todo)) \subseteq Range(todo) /\ IsInjective(Tail(todo)) /\ o \notin Range(Tail(todo))
    BY <2>0, TailKeeps DEF Core, NestedFresh
  <2>2. registration_enabled
    BY <2>0 DEF Core, Buffered
  <2>3. e \in Entry /\ e.obj = o /\ e.built
    BY <2>1, <2>2, EntryOf, EntryForIs
  <2>4. o \notin submitted /\ \A p \in Objects : calls[p] = 0 => o \notin Nested(p)
    BY <2>1 DEF Core, NestedFresh
  <2> HIDE DEF o, e
  <2>5. Registers(e, Tail(todo))
    BY <2>0, <2>1, <2>2, <2>3, <2>4 DEF Registers
  <2> QED BY <2>1, <2>3, <2>5
<1>6. ASSUME UnregisterAll PROVE Quiet
  BY <1>6 DEF UnregisterAll, Quiet, flags
<1>7. ASSUME ClearStep PROVE Some
  <2> DEFINE e == Last(objects)
  <2>1. e \in Range(objects) /\ e \in Entry
    BY <1>7 DEF ClearStep, Last, Range, TypeInv, TypeOK
  <2>2. e.obj \in submitted /\ e.built
    BY <2>1 DEF TypeInv, Known, Core, CollectionSound
  <2> HIDE DEF e
  <2>3. UnregisterObject(e) /\ UNCHANGED phase
    BY <1>7 DEF ClearStep, e
  <2>4. registration_enabled
    BY <1>7 DEF ClearStep, Core, Buffered
  <2> QED BY <2>1, <2>2, <2>3, <2>4 DEF Unregisters
<1>8. ASSUME ClearDone PROVE Quiet
  BY <1>8 DEF ClearDone, Quiet, flags, Core, Buffered
<1>9. ASSUME EnablePermanent \/ DisablePermanent \/ DisableCleanup PROVE Quiet
  BY <1>9 DEF EnablePermanent, DisablePermanent, DisableCleanup, Quiet
<1> HIDE DEF Some
<1>10. \/ Some
       \/ Enable /\ OldEventsStay
       \/ LoopStep \/ NextLoop \/ EnableDone \/ Disable \/ EnableCleanup \/ Quiet
  BY <1>1, <1>2, <1>3, <1>4, <1>5, <1>6, <1>7, <1>8, <1>9 DEF Next, Orderly, EnableStep, ClearAllStep
<1> QED BY <1>10 DEF Some

\* Every step keeps the core.
LEMMA CoreStep ==
  ASSUME Ordinary, TypeInv, Core, [Next /\ Orderly]_vars
  PROVE  Core'
<1>1. ASSUME NEW e \in Entry, Buffers(e) PROVE Core'
  BY <1>1, CoreBuffer DEF Buffers
<1>2. ASSUME NEW e \in Entry, Unregisters(e) PROVE Core'
  BY <1>2, CoreUnregister DEF Unregisters
<1>3. ASSUME NEW e \in Entry, NEW rest \in Seq(Objects), Registers(e, rest) PROVE Core'
  BY <1>3, CoreRegister DEF Registers
<1>4. CASE LoopStep
  BY <1>4, CoreLoop, CoreSkip
<1> QED BY <1>1, <1>2, <1>3, <1>4, StepKinds, CoreEnable, CoreNextLoop, CoreDone, CoreDisable,
           CoreCleanup, CoreQuiet

\* Core is inductive, given the types.
LEMMA CoreInvariant == ASSUME Ordinary PROVE OrderedSpec => [](TypeInv /\ Core)
<1>1. Init => TypeInv /\ Core
  BY TypeInit, CoreInit
<1>2. TypeInv /\ Core /\ [Next /\ Orderly]_vars => (TypeInv /\ Core)'
  BY TypeStep, CoreStep
<1> QED BY <1>1, <1>2, PTL DEF OrderedSpec

\* Enabling registration sends all that was buffered and nothing twice, whatever
\* plugins, nested registrations, cleanup and constructors are involved: once it is
\* enabled and no call is under way, every object has been registered once.
THEOREM EverythingIsSent == ASSUME Ordinary PROVE OrderedSpec => []AllSent
<1>1. TypeInv /\ Core => AllSent
  BY DEF Core, EnabledAllCalled, AllSent, Present
<1> QED BY <1>1, CoreInvariant, PTL

-----------------------------------------------------------------------------
(* What listeners are told                                                 *)

\* The events that listener o is told of, and the listeners that are told of o, when
\* on_register of o is called.
Replayed(o, events, ls) ==
  \A l \in Listeners, x \in Objects :
    told'[l][x] = told[l][x] + (IF l = o THEN Occurrences(events, Built(x)) ELSE 0)
                             + (IF x = o THEN Occurrences(ls, l) ELSE 0)

\* on_register of o is called, once: of the events that o is told of, none is of an
\* object that is gone or that has not been registered.
Called(o, events, ls) ==
  /\ o \in Objects /\ o \notin gone /\ calls[o] = 0 /\ calls' = [calls EXCEPT ![o] = 1]
  /\ UNCHANGED gone
  /\ listeners' = AddListener(listeners, o) /\ ls \in {listeners, listeners'}
  /\ events \in Seq(Entry) /\ IsInjective(events)
  /\ \A x \in Objects : Built(x) \in Range(events) => x \notin gone /\ calls'[x] = 1
  /\ Replayed(o, events, ls)

\* The listeners after one object more has been registered
LEMMA ListenersAre ==
  ASSUME TypeInv, NEW o \in Objects, listeners' = AddListener(listeners, o)
  PROVE  /\ listeners \in Seq(Listeners) /\ listeners' \in Seq(Listeners)
         /\ Range(listeners') = Range(listeners) \cup (Listeners \cap {o})
         /\ IsInjective(listeners) /\ o \notin Range(listeners) => IsInjective(listeners')
<1>1. listeners \in Seq(Listeners) /\ listeners' \in Seq(Listeners)
  BY AddListenerIs DEF TypeInv, TypeOK
<1> QED BY <1>1, AppendKeeps DEF AddListener

\* A listener is told of an entry e of o, after events if it is o.
LEMMA ReplayedIs ==
  ASSUME TypeInv, NEW o \in Objects, NEW events \in Seq(Entry), NEW ls \in Seq(Listeners), NEW b \in BOOLEAN,
         o \in Listeners => b \/ events = << >>,
         told' = TellAll(IF o \in Listeners /\ b THEN Replay(told, o, events) ELSE told, ls, Built(o))
  PROVE  Replayed(o, events, ls)
<1> DEFINE td == IF o \in Listeners /\ b THEN Replay(told, o, events) ELSE told
<1>1. told \in Told
  BY DEF TypeInv, TypeOK, Told
<1>2. \A l, x : Occurrences(events, Built(x)) \in Nat /\ Occurrences(ls, l) \in Nat
  BY OccurrencesCount
<1>3. \A x : Occurrences(<< >>, Built(x)) = 0
  <2>1. << >> \in Seq(Entry) /\ Range(<< >>) = {}
    BY EmptyKeeps
  <2> QED BY <2>1, OccurrencesCount
<1>4. td \in Told /\ \A l \in Listeners, x \in Objects :
        td[l][x] = told[l][x] + (IF l = o THEN Occurrences(events, Built(x)) ELSE 0)
  <2>1. \A l \in Listeners, x \in Objects : told[l][x] \in Nat
    BY <1>1 DEF Told
  <2>2. CASE o \in Listeners /\ b
    <3>1. td = Replay(told, o, events)
      BY <2>2
    <3>2. td \in Told /\ \A l \in Listeners, x \in Objects :
            td[l][x] = IF l = o THEN told[o][x] + Occurrences(events, Built(x)) ELSE told[l][x]
      BY <1>1, <2>2, <3>1, ReplayIs
    <3> HIDE DEF td
    <3> QED BY <2>1, <3>2
  <2>3. CASE ~(o \in Listeners /\ b)
    <3>1. td = told
      BY <2>3
    <3>2. o \in Listeners => events = << >>
      BY <2>3
    <3> HIDE DEF td
    <3> QED BY <1>1, <1>3, <2>1, <3>1, <3>2
  <2> QED BY <2>2, <2>3
<1> HIDE DEF td
<1>5. Built(o) \in Entry /\ Built(o).obj = o /\ Built(o).built
  BY EntryOf
<1>6. told' = TellAll(td, ls, Built(o))
  BY DEF td
<1>7. \A l \in Listeners, x \in Objects :
        told'[l][x] = IF x = o THEN td[l][x] + Occurrences(ls, l) ELSE td[l][x]
  BY <1>4, <1>5, <1>6, TellAllIs
<1>8. \A l \in Listeners, x \in Objects : td[l][x] \in Nat
  BY <1>4 DEF Told
<1> QED BY <1>4, <1>7, <1>8 DEF Replayed

\* Registration at once is such a call: all events are replayed.
LEMMA RegistersCalls ==
  ASSUME TypeInv, Core, Core', NEW e \in Entry, NEW rest \in Seq(Objects), Registers(e, rest)
  PROVE  Called(e.obj, registration_events', listeners')
<1> DEFINE o == e.obj
           E == registration_events
<1>1. /\ submitted' = submitted \cup {o}
      /\ E' = IF registration_event_cleanup THEN E ELSE Append(E, e)
      /\ listeners' = AddListener(listeners, o)
      /\ told' = TellAll(IF o \in Listeners THEN Replay(told, o, E') ELSE told, listeners', Built(o))
      /\ calls' = IF Built(o).built THEN [calls EXCEPT ![Built(o).obj] = @ + 1] ELSE calls
      /\ UNCHANGED gone /\ registration_enabled /\ registration_enabled'
  BY DEF Registers, RegisterObject, RegisterInternal, flags
<1>2. /\ o \in Objects /\ o \notin submitted /\ o \notin gone /\ calls[o] = 0
      /\ calls \in [Objects -> Nat] /\ E \in Seq(Entry) /\ submitted \subseteq Objects /\ gone \subseteq submitted
  BY EntryOf DEF Registers, TypeInv, TypeOK, Core, CallsOnce
<1>3. calls' = [calls EXCEPT ![o] = 1]
  <2>1. Built(o).built /\ Built(o).obj = o /\ calls[o] + 1 = 1
    BY <1>2, EntryOf
  <2> QED BY <1>1, <2>1
<1>4. E' \in Seq(Entry) /\ Range(E') \subseteq Range(E) \cup {e}
  BY <1>1, <1>2, AppendKeeps
<1>5. IsInjective(E')
  BY DEF Core, EntriesUnique, Unique
<1>6. \A x \in Objects : Built(x) \in Range(E') => x \notin gone /\ calls'[x] = 1
  <2> SUFFICES ASSUME NEW x \in Objects, Built(x) \in Range(E')
               PROVE  x \notin gone /\ calls'[x] = 1
    OBVIOUS
  <2>1. x \notin gone
    BY <1>1 DEF Core, CallsOnce
  <2>2. x \in submitted'
    BY <1>1, <1>4, EntryOf DEF TypeInv, Known
  <2>3. calls'[x] = 1
    BY <1>1, <2>2 DEF Core, EnabledAllCalled
  <2> QED BY <2>1, <2>3
<1>7. listeners' \in Seq(Listeners)
  BY <1>1, <1>2, ListenersAre
<1>8. Replayed(o, E', listeners')
  <2>1. told' = TellAll(IF o \in Listeners /\ TRUE THEN Replay(told, o, E') ELSE told, listeners', Built(o))
    BY <1>1
  <2>2. TRUE \in BOOLEAN
    OBVIOUS
  <2> HIDE DEF o, E
  <2> QED BY <1>2, <1>4, <1>7, <2>1, <2>2, ReplayedIs
<1> QED BY <1>1, <1>2, <1>3, <1>4, <1>5, <1>6, <1>8 DEF Called

\* The events that a new listener is told of in its loop
LEMMA EventsBeforeAre ==
  ASSUME TypeInv, Core, LoopStep
  PROVE  LET events == EventsBefore(i)
             nr == nr_events_before_disable
             Counts(k) == \/ k \in 1..nr
                          \/ k \in nr + 1 .. i - 1 /\ registration_events[k].obj \in Listeners
         IN  /\ events \in Seq(Entry) /\ IsInjective(events)
             /\ \A k \in DOMAIN registration_events : Counts(k) => registration_events[k] \in Range(events)
             /\ \A e \in Range(events) :
                  \E k \in DOMAIN registration_events : Counts(k) /\ e = registration_events[k]
<1> DEFINE E == registration_events
           nr == nr_events_before_disable
           n == Len(E)
           S == {Built(l) : l \in Listeners}
           old == SubSeq(E, 1, nr)
           middle == SubSeq(E, nr + 1, i - 1)
           new == Only(middle, S)
           j == i - 1
<1>1. /\ E \in Seq(Entry) /\ nr \in Nat /\ n \in Nat /\ DOMAIN E = 1..n /\ i \in Nat
      /\ i \in DOMAIN E /\ i \in New /\ Looping
  BY CurrentEntry DEF TypeInv, TypeOK
<1>2. j \in Nat /\ nr <= j /\ j <= n /\ nr <= n /\ 0 <= nr
  BY <1>1 DEF New
<1>3. IsInjective(E)
  BY DEF Core, EntriesUnique, Unique
<1>4. /\ old \in Seq(Entry) /\ DOMAIN old = 1..nr /\ \A k \in 1..nr : old[k] = E[k]
      /\ middle \in Seq(Entry) /\ DOMAIN middle = 1 .. j - nr
      /\ \A k \in 1 .. j - nr : middle[k] = E[k + nr]
  <2> HIDE DEF n, j
  <2>1. /\ SubSeq(E, nr + 1, j) \in Seq(Entry) /\ Len(SubSeq(E, nr + 1, j)) = j - nr
        /\ \A k \in 1 .. j - nr : SubSeq(E, nr + 1, j)[k] = E[k + nr]
    <3>1. j <= Len(E)
      BY <1>2 DEF n
    <3> QED BY <1>1, <1>2, <3>1, SubSeqIs
  <2>2. /\ old \in Seq({E[k] : k \in 1..nr}) /\ DOMAIN old = 1..nr
        /\ \A k \in 1..nr : old[k] = E[k]
    BY <1>1, Prefix
  <2>3. \A k \in 1..nr : E[k] \in Entry
    BY <1>1, <1>2
  <2>4. old \in Seq(Entry)
    <3> HIDE DEF old
    <3>1. Len(old) \in Nat /\ DOMAIN old = 1..Len(old)
      BY <2>2
    <3> QED BY <2>2, <2>3, <3>1
  <2>5. middle = SubSeq(E, nr + 1, j)
    BY DEF j
  <2> HIDE DEF middle
  <2> QED BY <2>1, <2>2, <2>4, <2>5
<1> HIDE DEF n, j, old, middle
<1>5. IsInjective(old) /\ IsInjective(middle)
  <2>1. \A k \in 1..nr : k \in DOMAIN E
    BY <1>1, <1>2
  <2>2. IsInjective(old)
    BY <1>3, <1>4, <2>1 DEF IsInjective
  <2>3. \A k \in 1 .. j - nr : k + nr \in DOMAIN E
    BY <1>1, <1>2
  <2>4. \A k, m \in 1 .. j - nr : k + nr = m + nr => k = m
    BY <1>1
  <2>5. IsInjective(middle)
    BY <1>3, <1>4, <2>3, <2>4 DEF IsInjective
  <2> QED BY <2>2, <2>5
<1>6. Range(old) = {E[k] : k \in 1..nr}
  BY <1>4 DEF Range
<1>7. Range(middle) = {E[k] : k \in nr + 1 .. j}
  <2>1. \A k \in nr + 1 .. j : k - nr \in 1 .. j - nr /\ (k - nr) + nr = k
    BY <1>1, <1>2
  <2>2. \A k \in 1 .. j - nr : k + nr \in nr + 1 .. j
    BY <1>1, <1>2
  <2>3. \A k \in nr + 1 .. j : E[k] = middle[k - nr]
    BY <1>4, <2>1
  <2> QED BY <1>4, <2>1, <2>2, <2>3 DEF Range
<1>8. /\ new \in Seq(Entry) /\ Range(new) = Range(middle) \cap S /\ IsInjective(new)
  BY <1>4, <1>5, OnlyKeeps
<1>9. Range(old) \cap Range(new) = {}
  <2>1. \A k \in 1..nr, m \in nr + 1 .. j : k \in DOMAIN E /\ m \in DOMAIN E /\ k # m
    BY <1>1, <1>2
  <2> QED BY <1>3, <1>6, <1>7, <1>8, <2>1 DEF IsInjective
<1>10. \A k \in nr + 1 .. j : k \in DOMAIN E /\ (E[k] \in S <=> E[k].obj \in Listeners)
  <2> SUFFICES ASSUME NEW k \in nr + 1 .. j
               PROVE  k \in DOMAIN E /\ (E[k] \in S <=> E[k].obj \in Listeners)
    OBVIOUS
  <2>1. k \in DOMAIN E /\ k \in New
    BY <1>1, <1>2 DEF New, n
  <2>2. E[k].built
    BY <1>1, <2>1 DEF Core, LoopProgress
  <2>3. E[k] \in Entry
    BY <1>1, <2>1
  <2>4. E[k] = Built(E[k].obj)
    BY <2>2, <2>3, EntryOf
  <2>5. Listeners \subseteq Objects
    BY RegistryAssumption
  <2> QED BY <2>1, <2>4, <2>5, EntryOf
<1>11. EventsBefore(i) = old \o new
  BY DEF EventsBefore, old, new, middle
<1> HIDE DEF new
<1>12. /\ old \o new \in Seq(Entry) /\ IsInjective(old \o new)
       /\ Range(old \o new) = Range(old) \cup Range(new)
  BY <1>4, <1>5, <1>8, <1>9, ConcatKeeps
<1>13. \A k \in 1..nr : k \in DOMAIN E
  BY <1>1, <1>2
<1> QED BY <1>6, <1>7, <1>8, <1>10, <1>11, <1>12, <1>13 DEF j

\* So is an iteration for an object of this loop.
LEMMA LoopCalls ==
  ASSUME Ordinary, TypeInv, Core, Core', LoopStep, InPhase(phase, registration_events[i])
  PROVE  LET o == registration_events[i].obj
         IN  Called(o, IF phase = "listeners" /\ o \in Listeners THEN EventsBefore(i) ELSE << >>,
                    listeners)
<1> DEFINE E == registration_events
           e == E[i]
           o == e.obj
           b == phase = "listeners"
           events == IF b /\ o \in Listeners THEN EventsBefore(i) ELSE << >>
           nr == nr_events_before_disable
<1>1. /\ calls' = [calls EXCEPT ![o] = 1] /\ listeners' = AddListener(listeners, o)
      /\ told' = TellAll(IF b /\ o \in Listeners THEN Replay(told, o, EventsBefore(i)) ELSE told,
                         listeners, e)
      /\ UNCHANGED <<gone, phase>>
  BY RegisteringStep
<1>2. /\ o \in Objects /\ o \in submitted /\ e = Built(o) /\ calls[o] = 0
      /\ Loop(o) = Rank(phase) /\ Looping
  BY CurrentEntry
<1>3. /\ calls \in [Objects -> Nat] /\ E \in Seq(Entry) /\ nr \in Nat /\ i \in Nat
      /\ listeners \in Seq(Listeners) /\ o \notin gone
  BY <1>2 DEF TypeInv, TypeOK, Core, CallsOnce
<1>4. events \in Seq(Entry) /\ IsInjective(events)
  BY EventsBeforeAre, EmptyKeeps
<1>5. ASSUME NEW x \in Objects, Built(x) \in Range(events) PROVE x \notin gone /\ calls'[x] = 1
  <2>1. b /\ o \in Listeners /\ events = EventsBefore(i)
    BY <1>5, EmptyKeeps
  <2>2. PICK k \in DOMAIN E : /\ Built(x) = E[k]
                              /\ \/ k \in 1..nr
                                 \/ k \in nr + 1 .. i - 1 /\ E[k].obj \in Listeners
    BY <1>5, <2>1, EventsBeforeAre
  <2>3. E[k].obj = x /\ Built(x) \in Range(E)
    BY <2>2, EntryOf DEF Range
  <2>4. x \notin gone
    BY <2>3 DEF Core, CallsOnce
  <2>5. calls[x] = 1
    <3>1. CASE k \in 1..nr
      <4>1. ~registration_enabled
        BY CurrentEntry
      <4> QED BY <2>3, <3>1, <4>1 DEF Core, Buffered
    <3>2. CASE k \in nr + 1 .. i - 1 /\ E[k].obj \in Listeners
      <4>1. k \in New /\ k < i
        BY <1>3, <2>2, <3>2 DEF New
      <4>2. Loop(x) \in 1..3 /\ Rank(phase) = 3
        BY <2>1, <2>3, <3>2 DEF Loop, Rank
      <4>3. Loop(x) < Rank(phase) \/ (Loop(x) = Rank(phase) /\ k < i)
        BY <4>1, <4>2
      <4> QED BY <1>2, <2>3, <4>1, <4>3 DEF Core, LoopProgress
    <3> QED BY <2>2, <3>1, <3>2
  <2> QED BY <1>1, <1>2, <1>3, <2>4, <2>5
<1>6. Replayed(o, events, listeners)
  <2>1. told' = TellAll(IF o \in Listeners /\ b THEN Replay(told, o, events) ELSE told, listeners, Built(o))
    BY <1>1, <1>2
  <2>2. b \in BOOLEAN /\ (o \in Listeners => b \/ events = << >>)
    OBVIOUS
  <2> HIDE DEF o, events, b
  <2> QED BY <1>2, <1>3, <1>4, <2>1, <2>2, ReplayedIs
<1> QED BY <1>1, <1>2, <1>3, <1>4, <1>5, <1>6 DEF Called

\* An iteration that registers nothing: told again is only a listener that is a
\* server or driver, too.
LEMMA SkipTells ==
  ASSUME TypeInv, Core, LoopStep, ~InPhase(phase, registration_events[i])
  PROVE  /\ UNCHANGED <<listeners, calls, gone>>
         /\ \/ UNCHANGED told
            \/ LET o == registration_events[i].obj
               IN  /\ o \in Listeners \cap (Servers \cup Drivers) /\ calls[o] = 1
                   /\ \A l \in Listeners, x \in Objects :
                        \/ told'[l][x] = told[l][x]
                        \/ l = o /\ x \notin gone
<1> DEFINE E == registration_events
           o == E[i].obj
<1>1. UNCHANGED <<listeners, calls, gone>>
  BY DEF LoopStep
<1>2. /\ i \in New /\ Looping /\ E[i] = Built(o) /\ E[i].built /\ o \in Objects /\ Loop(o) # Rank(phase)
  BY CurrentEntry
<1>3. told' = IF phase = "listeners" /\ o \in Listeners THEN Replay(told, o, EventsBefore(i)) ELSE told
  BY <1>2 DEF LoopStep
<1>4. CASE ~(phase = "listeners" /\ o \in Listeners)
  BY <1>1, <1>3, <1>4
<1>5. CASE phase = "listeners" /\ o \in Listeners
  <2>1. o \in Servers \cup Drivers /\ Loop(o) < Rank(phase)
    BY <1>2, <1>5 DEF Loop, Rank
  <2>2. calls[o] = 1
    BY <1>2, <2>1 DEF Core, LoopProgress
  <2>3. EventsBefore(i) \in Seq(Entry) /\ \A e \in Range(EventsBefore(i)) : e \in Range(E)
    BY EventsBeforeAre DEF Range
  <2>4. told \in Told
    BY DEF TypeInv, TypeOK, Told
  <2>5. \A l \in Listeners, x \in Objects :
          told'[l][x] = IF l = o THEN told[o][x] + Occurrences(EventsBefore(i), Built(x)) ELSE told[l][x]
    BY <1>3, <1>5, <2>3, <2>4, ReplayIs
  <2>6. ASSUME NEW x \in Objects, x \in gone PROVE told[o][x] + Occurrences(EventsBefore(i), Built(x)) = told[o][x]
    <3>1. Built(x) \notin Range(EventsBefore(i))
      BY <2>3, <2>6 DEF Core, CallsOnce
    <3>2. Occurrences(EventsBefore(i), Built(x)) = 0
      BY <2>3, <3>1, OccurrencesCount
    <3>3. told[o][x] \in Nat
      BY <1>5, <2>4 DEF Told
    <3> QED BY <3>2, <3>3
  <2>7. \A l \in Listeners, x \in Objects : told'[l][x] = told[l][x] \/ (l = o /\ x \notin gone)
    BY <2>5, <2>6
  <2> QED BY <1>1, <1>5, <2>1, <2>2, <2>7
<1> QED BY <1>4, <1>5

\* What an unregistered object leaves
LEMMA UnregistersTells ==
  ASSUME TypeInv, NEW e \in Entry, Unregisters(e)
  PROVE  /\ UNCHANGED calls /\ gone' = gone \cup {e.obj} /\ listeners \in Seq(Listeners)
         /\ Range(listeners') \subseteq Range(listeners) /\ (IsInjective(listeners) => IsInjective(listeners'))
         /\ Range(listeners') \subseteq Listeners
         /\ \A l \in Listeners, x \in Objects :
              told'[l][x] = IF x = e.obj /\ l \in Range(listeners') THEN 0 ELSE told[l][x]
<1> DEFINE o == e.obj
<1>1. /\ listeners' = Only(listeners, Listeners \ {o}) /\ gone' = gone \cup {o} /\ UNCHANGED calls
      /\ told' = [l \in Listeners |-> IF l \in ToSet(listeners') THEN [told[l] EXCEPT ![o] = 0] ELSE told[l]]
  BY DEF Unregisters, UnregisterObject
<1>2. listeners \in Seq(Listeners) /\ told \in Told /\ o \in Objects
  BY EntryOf DEF TypeInv, TypeOK, Told
<1>3. /\ Range(listeners') = Range(listeners) \cap (Listeners \ {o})
      /\ IsInjective(listeners) => IsInjective(listeners')
  BY <1>1, <1>2, OnlyKeeps
<1>4. ToSet(listeners') = Range(listeners')
  BY DEF ToSet, Range
<1>5. \A l \in Listeners, x \in Objects :
              told'[l][x] = IF x = o /\ l \in Range(listeners') THEN 0 ELSE told[l][x]
  BY <1>1, <1>2, <1>4 DEF Told
<1> QED BY <1>1, <1>2, <1>3, <1>5

\* What a step does to listeners and calls.
Silent == UNCHANGED <<listeners, calls, told, gone>>
Skips == LoopStep /\ ~InPhase(phase, registration_events[i])

\* All other steps tell nobody anything.
LEMMA TellingSteps ==
  ASSUME Ordinary, TypeInv, Core, Core', [Next /\ Orderly]_vars
  PROVE  \/ Silent \/ Skips
         \/ \E o, events, ls : Called(o, events, ls)
         \/ \E e \in Entry : Unregisters(e)
<1>1. ASSUME NEW e \in Entry, Buffers(e) PROVE Silent
  BY <1>1 DEF Buffers, RegisterObject, Silent
<1>2. ASSUME NEW e \in Entry, NEW rest \in Seq(Objects), Registers(e, rest)
      PROVE  Called(e.obj, registration_events', listeners')
  BY <1>2, RegistersCalls
<1>3. CASE Enable \/ NextLoop \/ EnableDone \/ Disable \/ EnableCleanup \/ Quiet
  BY <1>3 DEF Enable, NextLoop, EnableDone, Disable, EnableCleanup, Quiet, Silent, history
<1>4. CASE LoopStep
  <2>1. CASE InPhase(phase, registration_events[i])
    BY <1>4, <2>1, LoopCalls
  <2>2. CASE ~InPhase(phase, registration_events[i])
    BY <1>4, <2>2 DEF Skips
  <2> QED BY <2>1, <2>2
<1> QED BY <1>1, <1>2, <1>3, <1>4, StepKinds

\* on_register is called once per object, and not after it was unregistered: neither
\* an event that is sent after a plugin was loaded, nor one of an earlier enabling,
\* nor a loop that an object belongs to beside its own calls it again.
THEOREM OnRegisterIsCalledOnce == ASSUME Ordinary PROVE OrderedSpec => RegisteredOnce
<1>1. /\ TypeInv /\ Core /\ (TypeInv /\ Core)' /\ [Next /\ Orderly]_vars
      => [\A o \in Objects : calls'[o] # calls[o] => calls[o] = 0 /\ o \notin gone]_vars
  <2> SUFFICES ASSUME TypeInv, Core, Core', [Next /\ Orderly]_vars
               PROVE  \A o \in Objects : calls'[o] # calls[o] => calls[o] = 0 /\ o \notin gone
    OBVIOUS
  <2>1. CASE UNCHANGED calls
    BY <2>1
  <2>2. ASSUME NEW o, NEW events, NEW ls, Called(o, events, ls)
        PROVE  \A p \in Objects : calls'[p] # calls[p] => calls[p] = 0 /\ p \notin gone
    <3>1. calls \in [Objects -> Nat]
      BY DEF TypeInv, TypeOK
    <3> QED BY <2>2, <3>1 DEF Called
  <2>3. Skips => UNCHANGED calls
    BY SkipTells DEF Skips
  <2>4. \A e \in Entry : Unregisters(e) => UNCHANGED calls
    BY UnregistersTells
  <2> QED BY <2>1, <2>2, <2>3, <2>4, TellingSteps DEF Silent
<1> QED BY <1>1, CoreInvariant, PTL DEF OrderedSpec, RegisteredOnce

\* A listener has heard nothing before it is registered, and no listener remembers an
\* object that is gone.
Heard ==
  \A l \in Listeners :
    /\ l \in Range(listeners) => \A o \in gone : told[l][o] = 0
    /\ calls[l] = 0 => l \notin Range(listeners) /\ \A o \in Objects : told[l][o] = 0

\* Such a call, value by value
LEMMA CalledIs ==
  ASSUME TypeInv, NEW o, NEW events, NEW ls, Called(o, events, ls)
  PROVE  /\ \A l \in Listeners, x \in Objects :
              /\ told[l][x] \in Nat /\ Occurrences(ls, l) \in Nat /\ Occurrences(events, Built(x)) \in Nat
              /\ Occurrences(ls, l) = 0 <=> l \notin Range(ls)
              /\ Occurrences(events, Built(x)) = 0 <=> Built(x) \notin Range(events)
              /\ IsInjective(ls) => Occurrences(ls, l) <= 1
              /\ Occurrences(events, Built(x)) <= 1
         /\ \A x \in Objects : calls'[x] = IF x = o THEN 1 ELSE calls[x]
         /\ Range(listeners') = Range(listeners) \cup (Listeners \cap {o})
         /\ Range(listeners) \subseteq Range(ls) /\ Range(ls) \subseteq Range(listeners')
         /\ Range(listeners') \subseteq Listeners
         /\ gone' = gone /\ gone \subseteq Objects /\ Listeners \subseteq Objects
<1>1. /\ listeners \in Seq(Listeners) /\ listeners' \in Seq(Listeners)
      /\ Range(listeners') = Range(listeners) \cup (Listeners \cap {o})
  BY ListenersAre DEF Called
<1>2. ls \in Seq(Listeners) /\ events \in Seq(Entry) /\ IsInjective(events)
  BY <1>1 DEF Called
<1>3. told \in Told /\ calls \in [Objects -> Nat] /\ gone \subseteq Objects /\ Listeners \subseteq Objects
  BY RegistryAssumption DEF TypeInv, TypeOK, Told
<1>4. Range(listeners') \subseteq Listeners
  BY <1>1 DEF Range
<1>5. \A l \in Listeners, x \in Objects : told[l][x] \in Nat
  BY <1>3 DEF Told
<1>6. \A x \in Objects : calls'[x] = IF x = o THEN 1 ELSE calls[x]
  BY <1>3 DEF Called
<1>7. Range(listeners) \subseteq Range(ls) /\ Range(ls) \subseteq Range(listeners')
  BY <1>1 DEF Called
<1> QED BY <1>1, <1>2, <1>3, <1>4, <1>5, <1>6, <1>7, OccurrencesCount DEF Called

\* Every step keeps Heard.
LEMMA HeardStep ==
  ASSUME Ordinary, TypeInv, Core, Core', [Next /\ Orderly]_vars, Heard
  PROVE  Heard'
<1>0. /\ told \in Told /\ calls \in [Objects -> Nat] /\ gone \subseteq Objects
      /\ Listeners \subseteq Objects /\ listeners \in Seq(Listeners)
  BY RegistryAssumption DEF TypeInv, TypeOK, Told
<1>1. CASE Silent
  BY <1>1 DEF Silent, Heard
<1>2. CASE Skips
  <2>1. UNCHANGED <<listeners, calls, gone>>
    BY <1>2, SkipTells DEF Skips
  <2>2. CASE UNCHANGED told
    BY <2>1, <2>2 DEF Heard
  <2>3. ASSUME NEW o \in Listeners, calls[o] = 1,
               \A l \in Listeners, x \in Objects : told'[l][x] = told[l][x] \/ (l = o /\ x \notin gone)
        PROVE  Heard'
    BY <1>0, <2>1, <2>3 DEF Heard
  <2> QED BY <1>2, <2>2, <2>3, SkipTells DEF Skips
<1>3. ASSUME NEW o, NEW events, NEW ls, Called(o, events, ls) PROVE Heard'
  <2>1. ASSUME NEW l \in Listeners, l \in Range(listeners'), NEW x \in gone PROVE told'[l][x] = 0
    <3>1. x \in Objects /\ x # o /\ Built(x) \notin Range(events)
      BY <1>0, <1>3 DEF Called
    <3>2. told'[l][x] = told[l][x]
      <4>1. told'[l][x] = told[l][x] + (IF l = o THEN Occurrences(events, Built(x)) ELSE 0) + 0
        BY <1>3, <3>1 DEF Called, Replayed
      <4>2. Occurrences(events, Built(x)) = 0 /\ told[l][x] \in Nat
        BY <1>3, <3>1, CalledIs
      <4> QED BY <4>1, <4>2
    <3>3. l \in Range(listeners) \/ calls[l] = 0
      <4>1. Range(listeners') = Range(listeners) \cup (Listeners \cap {o}) /\ calls[o] = 0
        BY <1>3, CalledIs DEF Called
      <4> QED BY <2>1, <4>1
    <3> QED BY <3>1, <3>2, <3>3 DEF Heard
  <2>2. ASSUME NEW l \in Listeners, calls'[l] = 0
        PROVE  l \notin Range(listeners') /\ \A x \in Objects : told'[l][x] = 0
    <3>1. l # o /\ calls[l] = 0
      BY <1>0, <1>3, <2>2, CalledIs
    <3>2. l \notin Range(listeners') /\ l \notin Range(ls)
      BY <1>3, <3>1, CalledIs DEF Heard
    <3>3. Occurrences(ls, l) = 0
      BY <1>0, <1>3, <3>2, CalledIs
    <3>4. \A x \in Objects : told'[l][x] = told[l][x] + 0 + 0
      BY <1>3, <3>1, <3>3 DEF Called, Replayed
    <3> QED BY <3>1, <3>2, <3>4 DEF Heard
  <2>3. gone' = gone
    BY <1>3 DEF Called
  <2> QED BY <2>1, <2>2, <2>3 DEF Heard
<1>4. ASSUME NEW e \in Entry, Unregisters(e) PROVE Heard'
  <2>1. /\ UNCHANGED calls /\ gone' = gone \cup {e.obj} /\ e.obj \in Objects
        /\ Range(listeners') \subseteq Range(listeners)
        /\ \A l \in Listeners, x \in Objects :
             told'[l][x] = IF x = e.obj /\ l \in Range(listeners') THEN 0 ELSE told[l][x]
    BY <1>4, UnregistersTells, EntryOf
  <2>2. ASSUME NEW l \in Listeners, l \in Range(listeners'), NEW x \in gone' PROVE told'[l][x] = 0
    BY <1>0, <2>1, <2>2 DEF Heard
  <2>3. ASSUME NEW l \in Listeners, calls'[l] = 0
        PROVE  l \notin Range(listeners') /\ \A x \in Objects : told'[l][x] = 0
    BY <1>0, <2>1, <2>3 DEF Heard
  <2> QED BY <2>2, <2>3 DEF Heard
<1> QED BY <1>1, <1>2, <1>3, <1>4, TellingSteps

\* Heard is inductive, given types and core.
LEMMA HeardInvariant == ASSUME Ordinary PROVE OrderedSpec => [](TypeInv /\ Core /\ Heard)
<1>1. Init => Heard
  <2> SUFFICES ASSUME Init PROVE Heard
    OBVIOUS
  <2>1. Range(listeners) = {} /\ gone = {} /\ \A l \in Listeners, o \in Objects : told[l][o] = 0
    BY EmptyKeeps DEF Init
  <2> QED BY <2>1 DEF Heard
<1>2. TypeInv /\ Core /\ (TypeInv /\ Core)' /\ [Next /\ Orderly]_vars /\ Heard => Heard'
  BY HeardStep
<1> QED BY <1>1, <1>2, CoreInvariant, PTL DEF OrderedSpec

\* After an object was unregistered no listener believes in it, though it may have been
\* told of it several times and by replay, and the collection has it no longer, though
\* remove_object skips an element after each that it erases.
THEOREM NobodyDangles == ASSUME Ordinary PROVE OrderedSpec => []NoneDangling
<1>1. TypeInv /\ Core /\ Heard => NoneDangling
  <2> SUFFICES ASSUME TypeInv, Core, Heard PROVE NoneDangling
    OBVIOUS
  <2>1. /\ listeners \in Seq(Listeners) /\ gone \subseteq Objects
        /\ ToSet(listeners) = Range(listeners) /\ ToSet(objects) = Range(objects)
    BY DEF TypeInv, TypeOK, ToSet, Range
  <2>2. Range(listeners) \subseteq Listeners
    BY <2>1 DEF Range
  <2>3. ASSUME NEW o \in gone PROVE Built(o) \notin Range(objects)
    <3>1. Built(o).obj = o
      BY <2>1, EntryOf
    <3> QED BY <3>1 DEF Core, CollectionSound
  <2> QED BY <2>1, <2>2, <2>3 DEF Heard, NoneDangling
<1> QED BY <1>1, HeardInvariant, PTL

\* A listener has been told of objects that were registered only, and of each once.
OnceHeard ==
  /\ IsInjective(listeners)
  /\ \A l \in Range(listeners) : \A o \in Objects \ {l} : told[l][o] <= calls[o]

\* Every step keeps OnceHeard, if no listener is told again in its loop.
LEMMA OnceStep ==
  ASSUME Ordinary, Listeners \cap (Servers \cup Drivers) = {}, TypeInv, Core, Core', [Next /\ Orderly]_vars,
         Heard, OnceHeard
  PROVE  OnceHeard'
<1>0. /\ told \in Told /\ calls \in [Objects -> Nat] /\ Range(listeners) \subseteq Listeners
      /\ listeners \in Seq(Listeners) /\ Listeners \subseteq Objects
  BY RegistryAssumption DEF TypeInv, TypeOK, Told, Range
<1>1. CASE Silent
  BY <1>1 DEF Silent, OnceHeard
<1>2. CASE Skips
  <2>1. UNCHANGED <<listeners, calls, told>>
    BY <1>2, SkipTells DEF Skips
  <2> QED BY <2>1 DEF OnceHeard
<1>3. ASSUME NEW o, NEW events, NEW ls, Called(o, events, ls) PROVE OnceHeard'
  <2>1. IsInjective(listeners') /\ IsInjective(ls)
    <3>1. o \notin Range(listeners)
      BY <1>0, <1>3 DEF Heard, Called
    <3>2. IsInjective(listeners')
      BY <1>3, <3>1, ListenersAre DEF OnceHeard, Called
    <3> QED BY <1>3, <3>2 DEF OnceHeard, Called
  <2>2. ASSUME NEW l \in Range(listeners'), NEW x \in Objects \ {l} PROVE told'[l][x] <= calls'[x]
    <3>0. l \in Listeners /\ l \in Objects
      BY <1>3, CalledIs
    <3>1. told'[l][x] = told[l][x] + (IF l = o THEN Occurrences(events, Built(x)) ELSE 0)
                                   + (IF x = o THEN Occurrences(ls, l) ELSE 0)
      BY <1>3, <3>0 DEF Called, Replayed
    <3>2. /\ told[l][x] \in Nat /\ Occurrences(ls, l) \in Nat /\ Occurrences(ls, l) <= 1
          /\ Occurrences(events, Built(x)) \in Nat /\ Occurrences(events, Built(x)) <= 1
          /\ Occurrences(events, Built(x)) = 0 <=> Built(x) \notin Range(events)
          /\ calls'[x] = (IF x = o THEN 1 ELSE calls[x]) /\ calls[x] \in Nat
      BY <1>0, <1>3, <2>1, <3>0, CalledIs
    <3>3. CASE l = o
      <4>1. told[l][x] = 0
        BY <1>3, <3>0, <3>3 DEF Heard, Called
      <4>2. Built(x) \in Range(events) => calls'[x] = 1
        BY <1>3 DEF Called
      <4>3. x # o
        BY <3>3
      <4> QED BY <3>1, <3>2, <3>3, <4>1, <4>2, <4>3
    <3>4. CASE l # o
      <4>1. told[l][x] <= calls[x]
        <5>1. l \in Range(listeners)
          BY <1>3, <3>4, CalledIs
        <5> QED BY <5>1 DEF OnceHeard
      <4>2. x = o => calls[x] = 0
        BY <1>3 DEF Called
      <4> QED BY <3>1, <3>2, <3>4, <4>1, <4>2
    <3> QED BY <3>3, <3>4
  <2> QED BY <2>1, <2>2 DEF OnceHeard
<1>4. ASSUME NEW e \in Entry, Unregisters(e) PROVE OnceHeard'
  <2>1. /\ UNCHANGED calls /\ Range(listeners') \subseteq Range(listeners)
        /\ IsInjective(listeners) => IsInjective(listeners')
        /\ \A l \in Listeners, x \in Objects :
             told'[l][x] = IF x = e.obj /\ l \in Range(listeners') THEN 0 ELSE told[l][x]
    BY <1>4, UnregistersTells
  <2>2. ASSUME NEW l \in Range(listeners'), NEW x \in Objects \ {l} PROVE told'[l][x] <= calls'[x]
    <3>1. l \in Range(listeners) /\ l \in Listeners /\ calls[x] \in Nat
      BY <1>0, <2>1
    <3>2. told[l][x] <= calls[x]
      BY <3>1 DEF OnceHeard
    <3>3. told'[l][x] = 0 \/ told'[l][x] = told[l][x]
      BY <2>1, <3>1
    <3>4. calls'[x] = calls[x]
      BY <2>1
    <3> QED BY <3>1, <3>2, <3>3, <3>4
  <2> QED BY <2>1, <2>2 DEF OnceHeard
<1> QED BY <1>1, <1>2, <1>3, <1>4, TellingSteps

\* No listener is told of another object twice, whichever came first: what it was told
\* by replay of the events it is not told again when the event is sent.  A listener
\* that is a server or driver too is told again, in the loop of the listeners.
THEOREM EachIsToldOnce ==
  ASSUME Ordinary, Listeners \cap (Servers \cup Drivers) = {}
  PROVE  OrderedSpec => []ToldOnce
<1>1. Init => OnceHeard
  <2> SUFFICES ASSUME Init PROVE OnceHeard
    OBVIOUS
  <2>1. Range(listeners) = {} /\ IsInjective(listeners)
    BY EmptyKeeps DEF Init
  <2> QED BY <2>1 DEF OnceHeard
<1>2. TypeInv /\ Core /\ (TypeInv /\ Core)' /\ [Next /\ Orderly]_vars /\ Heard /\ OnceHeard => OnceHeard'
  BY OnceStep
<1>3. TypeInv /\ Core /\ OnceHeard => ToldOnce
  <2> SUFFICES ASSUME TypeInv, Core, OnceHeard,
                      NEW l \in ToSet(listeners), NEW o \in Objects \ {l}
               PROVE  told[l][o] <= 1
    BY DEF ToldOnce
  <2>1. l \in Range(listeners)
    BY DEF ToSet, Range
  <2>2. l \in Listeners /\ told \in Told
    BY <2>1 DEF TypeInv, TypeOK, Range, Told
  <2>3. told[l][o] \in Nat /\ told[l][o] <= calls[o] /\ calls[o] \in {0, 1}
    BY <2>1, <2>2 DEF Told, OnceHeard, Core, CallsOnce
  <2> QED BY <2>3
<1> QED BY <1>1, <1>2, <1>3, HeardInvariant, PTL DEF OrderedSpec

\* Every object that has been registered and is there has an event, which says so,
\* and every listener has been told of it.
Kept ==
  /\ ~registration_event_cleanup
  /\ \A o \in Objects \ gone : calls[o] = 1 => Built(o) \in Range(registration_events)
AllHeard ==
  \A l \in Range(listeners) : \A o \in Objects \ (gone \cup {l}) : calls[o] = 1 => told[l][o] > 0

\* Without cleanup every step keeps the events.
LEMMA KeptStep ==
  ASSUME Ordinary, "cleanup" \notin Uses, "raw_constructor" \notin Uses,
         TypeInv, Core, Core', [Next /\ Orderly]_vars, Kept
  PROVE  Kept'
<1> DEFINE E == registration_events
<1>0. /\ E \in Seq(Entry) /\ calls \in [Objects -> Nat] /\ gone \subseteq Objects
      /\ nr_events_before_disable \in Nat /\ DOMAIN E = 1 .. Len(E)
  BY DEF TypeInv, TypeOK
<1>1. ASSUME NEW e \in Entry, Buffers(e) PROVE Kept'
  <2>1. E' = Append(E, e) /\ UNCHANGED <<registration_event_cleanup, calls, gone>>
    BY <1>1 DEF Buffers, RegisterObject, flags
  <2> QED BY <1>0, <2>1, AppendKeeps DEF Kept
<1>2. ASSUME NEW e \in Entry, NEW rest \in Seq(Objects), Registers(e, rest) PROVE Kept'
  <2>1. E' = Append(E, e) /\ UNCHANGED registration_event_cleanup /\ e = Built(e.obj) /\ e.obj \in Objects
    BY <1>2, EntryOf DEF Registers, RegisterObject, flags, Kept
  <2>2. UNCHANGED gone /\ \A x \in Objects : x # e.obj => calls'[x] = calls[x]
    BY <1>0, <1>2, RegistersCalls DEF Called
  <2>3. Range(E') = Range(E) \cup {e}
    BY <1>0, <2>1, AppendKeeps
  <2>4. ASSUME NEW x \in Objects \ gone, calls'[x] = 1 PROVE Built(x) \in Range(E')
    BY <2>1, <2>2, <2>3, <2>4 DEF Kept
  <2> QED BY <2>1, <2>2, <2>4 DEF Kept
<1>3. ASSUME NEW e \in Entry, Unregisters(e) PROVE Kept'
  <2>1. E' = Only(E, Entry \ {e}) /\ UNCHANGED <<registration_event_cleanup, calls>> /\ gone' = gone \cup {e.obj}
    BY <1>3 DEF Unregisters, UnregisterObject, EraseEvents, flags
  <2>2. Range(E') = Range(E) \cap (Entry \ {e})
    BY <1>0, <2>1, OnlyKeeps
  <2>3. ASSUME NEW x \in Objects \ gone', calls'[x] = 1 PROVE Built(x) \in Range(E')
    <3>1. Built(x) \in Range(E) /\ x # e.obj /\ Built(x) \in Entry /\ Built(x).obj = x
      BY <2>1, <2>3, EntryOf DEF Kept
    <3> QED BY <2>2, <3>1
  <2> QED BY <2>1, <2>3 DEF Kept
<1>4. CASE Enable
  <2>1. /\ UNCHANGED <<registration_event_cleanup, calls, gone>>
        /\ OrdersBefore \in SUBSET Seq(Objects) /\ OrdersAfter \in SUBSET Seq(Objects)
    BY <1>4, RegistryAssumption DEF Enable, flags, history
  <2> DEFINE sorted == SortRegistrationEvents(E, OrdersBefore)
             built == Construct(sorted, nr_events_before_disable)
  <2>2. E' = SortRegistrationEvents(built, OrdersAfter)
    BY <1>4 DEF Enable
  <2>3. sorted \in Seq(Entry) /\ Range(sorted) = Range(E)
    BY <1>0, <2>1, SortKeeps
  <2> HIDE DEF sorted
  <2>4. /\ built \in Seq(Entry) /\ Len(built) = Len(sorted)
        /\ \A k \in DOMAIN sorted :
             built[k] = IF k > nr_events_before_disable THEN Built(sorted[k].obj) ELSE sorted[k]
    BY <2>3, ConstructIs
  <2> HIDE DEF built
  <2>5. Range(E') = Range(built) /\ DOMAIN built = DOMAIN sorted
    BY <2>1, <2>2, <2>3, <2>4, SortKeeps
  <2>6. ASSUME NEW x \in Objects \ gone', calls'[x] = 1 PROVE Built(x) \in Range(E')
    <3>1. PICK k \in DOMAIN sorted : sorted[k] = Built(x)
      BY <2>1, <2>3, <2>6 DEF Kept, Range
    <3>2. built[k] = Built(x)
      BY <2>4, <3>1, EntryOf
    <3> QED BY <2>5, <3>2 DEF Range
  <2> QED BY <2>1, <2>6 DEF Kept
<1>5. CASE LoopStep
  <2>1. CASE ~InPhase(phase, E[i])
    BY <1>5, <2>1 DEF LoopStep, Kept, flags
  <2>2. CASE InPhase(phase, E[i])
    <3> DEFINE e == E[i]
    <3>1. /\ E' = E \o Appended(e) /\ UNCHANGED <<registration_event_cleanup, gone>>
          /\ calls' = [calls EXCEPT ![e.obj] = 1]
      BY <1>5, <2>2, RegisteringStep DEF flags
    <3>2. e \in Entry /\ e \in Range(E) /\ e = Built(e.obj)
      BY <1>5, CurrentEntry
    <3>3. Range(E) \subseteq Range(E')
      BY <1>0, <3>1, <3>2, AppendedIs, ConcatKeeps
    <3> HIDE DEF e
    <3>4. ASSUME NEW x \in Objects \ gone', calls'[x] = 1 PROVE Built(x) \in Range(E')
      BY <1>0, <3>1, <3>2, <3>3, <3>4 DEF Kept
    <3> QED BY <3>1, <3>4 DEF Kept
  <2> QED BY <2>1, <2>2
<1>6. CASE NextLoop \/ EnableDone \/ Disable \/ Quiet
  BY <1>6 DEF NextLoop, EnableDone, Disable, Quiet, Kept, flags, history
<1>7. ~EnableCleanup
  BY DEF EnableCleanup
<1> QED BY <1>1, <1>2, <1>3, <1>4, <1>5, <1>6, <1>7, StepKinds

\* A listener is told of all events, and all listeners are told of o.
LEMMA AllHeardCalled ==
  ASSUME TypeInv, Core, AllHeard, NEW o, NEW events, NEW ls, Called(o, events, ls),
         o \in Listeners => \A x \in Objects \ (gone \cup {o}) : calls[x] = 1 => Built(x) \in Range(events)
  PROVE  AllHeard'
<1> SUFFICES ASSUME NEW l \in Range(listeners'), NEW x \in Objects \ (gone \cup {l}), calls'[x] = 1
             PROVE  told'[l][x] > 0
  BY DEF AllHeard, Called
<1>1. l \in Listeners
  BY CalledIs
<1>2. told'[l][x] = told[l][x] + (IF l = o THEN Occurrences(events, Built(x)) ELSE 0)
                               + (IF x = o THEN Occurrences(ls, l) ELSE 0)
  BY <1>1 DEF Called, Replayed
<1>3. /\ told[l][x] \in Nat /\ Occurrences(ls, l) \in Nat /\ Occurrences(events, Built(x)) \in Nat
      /\ Occurrences(ls, l) = 0 <=> l \notin Range(ls)
      /\ Occurrences(events, Built(x)) = 0 <=> Built(x) \notin Range(events)
      /\ calls'[x] = IF x = o THEN 1 ELSE calls[x]
  BY <1>1, CalledIs
<1>4. CASE l = o
  <2>1. Built(x) \in Range(events)
    BY <1>1, <1>3, <1>4
  <2> QED BY <1>2, <1>3, <1>4, <2>1
<1>5. CASE l # o
  <2>1. l \in Range(listeners) /\ l \in Range(ls)
    BY <1>5, CalledIs
  <2>2. x # o => told[l][x] > 0
    BY <1>3, <2>1 DEF AllHeard
  <2> QED BY <1>2, <1>3, <1>5, <2>1, <2>2
<1> QED BY <1>4, <1>5

\* Every step keeps AllHeard: what is missing in a replay is told as event later.
LEMMA AllHeardStep ==
  ASSUME Ordinary, Servers = {}, Drivers = {}, "cleanup" \notin Uses, "raw_constructor" \notin Uses,
         TypeInv, Core, Core', [Next /\ Orderly]_vars, Kept, Kept', AllHeard
  PROVE  AllHeard'
<1> DEFINE E == registration_events
<1>0. /\ told \in Told /\ calls \in [Objects -> Nat] /\ Range(listeners) \subseteq Listeners
      /\ listeners \in Seq(Listeners) /\ Listeners \subseteq Objects
      /\ E \in Seq(Entry) /\ i \in Nat /\ nr_events_before_disable \in Nat
  BY RegistryAssumption DEF TypeInv, TypeOK, Told, Range
<1>1. CASE Silent
  BY <1>1 DEF Silent, AllHeard
<1>2. ASSUME NEW e \in Entry, NEW rest \in Seq(Objects), Registers(e, rest) PROVE AllHeard'
  <2>1. Called(e.obj, E', listeners')
    BY <1>2, RegistersCalls
  <2>2. ASSUME NEW x \in Objects \ (gone \cup {e.obj}), calls[x] = 1 PROVE Built(x) \in Range(E')
    <3>1. calls'[x] = 1 /\ x \notin gone'
      BY <1>0, <2>1, <2>2 DEF Called
    <3> QED BY <3>1 DEF Kept
  <2> QED BY <2>1, <2>2, AllHeardCalled
<1>3. ASSUME NEW e \in Entry, Unregisters(e) PROVE AllHeard'
  <2>1. /\ UNCHANGED calls /\ gone' = gone \cup {e.obj} /\ Range(listeners') \subseteq Range(listeners)
        /\ \A l \in Listeners, x \in Objects :
             told'[l][x] = IF x = e.obj /\ l \in Range(listeners') THEN 0 ELSE told[l][x]
    BY <1>3, UnregistersTells
  <2> QED BY <1>0, <2>1 DEF AllHeard
<1>4. CASE LoopStep
  <2> DEFINE e == E[i]
             o == e.obj
  <2>1. CASE ~InPhase(phase, e)
    <3>1. UNCHANGED <<listeners, calls, gone, told>>
      BY <1>4, <2>1, SkipTells
    <3> QED BY <3>1 DEF AllHeard
  <2>2. CASE InPhase(phase, e)
    <3> DEFINE events == IF phase = "listeners" /\ o \in Listeners THEN EventsBefore(i) ELSE << >>
    <3>1. Called(o, events, listeners)
      BY <1>4, <2>2, LoopCalls
    <3>2. ASSUME o \in Listeners, NEW x \in Objects \ (gone \cup {o}), calls[x] = 1
          PROVE  Built(x) \in Range(events)
      <4>1. Looping /\ Loop(o) = Rank(phase) /\ ~registration_enabled
        BY <1>4, <2>2, CurrentEntry
      <4>2. phase = "listeners" /\ Rank(phase) = 3 /\ Loop(x) >= 3
        BY <3>2, <4>1 DEF Loop, Rank, Looping
      <4>3. PICK k \in DOMAIN E : E[k] = Built(x)
        BY <3>2 DEF Kept, Range
      <4>4. E[k].obj = x /\ k \in 1 .. Len(E)
        BY <1>0, <4>3, EntryOf
      <4>5. CASE k <= nr_events_before_disable
        <5>1. k \in 1 .. nr_events_before_disable
          BY <1>0, <4>4, <4>5
        <5> QED BY <1>4, <3>2, <4>2, <4>3, <5>1, EventsBeforeAre
      <4>6. CASE ~(k <= nr_events_before_disable)
        <5>1. k \in New
          BY <1>0, <4>4, <4>6 DEF New
        <5>2. Loop(x) < 3 \/ (Loop(x) = 3 /\ k < i)
          BY <3>2, <4>1, <4>2, <4>4, <5>1 DEF Core, LoopProgress
        <5>3. Loop(x) = 3 /\ k < i
          BY <4>2, <5>2, LoopIs
        <5>4. x \in Listeners /\ k \in nr_events_before_disable + 1 .. i - 1
          BY <1>0, <5>1, <5>3 DEF Loop, New
        <5> QED BY <1>4, <3>2, <4>2, <4>3, <4>4, <5>4, EventsBeforeAre
      <4> QED BY <4>5, <4>6
    <3> HIDE DEF o, events
    <3> QED BY <3>1, <3>2, AllHeardCalled
  <2> QED BY <2>1, <2>2
<1>5. ASSUME NEW e \in Entry, Buffers(e) PROVE Silent
  BY <1>5 DEF Buffers, RegisterObject, Silent
<1>6. ASSUME Enable \/ NextLoop \/ EnableDone \/ Disable \/ EnableCleanup \/ Quiet PROVE Silent
  BY <1>6 DEF Enable, NextLoop, EnableDone, Disable, EnableCleanup, Quiet, Silent, history
<1> QED BY <1>1, <1>2, <1>3, <1>4, <1>5, <1>6, StepKinds

\* While events are kept, every listener knows every object that is there, whichever
\* came first: through the event, its replay at registration, or its replay in the loop
\* of the listeners, which takes the old events and those of the listeners before it.
THEOREM EveryListenerKnows ==
  ASSUME Ordinary, Servers = {}, Drivers = {}, "raw_constructor" \notin Uses
  PROVE  OrderedSpec => []ListenersKnow
<1>1. CASE "cleanup" \in Uses
  <2>1. ListenersKnow
    BY <1>1 DEF ListenersKnow
  <2> QED BY <2>1, PTL
<1>2. CASE "cleanup" \notin Uses
  <2>1. Init => Kept /\ AllHeard
    <3> SUFFICES ASSUME Init PROVE Kept /\ AllHeard
      OBVIOUS
    <3>1. /\ Range(listeners) = {} /\ ~registration_event_cleanup
          /\ \A o \in Objects : calls[o] = 0
      BY EmptyKeeps DEF Init
    <3> QED BY <3>1 DEF Kept, AllHeard
  <2>2. TypeInv /\ Core /\ (TypeInv /\ Core)' /\ [Next /\ Orderly]_vars /\ Kept /\ AllHeard => (Kept /\ AllHeard)'
    BY <1>2, KeptStep, AllHeardStep
  <2>3. TypeInv /\ Core /\ AllHeard => ListenersKnow
    <3> SUFFICES ASSUME TypeInv, Core, AllHeard, registration_enabled,
                        NEW l \in ToSet(listeners), NEW o \in Present \ {l}
                 PROVE  told[l][o] > 0
      BY DEF ListenersKnow
    <3>1. l \in Range(listeners)
      BY DEF ToSet, Range
    <3>2. o \in submitted /\ o \in Objects /\ o \notin gone
      BY DEF Present, TypeInv, TypeOK
    <3>3. calls[o] = 1
      BY <3>2 DEF Core, EnabledAllCalled
    <3> QED BY <3>1, <3>2, <3>3 DEF AllHeard
  <2> QED BY <2>1, <2>2, <2>3, CoreInvariant, PTL DEF OrderedSpec
<1> QED BY <1>1, <1>2

\* What is proved of orderly programs holds of every program that defines no orders,
\* however often it disables registration and enables it again.
THEOREM NoOrders == ASSUME OrdersBefore = {}, OrdersAfter = {} PROVE Spec => OrderedSpec
<1>1. TypeInv /\ [Next]_vars => [Next /\ Orderly]_vars
  <2> SUFFICES ASSUME TypeInv PROVE OldEventsStay
    BY DEF Orderly
  <2>1. registration_events \in Seq(Entry)
    BY DEF TypeInv, TypeOK
  <2>2. SortRegistrationEvents(registration_events, OrdersBefore) = registration_events
    BY <2>1, NotSorted
  <2>3. Construct(registration_events, nr_events_before_disable) \in Seq(Entry)
    BY <2>1, ConstructIs
  <2>4. SortRegistrationEvents(Construct(registration_events, nr_events_before_disable), OrdersAfter)
          = Construct(registration_events, nr_events_before_disable)
    BY <2>3, NotSorted
  <2> QED BY <2>2, <2>4 DEF OldEventsStay
<1> QED BY <1>1, TypeInvariant, PTL DEF Spec, OrderedSpec
=============================================================================
