--------------------------- MODULE Signals_proofs ---------------------------
(* Proofs about Signals, for any signals, tackers and callbacks, and any    *)
(* number of functors and of nested emissions: nothing is connected that is  *)
(* deleted, tackers know their signals, and emissions call what they should. *)
EXTENDS Signals, Subsequences_proofs

Connected(s) == Range(functors[s].used)

\* The memory a vector has in use, and has had.
Extent(v) == Len(v.used) + Len(v.rest)

\* An emission reads within the memory its vector has had.
FramesInside == \A k \in DOMAIN frames :
    frames[k].sig \notin BoolSignals => frames[k].n <= Extent(functors[frames[k].sig])

(* Functors are connected where they are live, once each; a tacker counts its  *)
(* functors, and when it is gone none of them is connected.                    *)
SignalInv ==
    /\ TypeOK
    /\ FramesInside
    /\ \A s \in Signals : IsInjective(functors[s].used)
    /\ \A s, r \in Signals : s # r => Connected(s) \cap Connected(r) = {}
    /\ \A s \in Signals : Connected(s) \subseteq live
    /\ \A f \in live : \E s \in Signals : f \in Connected(s)
    /\ \A t \in Tackers \ assigned : \A s \in Signals : signals[t][s] = Owned(functors[s], t)
    /\ \A f \in live : owner[f] \in alive \cup {dying, NoTacker} \cup assigned
-----------------------------------------------------------------------------
\* What the operations make of a vector.
LEMMA VectorFacts ==
    ASSUME NEW v \in Vector
    PROVE  /\ v.used \in Seq(Functors) /\ v.rest \in Seq(Functors)
           /\ Range(v.used) = ToSet(v.used) /\ Range(v.used) \subseteq Functors
           /\ Len(v.used) \in Nat /\ Len(v.rest) \in Nat /\ Extent(v) \in Nat
           /\ DOMAIN v.used = 1..Len(v.used)
<1>1. v.used \in Seq(Functors) /\ v.rest \in Seq(Functors)
  BY DEF Vector
<1>2. /\ Len(v.used) \in Nat /\ Len(v.rest) \in Nat /\ DOMAIN v.used = 1..Len(v.used)
      /\ \A k \in DOMAIN v.used : v.used[k] \in Functors
  BY <1>1
<1>3. Range(v.used) = ToSet(v.used) /\ Range(v.used) \subseteq Functors
  BY <1>2 DEF Range, ToSet
<1>4. Extent(v) \in Nat
  <2> DEFINE m == Len(v.used)  n == Len(v.rest)
  <2>1. m \in Nat /\ n \in Nat
    BY <1>2
  <2>2. Extent(v) = m + n
    BY DEF Extent
  <2> HIDE DEF m, n
  <2> QED BY <2>1, <2>2
<1> QED BY <1>1, <1>2, <1>3, <1>4

LEMMA PushBackKeeps ==
    ASSUME NEW v \in Vector, NEW f \in Functors
    PROVE  LET w == PushBack(v, f) IN
           /\ w \in Vector /\ Extent(w) >= Extent(v)
           /\ Range(w.used) = Range(v.used) \cup {f}
           /\ IsInjective(v.used) /\ f \notin Range(v.used) => IsInjective(w.used)
           /\ Len(w.used) = Len(v.used) + 1
           /\ \A k \in 1..Len(v.used) : w.used[k] = v.used[k]
<1> DEFINE w == PushBack(v, f)
           rest == IF v.rest = <<>> THEN <<>> ELSE Tail(v.rest)
<1>0. v.used \in Seq(Functors) /\ v.rest \in Seq(Functors)
  BY VectorFacts
<1>1. w.used = Append(v.used, f) /\ w.rest = rest /\ w = [used |-> w.used, rest |-> w.rest]
  BY DEF PushBack
<1>2. /\ w.used \in Seq(Functors) /\ Range(w.used) = Range(v.used) \cup {f}
      /\ IsInjective(v.used) /\ f \notin Range(v.used) => IsInjective(w.used)
  BY <1>0, <1>1, AppendKeeps
<1>3. rest \in Seq(Functors) /\ Len(rest) + 1 >= Len(v.rest)
  BY <1>0
<1>4. /\ Len(w.used) = Len(v.used) + 1
      /\ \A k \in 1..Len(v.used) : w.used[k] = v.used[k]
  BY <1>0, <1>1
<1>5. Extent(w) >= Extent(v)
  <2> DEFINE m == Len(v.used)  n == Len(v.rest)  r == Len(rest)
  <2>1. m \in Nat /\ n \in Nat /\ r \in Nat /\ r + 1 >= n
    BY <1>0, <1>3
  <2>2. Extent(w) = m + 1 + r /\ Extent(v) = m + n
    BY <1>1, <1>4 DEF Extent
  <2> HIDE DEF m, n, r
  <2> QED BY <2>1, <2>2
<1>6. w \in Vector
  BY <1>1, <1>2, <1>3 DEF Vector
<1> QED BY <1>2, <1>4, <1>5, <1>6

LEMMA EraseKeeps ==
    ASSUME NEW v \in Vector, NEW matching
    PROVE  LET w == EraseMatching(v, matching) IN
           /\ w \in Vector /\ Extent(w) = Extent(v)
           /\ Range(w.used) = Range(v.used) \ matching
           /\ IsInjective(v.used) => IsInjective(w.used)
<1> DEFINE kept == Only(v.used, Functors \ matching)
           left == [k \in 1..(Len(v.used) - Len(kept)) |-> Last(v.used)]
           w == EraseMatching(v, matching)
<1>0. /\ v.used \in Seq(Functors) /\ v.rest \in Seq(Functors)
      /\ Range(v.used) \subseteq Functors
  BY VectorFacts
<1>1. w.used = kept /\ w.rest = left \o v.rest /\ w = [used |-> w.used, rest |-> w.rest]
  BY DEF EraseMatching
<1>2. /\ kept \in Seq(Functors) /\ Len(kept) <= Len(v.used)
      /\ Range(kept) = Range(v.used) \ matching
      /\ IsInjective(v.used) => IsInjective(kept)
  <2>1. /\ kept \in Seq(Functors) /\ Len(kept) <= Len(v.used)
        /\ Range(kept) = Range(v.used) \cap (Functors \ matching)
        /\ IsInjective(v.used) => IsInjective(kept)
    BY <1>0, OnlyKeeps
  <2> QED BY <1>0, <2>1
<1> HIDE DEF kept
<1>3. left \in Seq(Functors) /\ Len(left) = Len(v.used) - Len(kept)
  <2>1. Len(v.used) - Len(kept) \in Nat
    BY <1>0, <1>2
  <2>2. \A k \in 1..(Len(v.used) - Len(kept)) : Last(v.used) \in Functors
    BY <1>0, <1>2 DEF Last
  <2> QED BY <2>1, <2>2
<1> HIDE DEF left
<1>4. left \o v.rest \in Seq(Functors) /\ Len(left \o v.rest) = Len(left) + Len(v.rest)
  <2> DEFINE r == v.rest
  <2>1. r \in Seq(Functors)
    BY <1>0
  <2> HIDE DEF r
  <2>2. left \o r \in Seq(Functors) /\ Len(left \o r) = Len(left) + Len(r)
    BY <1>3, <2>1
  <2> QED BY <2>2 DEF r
<1>5. w \in Vector
  BY <1>1, <1>2, <1>4 DEF Vector
<1>6. Extent(w) = Extent(v)
  BY <1>0, <1>1, <1>2, <1>3, <1>4 DEF Extent
<1> QED BY <1>1, <1>2, <1>5, <1>6

LEMMA ClearKeeps ==
    ASSUME NEW v \in Vector
    PROVE  LET w == [used |-> <<>>, rest |-> v.used \o v.rest] IN
           /\ w \in Vector /\ Extent(w) = Extent(v)
           /\ Range(w.used) = {} /\ IsInjective(w.used)
<1> DEFINE w == [used |-> <<>>, rest |-> v.used \o v.rest]
<1>1. v.used \in Seq(Functors) /\ v.rest \in Seq(Functors)
  BY VectorFacts
<1>2. v.used \o v.rest \in Seq(Functors) /\ Len(v.used \o v.rest) = Len(v.used) + Len(v.rest)
  BY <1>1
<1>3. w \in Vector /\ Extent(w) = Extent(v)
  BY <1>1, <1>2 DEF Vector, Extent
<1>4. Range(w.used) = {} /\ IsInjective(w.used)
  BY EmptyKeeps
<1> QED BY <1>3, <1>4

\* The number of a tacker's functors in a vector.
LEMMA OwnedFacts ==
    ASSUME NEW v \in Vector, NEW t
    PROVE  /\ Owned(v, t) \in Nat
           /\ Owned(v, t) = 0 <=> \A f \in Range(v.used) : owner[f] # t
<1> DEFINE K == {k \in DOMAIN v.used : owner[v.used[k]] = t}
<1>1. IsFiniteSet(K)
  <2>1. K \subseteq 1..Len(v.used) /\ Len(v.used) \in Nat
    BY VectorFacts
  <2>2. IsFiniteSet(1..Len(v.used))
    <3> HIDE DEF K
    <3> QED BY <2>1, FS_Interval
  <2> QED BY <2>1, <2>2, FS_Subset
<1>2. K = {} <=> \A f \in Range(v.used) : owner[f] # t
  BY DEF Range
<1> HIDE DEF K
<1>3. Cardinality(K) \in Nat /\ (Cardinality(K) = 0 <=> K = {})
  BY <1>1, FS_CardinalityType, FS_EmptySet
<1> QED BY <1>2, <1>3 DEF Owned, K

\* A functor more in a vector is one more for its tacker.
OwnedBy(v, own, t) == Cardinality({k \in DOMAIN v.used : own[v.used[k]] = t})

LEMMA OwnedPushed ==
    ASSUME NEW v \in Vector, NEW f \in Functors, NEW t, NEW own, NEW new,
           \A g \in Range(v.used) : new[g] = own[g]
    PROVE  OwnedBy(PushBack(v, f), new, t) =
             IF new[f] = t THEN OwnedBy(v, own, t) + 1 ELSE OwnedBy(v, own, t)
<1> DEFINE w == PushBack(v, f)
           K == {k \in DOMAIN v.used : own[v.used[k]] = t}
           L == {k \in DOMAIN w.used : new[w.used[k]] = t}
           n == Len(v.used) + 1
<1>1. /\ DOMAIN v.used = 1..Len(v.used) /\ Len(v.used) \in Nat
      /\ DOMAIN w.used = 1..n /\ w.used[n] = f
      /\ \A k \in 1..Len(v.used) : w.used[k] = v.used[k] /\ new[v.used[k]] = own[v.used[k]]
  <2>1. v.used \in Seq(Functors) /\ w.used = Append(v.used, f)
    BY VectorFacts DEF PushBack
  <2>2. \A k \in 1..Len(v.used) : new[v.used[k]] = own[v.used[k]]
    BY <2>1 DEF Range
  <2> QED BY <2>1, <2>2
<1> HIDE DEF w
<1>2. IsFiniteSet(K) /\ n \notin K
  <2>1. IsFiniteSet(1..Len(v.used)) /\ K \subseteq 1..Len(v.used)
    <3>1. K \subseteq 1..Len(v.used)
      BY <1>1
    <3> HIDE DEF K
    <3> QED BY <1>1, <3>1, FS_Interval
  <2> QED BY <1>1, <2>1, FS_Subset
<1>3. L = IF new[f] = t THEN K \cup {n} ELSE K
  <2>1. \A k \in 1..n : k \in 1..Len(v.used) \/ k = n
    BY <1>1
  <2>2. \A k \in 1..Len(v.used) : k \in 1..n
    BY <1>1
  <2>3. n \in 1..n /\ w.used[n] = f
    BY <1>1
  <2> QED BY <1>1, <2>1, <2>2, <2>3
<1> HIDE DEF K, L
<1>4. Cardinality(K \cup {n}) = Cardinality(K) + 1
  BY <1>2, FS_AddElement
<1> QED BY <1>3, <1>4 DEF OwnedBy, K, L, w

LEMMA OwnedSame ==
    ASSUME NEW v, NEW t, NEW own, NEW new, \A g \in Range(v.used) : new[g] = own[g]
    PROVE  OwnedBy(v, new, t) = OwnedBy(v, own, t)
<1>1. {k \in DOMAIN v.used : own[v.used[k]] = t} = {k \in DOMAIN v.used : new[v.used[k]] = t}
  BY DEF Range
<1> QED BY <1>1 DEF OwnedBy
-----------------------------------------------------------------------------
LEMMA SignalInit == Init => SignalInv
<1> SUFFICES ASSUME Init PROVE SignalInv
  OBVIOUS
<1>1. \A s \in Signals : functors[s] = [used |-> <<>>, rest |-> <<>>]
  BY DEF Init
<1>2. [used |-> <<>>, rest |-> <<>>] \in Vector
  BY DEF Vector
<1>3. (CHOOSE m \in Slots : TRUE) \in Slots
  BY SignalsAssumption
<1>4. TypeOK
  BY <1>2, <1>3, SignalsAssumption DEF Init, TypeOK, Owners, Functors
<1>5. \A s \in Signals : Connected(s) = {} /\ IsInjective(functors[s].used)
  BY <1>1, EmptyKeeps DEF Connected
<1>6. \A s \in Signals : \A t \in Tackers : Owned(functors[s], t) = 0
  BY <1>1, <1>2, <1>5, OwnedFacts DEF Connected
<1>7. FramesInside
  BY DEF Init, FramesInside
<1> QED BY <1>4, <1>5, <1>6, <1>7 DEF Init, SignalInv
-----------------------------------------------------------------------------
\* What disconnecting does: w is the vector of s from then on.
TakeOut(s, w) ==
    LET v == functors[s]
    IN  /\ functors' = [functors EXCEPT ![s] = w]
        /\ live' = live \ (Range(v.used) \ Range(w.used))
        /\ signals' = [t \in Tackers |->
               [signals[t] EXCEPT ![s] =
                    IF @ > Owned(v, t) - Owned(w, t) THEN @ - (Owned(v, t) - Owned(w, t))
                    ELSE 0]]

\* w is what a vector v may be after that.
Shrinks(v, w) ==
    /\ w \in Vector /\ Extent(w) = Extent(v)
    /\ Range(w.used) \subseteq Range(v.used) /\ IsInjective(w.used)

LEMMA UnlinkRemoves ==
    ASSUME SignalInv, NEW s \in Signals, NEW matching, Unlink(s, matching)
    PROVE  LET w == EraseMatching(functors[s], matching) IN
           TakeOut(s, w) /\ Shrinks(functors[s], w) /\ Range(w.used) = Connected(s) \ matching
<1> DEFINE v == functors[s]  w == EraseMatching(v, matching)
<1>1. v \in Vector /\ IsInjective(v.used)
  BY DEF SignalInv, TypeOK
<1>2. /\ w \in Vector /\ Extent(w) = Extent(v) /\ IsInjective(w.used)
      /\ Range(w.used) = Range(v.used) \ matching
  BY <1>1, EraseKeeps
<1>3. ToSet(v.used) = Range(v.used) /\ ToSet(w.used) = Range(w.used)
  BY <1>1, <1>2, VectorFacts
<1>4. TakeOut(s, w)
  BY <1>3 DEF Unlink, TakeOut
<1> QED BY <1>2, <1>4 DEF Shrinks, Connected

LEMMA ClearRemoves ==
    ASSUME SignalInv, NEW s \in Signals, Clear(s)
    PROVE  LET w == [used |-> <<>>, rest |-> functors[s].used \o functors[s].rest] IN
           TakeOut(s, w) /\ Shrinks(functors[s], w) /\ Range(w.used) = {}
<1> DEFINE v == functors[s]  w == [used |-> <<>>, rest |-> v.used \o v.rest]
<1>1. v \in Vector
  BY DEF SignalInv, TypeOK
<1>2. /\ w \in Vector /\ Extent(w) = Extent(v) /\ IsInjective(w.used)
      /\ Range(w.used) = {}
  BY <1>1, ClearKeeps
<1>3. functors' = [functors EXCEPT ![s] = w]
  BY DEF Clear
<1> HIDE DEF w
<1>4. \A t : Owned(w, t) = 0 /\ Owned(v, t) \in Nat
  BY <1>1, <1>2, OwnedFacts
<1>5. \A t : Owned(v, t) - Owned(w, t) = Owned(v, t)
  BY <1>4
<1>6. ToSet(v.used) = Range(v.used) \ Range(w.used)
  BY <1>1, <1>2, VectorFacts
<1>7. TakeOut(s, w)
  <2> DEFINE A(t) == [signals[t] EXCEPT ![s] = IF @ > Owned(v, t) THEN @ - Owned(v, t) ELSE 0]
             B(t) == [signals[t] EXCEPT ![s] =
                        IF @ > Owned(v, t) - Owned(w, t) THEN @ - (Owned(v, t) - Owned(w, t))
                        ELSE 0]
  <2>1. signals' = [t \in Tackers |-> A(t)] /\ live' = live \ ToSet(v.used)
    BY DEF Clear
  <2>2. \A t : A(t) = B(t)
    BY <1>5
  <2> HIDE DEF A
  <2>3. signals' = [t \in Tackers |-> B(t)]
    <3> HIDE DEF B
    <3> QED BY <2>1, <2>2
  <2>4. live' = live \ (Range(v.used) \ Range(w.used))
    BY <1>6, <2>1
  <2> QED BY <1>3, <2>3, <2>4 DEF TakeOut
<1> QED BY <1>2, <1>7 DEF Shrinks, w

\* Each functor taken is taken from the count of its tacker.
LEMMA RemoveCounts ==
    ASSUME SignalInv, NEW s \in Signals, NEW w, TakeOut(s, w), Shrinks(functors[s], w)
    PROVE  /\ signals' \in [Tackers -> [Signals -> Nat]]
           /\ \A t \in Tackers, r \in Signals :
                r # s => signals'[t][r] = signals[t][r]
           /\ \A t \in Tackers \ assigned : signals'[t][s] = Owned(w, t)
<1> DEFINE v == functors[s]
           d(t) == Owned(v, t) - Owned(w, t)
           less(t) == IF signals[t][s] > d(t) THEN signals[t][s] - d(t) ELSE 0
<1>1. v \in Vector /\ w \in Vector
  BY DEF SignalInv, TypeOK, Shrinks
<1>2. \A t \in Tackers : signals'[t] = [signals[t] EXCEPT ![s] = less(t)]
  BY DEF TakeOut
<1>3. \A t \in Tackers : signals[t] \in [Signals -> Nat] /\ signals[t][s] \in Nat
  BY DEF SignalInv, TypeOK
<1>4. \A t : Owned(v, t) \in Nat /\ Owned(w, t) \in Nat
  BY <1>1, OwnedFacts
<1>5. \A t \in Tackers : less(t) \in Nat
  BY <1>3, <1>4
<1>6. \A t \in Tackers \ assigned : less(t) = Owned(w, t)
  <2> SUFFICES ASSUME NEW t \in Tackers \ assigned PROVE less(t) = Owned(w, t)
    OBVIOUS
  <2>1. signals[t][s] = Owned(v, t)
    BY DEF SignalInv
  <2> QED BY <1>4, <2>1
<1> HIDE DEF less, d
<1>7. signals' \in [Tackers -> [Signals -> Nat]]
  <2>1. ASSUME NEW t \in Tackers PROVE signals'[t] \in [Signals -> Nat]
    <3> DEFINE l == less(t)  m == signals[t]
    <3>1. l \in Nat /\ m \in [Signals -> Nat] /\ signals'[t] = [m EXCEPT ![s] = l]
      BY <1>2, <1>3, <1>5
    <3> HIDE DEF l, m
    <3> QED BY <3>1
  <2>2. signals' = [t \in Tackers |-> signals'[t]]
    BY DEF TakeOut
  <2> QED BY <2>1, <2>2
<1> QED BY <1>2, <1>3, <1>6, <1>7

\* The emissions that run are emissions of signals.
LEMMA FrameSignals ==
    ASSUME SignalInv, NEW k \in DOMAIN frames
    PROVE  frames[k].sig \in Signals /\ frames[k].n \in Nat /\ frames[k].i \in Nat
<1>1. frames \in Seq(Frame)
  BY DEF SignalInv, TypeOK
<1>2. frames[k] \in Frame
  BY <1>1
<1> QED BY <1>2 DEF Frame

LEMMA RemoveKeeps ==
    ASSUME SignalInv, NEW s \in Signals, NEW w, TakeOut(s, w), Shrinks(functors[s], w),
           UNCHANGED <<store, assigned, frames>>,
           alive' \subseteq Tackers, existing' \subseteq Signals, dying' \in Owners,
           \A f \in live' : owner[f] \in alive' \cup {dying', NoTacker} \cup assigned
    PROVE  SignalInv'
<1>1. /\ functors' = [functors EXCEPT ![s] = w] /\ functors \in [Signals -> Vector]
      /\ live' = live \ (Connected(s) \ Range(w.used))
      /\ UNCHANGED <<owner, slot, allocated>>
  BY DEF TakeOut, SignalInv, TypeOK, store, Connected
<1>2. /\ w \in Vector /\ Extent(w) = Extent(functors[s])
      /\ Range(w.used) \subseteq Connected(s) /\ IsInjective(w.used)
  BY DEF Shrinks, Connected
<1>3. /\ functors' \in [Signals -> Vector] /\ functors'[s] = w
      /\ \A r \in Signals : r # s => functors'[r] = functors[r]
  BY <1>1, <1>2
<1>4. /\ Connected(s)' = Range(w.used)
      /\ \A r \in Signals : r # s => Connected(r)' = Connected(r)
      /\ \A r \in Signals : IsInjective(functors'[r].used) /\ Extent(functors'[r]) = Extent(functors[r])
  BY <1>2, <1>3 DEF Connected, SignalInv
<1>5. TypeOK'
  <2>1. live' \subseteq 1..allocated
    BY <1>1 DEF SignalInv, TypeOK
  <2>2. signals' \in [Tackers -> [Signals -> Nat]]
    BY RemoveCounts
  <2> QED BY <1>1, <1>3, <2>1, <2>2 DEF SignalInv, TypeOK
<1>6. FramesInside'
  BY <1>4, FrameSignals DEF FramesInside, SignalInv
<1>7. \A r, q \in Signals : r # q => Connected(r)' \cap Connected(q)' = {}
  BY <1>2, <1>4 DEF SignalInv
<1>8. \A r \in Signals : Connected(r)' \subseteq live'
  BY <1>1, <1>2, <1>4 DEF SignalInv
<1>9. \A f \in live' : \E r \in Signals : f \in Connected(r)'
  BY <1>1, <1>2, <1>4 DEF SignalInv
<1>10. \A t \in Tackers \ assigned' : \A r \in Signals : signals'[t][r] = Owned(functors[r], t)'
  <2> SUFFICES ASSUME NEW t \in Tackers \ assigned, NEW r \in Signals
               PROVE  signals'[t][r] = Owned(functors[r], t)'
    BY <1>1
  <2>1. Owned(functors[r], t)' = Owned(functors'[r], t)
    BY <1>1 DEF Owned
  <2>2. CASE r = s
    BY <1>3, <2>1, <2>2, RemoveCounts
  <2>3. CASE r # s
    <3>1. signals'[t][r] = signals[t][r] /\ signals[t][r] = Owned(functors[r], t)
      BY <2>3, RemoveCounts DEF SignalInv
    <3> QED BY <1>3, <2>1, <2>3, <3>1
  <2> QED BY <2>2, <2>3
<1>11. \A f \in live' : owner'[f] \in alive' \cup {dying', NoTacker} \cup assigned'
  BY <1>1
<1>12. \A r \in Signals : IsInjective(functors[r].used)'
  BY <1>4 DEF IsInjective
<1> QED BY <1>5, <1>6, <1>7, <1>8, <1>9, <1>10, <1>11, <1>12 DEF SignalInv
-----------------------------------------------------------------------------
LEMMA ConnectKeeps ==
    ASSUME SignalInv, NEW s \in Signals, NEW t \in Owners, NEW m \in Slots, Connect(s, t, m)
    PROVE  SignalInv'
<1> DEFINE f == allocated + 1  v == functors[s]  w == PushBack(v, f)
<1>0. TypeOK
  BY DEF SignalInv
<1>1. f \in Functors /\ f \notin live /\ f \in 1..f /\ live \subseteq 1..f /\ f \in 0..MaxFunctors
  BY <1>0, SignalsAssumption DEF TypeOK, Connect, Functors
<1>2. \A r \in Signals : f \notin Connected(r)
  BY <1>1 DEF SignalInv
<1>3. /\ v \in Vector /\ w \in Vector /\ Extent(w) >= Extent(v)
      /\ Range(w.used) = Connected(s) \cup {f} /\ IsInjective(w.used)
  <2>1. v \in Vector /\ IsInjective(v.used) /\ f \notin Range(v.used)
    BY <1>0, <1>2 DEF TypeOK, SignalInv, Connected
  <2> HIDE DEF f, v
  <2> QED BY <1>1, <2>1, PushBackKeeps DEF Connected, v
<1>4. /\ functors' = [functors EXCEPT ![s] = w] /\ live' = live \cup {f}
      /\ owner' = [owner EXCEPT ![f] = t] /\ slot' = [slot EXCEPT ![f] = m]
      /\ allocated' = f /\ t \in alive \cup {NoTacker}
      /\ signals' = IF t = NoTacker THEN signals ELSE [signals EXCEPT ![t][s] = @ + 1]
      /\ UNCHANGED <<alive, dying, existing, frames, assigned>>
  BY DEF Connect
<1> HIDE DEF f, w, v
<1>5. /\ functors' \in [Signals -> Vector] /\ functors'[s] = w
      /\ \A r \in Signals : r # s => functors'[r] = functors[r]
  BY <1>0, <1>3, <1>4 DEF TypeOK
<1>6. /\ Connected(s)' = Connected(s) \cup {f}
      /\ \A r \in Signals : r # s => Connected(r)' = Connected(r)
      /\ \A r \in Signals : IsInjective(functors'[r].used)
      /\ \A r \in Signals : r # s => Extent(functors'[r]) = Extent(functors[r])
  BY <1>3, <1>5 DEF Connected, SignalInv
<1>7. owner' \in [Functors -> Owners] /\ slot' \in [Functors -> Slots]
      /\ owner'[f] = t /\ \A g \in Functors : g # f => owner'[g] = owner[g]
  BY <1>0, <1>1, <1>4 DEF TypeOK
<1>8. signals' \in [Tackers -> [Signals -> Nat]]
  BY <1>0, <1>4 DEF TypeOK, Owners
<1>9. TypeOK'
  BY <1>0, <1>1, <1>4, <1>5, <1>7, <1>8 DEF TypeOK
<1>10. FramesInside'
  <2> SUFFICES ASSUME NEW k \in DOMAIN frames, frames[k].sig \notin BoolSignals
               PROVE  frames[k].n <= Extent(functors'[frames[k].sig])
    BY <1>4 DEF FramesInside
  <2>1. frames[k].sig \in Signals /\ frames[k].n \in Nat
    BY FrameSignals
  <2>2. frames[k].n <= Extent(functors[frames[k].sig])
    BY DEF SignalInv, FramesInside
  <2>3. Extent(v) \in Nat /\ Extent(w) \in Nat
    BY <1>3, VectorFacts
  <2>4. CASE frames[k].sig = s
    <3>1. frames[k].n <= Extent(v)
      BY <2>2, <2>4 DEF v
    <3> QED BY <1>3, <1>5, <2>1, <2>3, <2>4, <3>1
  <2>5. CASE frames[k].sig # s
    BY <1>6, <2>1, <2>2, <2>5
  <2> QED BY <2>4, <2>5
<1>11. \A r, q \in Signals : r # q => Connected(r)' \cap Connected(q)' = {}
  BY <1>2, <1>6 DEF SignalInv
<1>12. \A r \in Signals : Connected(r)' \subseteq live'
  BY <1>4, <1>6 DEF SignalInv
<1>13. \A g \in live' : \E r \in Signals : g \in Connected(r)'
  BY <1>4, <1>6 DEF SignalInv
<1>14. \A u \in Tackers \ assigned' : \A r \in Signals : signals'[u][r] = Owned(functors[r], u)'
  <2> SUFFICES ASSUME NEW u \in Tackers \ assigned, NEW r \in Signals
               PROVE  signals'[u][r] = Owned(functors[r], u)'
    BY <1>4
  <2>1. Owned(functors[r], u)' = OwnedBy(functors'[r], owner', u)
    BY DEF Owned, OwnedBy
  <2>2. Owned(functors[r], u) = OwnedBy(functors[r], owner, u) /\ functors[r] \in Vector
    BY <1>0 DEF Owned, OwnedBy, TypeOK
  <2>3. signals[u][r] = Owned(functors[r], u) /\ Owned(functors[r], u) \in Nat
    BY <2>2, OwnedFacts DEF SignalInv
  <2>4. \A g \in Range(functors[r].used) : owner'[g] = owner[g]
    <3>1. \A g \in Range(functors[r].used) : g \in Functors /\ g # f
      BY <1>2, <2>2, VectorFacts DEF Connected
    <3> QED BY <1>7, <3>1
  <2>5. CASE r # s
    <3>1. Owned(functors[r], u)' = Owned(functors[r], u)
      BY <1>5, <2>1, <2>2, <2>4, <2>5, OwnedSame
    <3>2. signals'[u][r] = signals[u][r]
      BY <1>0, <1>4, <2>5 DEF TypeOK
    <3> QED BY <2>3, <3>1, <3>2
  <2>6. CASE r = s
    <3>0. functors'[s] = PushBack(v, f) /\ v = functors[s]
      BY <1>5 DEF w, v
    <3>1. Owned(functors[r], u)' = IF owner'[f] = u THEN OwnedBy(v, owner, u) + 1
                                   ELSE OwnedBy(v, owner, u)
      BY <1>1, <1>3, <2>1, <2>4, <2>6, <3>0, OwnedPushed
    <3>2. signals'[u][s] = IF t = u THEN signals[u][s] + 1 ELSE signals[u][s]
      BY <1>0, <1>4, SignalsAssumption DEF TypeOK
    <3> QED BY <1>7, <2>2, <2>3, <2>6, <3>0, <3>1, <3>2
  <2> QED BY <2>5, <2>6
<1>15. \A g \in live' : owner'[g] \in alive' \cup {dying', NoTacker} \cup assigned'
  <2>1. \A g \in live : g \in Functors /\ g # f
    <3>1. allocated \in 0..MaxFunctors /\ live \subseteq 1..allocated
      BY <1>0 DEF TypeOK
    <3>2. 1..allocated \subseteq Functors
      BY <3>1, SignalsAssumption DEF Functors
    <3> QED BY <1>1, <3>1, <3>2
  <2>2. \A g \in live : owner'[g] \in alive' \cup {dying', NoTacker} \cup assigned'
    BY <1>4, <1>7, <2>1 DEF SignalInv
  <2> QED BY <1>4, <1>7, <2>2
<1>16. \A r \in Signals : IsInjective(functors[r].used)'
  BY <1>6 DEF IsInjective
<1> QED BY <1>9, <1>10, <1>11, <1>12, <1>13, <1>14, <1>15, <1>16 DEF SignalInv

\* Steps that connect and disconnect nothing.
LEMMA StoreStays ==
    ASSUME SignalInv, UNCHANGED <<functors, store, live>>,
           signals' \in [Tackers -> [Signals -> Nat]],
           \A t \in Tackers \ assigned' : signals'[t] = signals[t],
           assigned \subseteq assigned', assigned' \subseteq Tackers,
           alive' \subseteq Tackers, existing' \subseteq Signals, dying' \in Owners,
           frames' \in Seq(Frame), FramesInside',
           \A f \in live : owner[f] \in alive' \cup {dying', NoTacker} \cup assigned'
    PROVE  SignalInv'
<1>1. TypeOK' /\ UNCHANGED <<owner, slot, allocated>>
  BY DEF SignalInv, TypeOK, store
<1>2. \A s \in Signals : Connected(s)' = Connected(s) /\ IsInjective(functors[s].used)'
  BY DEF Connected, SignalInv, IsInjective
<1>3. \A t \in Tackers \ assigned' : \A s \in Signals : signals'[t][s] = Owned(functors[s], t)'
  <2> SUFFICES ASSUME NEW t \in Tackers \ assigned', NEW s \in Signals
               PROVE  signals'[t][s] = Owned(functors[s], t)'
    OBVIOUS
  <2>1. Owned(functors[s], t)' = Owned(functors[s], t)
    BY <1>1 DEF Owned
  <2>2. signals[t][s] = Owned(functors[s], t)
    BY DEF SignalInv
  <2> QED BY <2>1, <2>2
<1> QED BY <1>1, <1>2, <1>3 DEF SignalInv
-----------------------------------------------------------------------------
\* The functors of a tacker that is gone, or was assigned to, excepted, each
\* still belongs to a tacker that is there.
LEMMA TakeKeeps ==
    ASSUME SignalInv, NEW s \in Signals, NEW w, TakeOut(s, w), Shrinks(functors[s], w),
           UNCHANGED <<store, alive, dying, frames, assigned>>, existing' \subseteq Signals
    PROVE  SignalInv'
<1>1. /\ alive' \subseteq Tackers /\ dying' \in Owners /\ live' \subseteq live
      /\ alive' = alive /\ dying' = dying
  BY DEF SignalInv, TypeOK, TakeOut
<1>2. \A f \in live' : owner[f] \in alive' \cup {dying', NoTacker} \cup assigned
  BY <1>1 DEF SignalInv
<1>3. UNCHANGED <<store, assigned, frames>>
  OBVIOUS
<1> QED BY <1>1, <1>2, <1>3, RemoveKeeps

\* A tacker that knows no signal, and was not assigned to, owns nothing connected.
LEMMA UnknownOwnsNone ==
    ASSUME SignalInv, NEW t \in Tackers \ assigned, NEW f \in live, owner[f] = t
    PROVE  \E s \in Signals : f \in Connected(s) /\ s \in Known(signals, t)
<1>1. PICK s \in Signals : f \in Connected(s)
  BY DEF SignalInv
<1>2. functors[s] \in Vector /\ signals[t][s] = Owned(functors[s], t)
  BY DEF SignalInv, TypeOK
<1>3. Owned(functors[s], t) \in Nat /\ Owned(functors[s], t) # 0
  BY <1>1, <1>2, OwnedFacts DEF Connected
<1> QED BY <1>1, <1>2, <1>3 DEF Known

LEMMA UntackStepKeeps == SignalInv /\ UntackStep => SignalInv'
<1> SUFFICES ASSUME SignalInv, UntackStep PROVE SignalInv'
  OBVIOUS
<1> DEFINE mine == {f \in Functors : owner[f] = dying}
<1>1. PICK s \in Known(signals, dying) :
        /\ Unlink(s, mine)
        /\ dying' = IF Cardinality(Known(signals', dying)) >= Cardinality(Known(signals, dying))
                    THEN NoTacker ELSE dying
  BY DEF UntackStep
<1> HIDE DEF mine
<1>2. /\ s \in Signals /\ dying \in Tackers
      /\ UNCHANGED <<store, alive, existing, frames, assigned>>
  BY DEF Known, UntackStep, SignalInv, TypeOK, Owners
<1> DEFINE w == EraseMatching(functors[s], mine)
<1>3. TakeOut(s, w) /\ Shrinks(functors[s], w) /\ Range(w.used) = Connected(s) \ mine
  BY <1>1, <1>2, UnlinkRemoves
<1> HIDE DEF w
<1>4. live' \subseteq live /\ dying' \in Owners
  BY <1>1, <1>3 DEF TakeOut, SignalInv, TypeOK, Owners
<1>5. ASSUME dying \notin assigned PROVE dying' = dying
  <2> DEFINE K == Known(signals, dying)  L == Known(signals', dying)
  <2>1. Owned(w, dying) = 0
    <3>1. \A f \in Range(w.used) : f \in Functors /\ f \notin mine
      BY <1>3, VectorFacts DEF Shrinks
    <3>2. \A f \in Range(w.used) : owner[f] # dying
      BY <3>1 DEF mine
    <3> QED BY <1>3, <3>2, OwnedFacts DEF Shrinks
  <2>2. signals'[dying][s] = 0 /\ \A r \in Signals : r # s => signals'[dying][r] = signals[dying][r]
    BY <1>2, <1>3, <1>5, <2>1, RemoveCounts
  <2>3. L = K \ {s} /\ s \in K
    BY <1>1, <1>2, <2>2 DEF Known
  <2>4. IsFiniteSet(K)
    <3>1. K \subseteq Signals
      BY DEF Known
    <3> QED BY <3>1, SignalsAssumption, FS_Subset
  <2> HIDE DEF K, L
  <2>5. Cardinality(L) = Cardinality(K) - 1 /\ Cardinality(K) \in Nat
    BY <2>3, <2>4, FS_RemoveElement, FS_CardinalityType
  <2>6. ~(Cardinality(L) >= Cardinality(K))
    <3> DEFINE k == Cardinality(K)  l == Cardinality(L)
    <3>1. l = k - 1 /\ k \in Nat
      BY <2>5
    <3> HIDE DEF k, l
    <3> QED BY <3>1 DEF k, l
  <2> QED BY <1>1, <2>6 DEF K, L
<1>6. \A f \in live' : owner[f] \in alive' \cup {dying', NoTacker} \cup assigned
  BY <1>2, <1>4, <1>5 DEF SignalInv
<1>7. alive' \subseteq Tackers /\ existing' \subseteq Signals /\ UNCHANGED <<store, assigned, frames>>
  BY <1>2 DEF SignalInv, TypeOK
<1> QED BY <1>2, <1>3, <1>4, <1>6, <1>7, RemoveKeeps
-----------------------------------------------------------------------------
\* What the steps of an emission do: the functor called is one of the functors.
LEMMA EmitCallKeeps == SignalInv /\ EmitCall => SignalInv'
<1> SUFFICES ASSUME SignalInv, EmitCall PROVE SignalInv'
  OBVIOUS
<1> DEFINE k == Len(frames)  fr == frames[k]  v == functors[fr.sig]
           f == (v.used \o v.rest)[fr.i + 1]
<1>0. frames \in Seq(Frame) /\ frames # <<>> /\ Last(frames) = fr /\ k \in DOMAIN frames
  <2>1. frames \in Seq(Frame) /\ frames # <<>>
    BY DEF SignalInv, TypeOK, EmitCall
  <2> QED BY <2>1 DEF Last
<1>1. PICK stop \in BOOLEAN :
        /\ fr.i < Size(fr)
        /\ frames' = [frames EXCEPT ![k] =
                [fr EXCEPT !.i = fr.i + 1, !.stop = stop, !.done = Append(fr.done, f)]]
  <2>1. /\ fr.i < Size(fr)
        /\ \E stop \in IF fr.sig \in BoolSignals THEN BOOLEAN ELSE {FALSE} :
             frames' = [frames EXCEPT ![k] =
                [fr EXCEPT !.i = @ + 1, !.stop = stop, !.done = Append(@, f)]]
    BY <1>0 DEF EmitCall
  <2>2. (IF fr.sig \in BoolSignals THEN BOOLEAN ELSE {FALSE}) \subseteq BOOLEAN
    OBVIOUS
  <2> HIDE DEF f
  <2> QED BY <2>1, <2>2
<1>2. fr \in Frame /\ v \in Vector /\ fr.sig \in Signals /\ fr.i \in Nat /\ fr.n \in Nat
  <2>1. fr \in Frame
    BY <1>0
  <2>2. fr.sig \in Signals /\ fr.i \in Nat /\ fr.n \in Nat
    BY <2>1 DEF Frame
  <2> QED BY <2>1, <2>2 DEF SignalInv, TypeOK
<1>3. Size(fr) \in Nat /\ Size(fr) <= Extent(v)
  <2>1. /\ Len(v.used) \in Nat /\ Len(v.rest) \in Nat /\ Extent(v) \in Nat
        /\ Len(v.used) <= Extent(v)
    <3>1. Len(v.used) \in Nat /\ Len(v.rest) \in Nat /\ Extent(v) \in Nat
      BY <1>2, VectorFacts
    <3> DEFINE x == Len(v.used)  y == Len(v.rest)
    <3>2. x \in Nat /\ y \in Nat /\ Extent(v) = x + y
      BY <3>1 DEF Extent
    <3> HIDE DEF x, y, v
    <3>3. x <= Extent(v)
      BY <3>2
    <3> QED BY <3>1, <3>3 DEF x
  <2>2. fr.sig \notin BoolSignals => fr.n <= Extent(v)
    BY <1>0 DEF SignalInv, FramesInside
  <2> QED BY <1>2, <2>1, <2>2 DEF Size
<1>4. f \in Functors
  <2> DEFINE u == v.used \o v.rest  j == fr.i + 1
  <2>1. u \in Seq(Functors) /\ Len(u) = Extent(v)
    <3> DEFINE a == v.used  b == v.rest
    <3>1. a \in Seq(Functors) /\ b \in Seq(Functors)
      BY <1>2, VectorFacts
    <3>2. u = a \o b /\ Extent(v) = Len(a) + Len(b)
      BY DEF Extent
    <3> HIDE DEF a, b, u
    <3> QED BY <3>1, <3>2
  <2>2. j \in 1..Extent(v)
    <3>1. Extent(v) \in Nat
      BY <1>2, VectorFacts
    <3> HIDE DEF v
    <3> QED BY <1>1, <1>2, <1>3, <3>1
  <2> HIDE DEF u, j, v
  <2>3. u[j] \in Functors
    BY <2>1, <2>2
  <2> QED BY <2>3 DEF u, j, v
<1> HIDE DEF f
<1>5. /\ frames' \in Seq(Frame) /\ DOMAIN frames' = DOMAIN frames
      /\ \A h \in DOMAIN frames : frames'[h].sig = frames[h].sig /\ frames'[h].n = frames[h].n
  <2> DEFINE j == fr.i + 1  d == Append(fr.done, f)
             new == [fr EXCEPT !.i = j, !.stop = stop, !.done = d]
  <2>0. j \in Nat /\ d \in Seq(Functors)
    <3>1. fr.done \in Seq(Functors)
      BY <1>2 DEF Frame
    <3> QED BY <1>2, <1>4, <3>1
  <2>1. new \in Frame /\ new.sig = fr.sig /\ new.n = fr.n
    <3> HIDE DEF j, d, fr
    <3> QED BY <1>2, <2>0 DEF Frame
  <2>2. frames' = [frames EXCEPT ![k] = new]
    BY <1>1
  <2> HIDE DEF new
  <2> QED BY <1>0, <2>1, <2>2
<1>6. UNCHANGED <<functors, store, live, signals, alive, dying, existing, assigned>>
  BY DEF EmitCall
<1>7. FramesInside'
  BY <1>5, <1>6 DEF FramesInside, SignalInv, Extent
<1> QED BY <1>5, <1>6, <1>7, StoreStays DEF SignalInv, TypeOK

LEMMA EmitReturnKeeps == SignalInv /\ EmitReturn => SignalInv'
<1> SUFFICES ASSUME SignalInv, EmitReturn PROVE SignalInv'
  OBVIOUS
<1>1. frames \in Seq(Frame) /\ frames # <<>> /\ frames' = Front(frames)
  BY DEF EmitReturn, SignalInv, TypeOK
<1>2. /\ frames' \in Seq(Frame)
      /\ \A k \in DOMAIN frames' : k \in DOMAIN frames /\ frames'[k] = frames[k]
  BY <1>1 DEF Front
<1>3. UNCHANGED <<functors, store, live, signals, alive, dying, existing, assigned>>
  BY DEF EmitReturn
<1>4. FramesInside'
  BY <1>2, <1>3 DEF FramesInside, SignalInv, Extent
<1> QED BY <1>2, <1>3, <1>4, StoreStays DEF SignalInv, TypeOK

LEMMA EmitKeeps ==
    ASSUME SignalInv, NEW s \in Signals, Emit(s)
    PROVE  SignalInv'
<1> DEFINE v == functors[s]
           new == [sig |-> s, i |-> 0, n |-> Len(v.used), stop |-> FALSE, done |-> <<>>, at |-> v.used]
<1>1. frames \in Seq(Frame) /\ frames' = Append(frames, new) /\ v \in Vector
  BY DEF Emit, SignalInv, TypeOK
<1>2. Len(v.used) <= Extent(v)
  <2> DEFINE x == Len(v.used)  y == Len(v.rest)
  <2>1. x \in Nat /\ y \in Nat /\ Extent(v) = x + y
    BY <1>1, VectorFacts DEF Extent
  <2> HIDE DEF x, y, v
  <2>2. x <= Extent(v)
    BY <2>1
  <2> QED BY <2>2 DEF x
<1>3. new \in Frame /\ new.sig = s /\ new.n = Len(v.used)
  BY <1>1, VectorFacts DEF Frame
<1> HIDE DEF new
<1>4. /\ frames' \in Seq(Frame)
      /\ \A k \in DOMAIN frames' : (k \in DOMAIN frames /\ frames'[k] = frames[k]) \/ frames'[k] = new
  BY <1>1, <1>3
<1>5. UNCHANGED <<functors, store, live, signals, alive, dying, existing, assigned>>
  BY DEF Emit
<1>6. FramesInside'
  BY <1>2, <1>3, <1>4, <1>5 DEF FramesInside, SignalInv, Extent
<1> QED BY <1>4, <1>5, <1>6, StoreStays DEF SignalInv, TypeOK
-----------------------------------------------------------------------------
LEMMA SignalNext == SignalInv /\ [Next]_vars => SignalInv'
<1> SUFFICES ASSUME SignalInv, [Next]_vars PROVE SignalInv'
  OBVIOUS
<1>0. /\ functors \in [Signals -> Vector] /\ frames \in Seq(Frame) /\ alive \subseteq Tackers
      /\ signals \in [Tackers -> [Signals -> Nat]] /\ existing \subseteq Signals
      /\ assigned \subseteq Tackers /\ dying \in Owners
  BY DEF SignalInv, TypeOK
<1>1. ASSUME NEW s \in Signals, NEW t \in Owners, NEW m \in Slots, Connect(s, t, m)
      PROVE  SignalInv'
  BY <1>1, ConnectKeeps
<1>2. ASSUME NEW s \in Signals, NEW t \in Owners, NEW m \in Slots, DisconnectFunctor(s, t, m)
      PROVE  SignalInv'
  <2>1. Unlink(s, Equal(t, m)) /\ UNCHANGED <<store, alive, dying, existing, frames, assigned>>
    BY <1>2 DEF DisconnectFunctor
  <2> QED BY <1>0, <2>1, UnlinkRemoves, TakeKeeps
<1>3. ASSUME NEW s \in Signals, NEW t \in Tackers, DisconnectTacker(s, t)
      PROVE  SignalInv'
  <2> DEFINE of == {f \in Functors : owner[f] = t}
  <2>1. Unlink(s, of) /\ UNCHANGED <<store, alive, dying, existing, frames, assigned>>
    BY <1>3 DEF DisconnectTacker
  <2> HIDE DEF of
  <2> QED BY <1>0, <2>1, UnlinkRemoves, TakeKeeps
<1>4. ASSUME NEW s \in Signals, DisconnectAll(s)
      PROVE  SignalInv'
  <2>1. Clear(s) /\ UNCHANGED <<store, alive, dying, existing, frames, assigned>>
    BY <1>4 DEF DisconnectAll
  <2> QED BY <1>0, <2>1, ClearRemoves, TakeKeeps
<1>5. ASSUME NEW s \in Signals, DestroySignal(s)
      PROVE  SignalInv'
  <2>1. /\ Clear(s) /\ UNCHANGED <<store, alive, dying, frames, assigned>>
        /\ existing' \subseteq Signals
    BY <1>0, <1>5 DEF DestroySignal
  <2> QED BY <2>1, ClearRemoves, TakeKeeps
<1>6. ASSUME NEW s \in Signals, Emit(s)
      PROVE  SignalInv'
  BY <1>6, EmitKeeps
<1>7. ASSUME NEW t \in Tackers, DestroyTacker(t)
      PROVE  SignalInv'
  <2>1. /\ alive' = alive \ {t} /\ dying' = t /\ dying = NoTacker
        /\ UNCHANGED <<functors, store, live, signals, existing, frames, assigned>>
    BY <1>7 DEF DestroyTacker, MayDo
  <2>2. \A f \in live : owner[f] \in alive' \cup {dying', NoTacker} \cup assigned'
    BY <2>1 DEF SignalInv
  <2>3. FramesInside'
    BY <2>1 DEF FramesInside, SignalInv, Extent
  <2>4. dying' \in Owners /\ alive' \subseteq Tackers
    BY <1>0, <2>1 DEF Owners
  <2> QED BY <1>0, <2>1, <2>2, <2>3, <2>4, StoreStays
<1>8. CASE UntackStep
  BY <1>8, UntackStepKeeps
<1>9. CASE UntackDone
  <2>1. /\ dying # NoTacker /\ Known(signals, dying) = {} /\ dying' = NoTacker
        /\ UNCHANGED <<functors, store, live, signals, alive, existing, frames, assigned>>
    BY <1>9 DEF UntackDone
  <2>2. dying \notin assigned => \A f \in live : owner[f] # dying
    BY <1>0, <2>1, UnknownOwnsNone DEF Owners
  <2>3. \A f \in live : owner[f] \in alive' \cup {dying', NoTacker} \cup assigned'
    BY <2>1, <2>2 DEF SignalInv
  <2>4. FramesInside'
    BY <2>1 DEF FramesInside, SignalInv, Extent
  <2>5. dying' \in Owners
    BY <2>1 DEF Owners
  <2> QED BY <1>0, <2>1, <2>3, <2>4, <2>5, StoreStays
<1>10. ASSUME NEW t \in Tackers, NEW u \in Tackers, Assign(t, u)
       PROVE  SignalInv'
  <2>1. /\ signals' = [signals EXCEPT ![t] = signals[u]] /\ assigned' = assigned \cup {t}
        /\ UNCHANGED <<functors, store, live, alive, dying, existing, frames>>
    BY <1>10 DEF Assign
  <2>2. /\ signals' \in [Tackers -> [Signals -> Nat]]
        /\ \A q \in Tackers \ assigned' : signals'[q] = signals[q]
        /\ assigned \subseteq assigned' /\ assigned' \subseteq Tackers
    BY <1>0, <2>1
  <2>3. \A f \in live : owner[f] \in alive' \cup {dying', NoTacker} \cup assigned'
    BY <2>1 DEF SignalInv
  <2>4. FramesInside'
    BY <2>1 DEF FramesInside, SignalInv, Extent
  <2> QED BY <1>0, <2>1, <2>2, <2>3, <2>4, StoreStays
<1>11. CASE EmitCall
  BY <1>11, EmitCallKeeps
<1>12. CASE EmitReturn
  BY <1>12, EmitReturnKeeps
<1>13. CASE UNCHANGED vars
  <2>1. /\ UNCHANGED <<functors, store, live>> /\ UNCHANGED <<signals, alive, dying>>
        /\ UNCHANGED <<existing, assigned, frames>>
    BY <1>13 DEF vars
  <2>2. FramesInside'
    BY <2>1 DEF FramesInside, SignalInv, Extent
  <2>3. \A f \in live : owner[f] \in alive' \cup {dying', NoTacker} \cup assigned'
    BY <2>1 DEF SignalInv
  <2> QED BY <1>0, <2>1, <2>2, <2>3, StoreStays
<1> QED
  BY <1>1, <1>2, <1>3, <1>4, <1>5, <1>6, <1>7, <1>8, <1>9, <1>10, <1>11, <1>12, <1>13 DEF Next
-----------------------------------------------------------------------------
\* A vector of different functors is no longer than there are functors.
LEMMA FewFunctors ==
    ASSUME NEW v \in Vector, IsInjective(v.used)
    PROVE  Len(v.used) <= MaxFunctors
<1> DEFINE m == Len(v.used)
<1>1. m \in Nat /\ v.used \in [1..m -> Functors]
  BY VectorFacts DEF Vector
<1> HIDE DEF m
<1>2. MaxFunctors \in Nat
  BY SignalsAssumption
<1>3. IsFiniteSet(1..m) /\ Cardinality(1..m) = m
  <2>1. 1 \in Int /\ m \in Int /\ 1 <= m + 1
    BY <1>1
  <2> QED BY <1>1, FS_Interval
<1>4. IsFiniteSet(Functors) /\ Cardinality(Functors) = MaxFunctors
  BY <1>2, FS_Interval DEF Functors
<1>5. v.used \in Injection(1..m, Functors)
  BY <1>1 DEF Injection, IsInjective
<1>6. Cardinality(1..m) <= Cardinality(Functors)
  BY <1>4, <1>5, FS_Injection
<1> QED BY <1>3, <1>4, <1>6 DEF m

\* The places of a functor: one if it is live, and none if it is deleted.
LEMMA PlacesOfFunctors == SignalInv => NoneLeaksNoneDangles
<1> SUFFICES ASSUME SignalInv, NEW f \in 1..allocated
             PROVE  Cardinality({p \in Signals \X Functors :
                        p[2] \in DOMAIN functors[p[1]].used /\ functors[p[1]].used[p[2]] = f})
                    = IF f \in live THEN 1 ELSE 0
  BY DEF NoneLeaksNoneDangles
<1> DEFINE P == {p \in Signals \X Functors :
                   p[2] \in DOMAIN functors[p[1]].used /\ functors[p[1]].used[p[2]] = f}
<1>1. CASE f \in live
  <2>1. PICK s \in Signals : f \in Connected(s)
    BY <1>1 DEF SignalInv
  <2>2. PICK j \in DOMAIN functors[s].used : functors[s].used[j] = f
    BY <2>1 DEF Connected, Range
  <2>3. functors[s] \in Vector /\ IsInjective(functors[s].used)
    BY DEF SignalInv, TypeOK
  <2>4. j \in Functors
    <3>1. Len(functors[s].used) <= MaxFunctors
      BY <2>3, FewFunctors
    <3>2. j \in 1..Len(functors[s].used) /\ Len(functors[s].used) \in Nat
      BY <2>2, <2>3, VectorFacts
    <3> DEFINE m == Len(functors[s].used)
    <3> HIDE DEF m
    <3>3. m <= MaxFunctors /\ j \in 1..m /\ m \in Nat
      BY <3>1, <3>2 DEF m
    <3> QED BY <3>3, SignalsAssumption DEF Functors
  <2>5. ASSUME NEW p \in P PROVE p = <<s, j>>
    <3>1. p \in Signals \X Functors /\ f \in Connected(p[1])
      BY DEF Connected, Range
    <3>2. p[1] = s
      BY <2>1, <3>1 DEF SignalInv
    <3>3. p[2] = j
      BY <2>2, <2>3, <3>2 DEF IsInjective
    <3> QED BY <3>1, <3>2, <3>3
  <2>6. <<s, j>> \in P
    BY <2>2, <2>4
  <2>7. P = {<<s, j>>}
    BY <2>5, <2>6
  <2> QED BY <1>1, <2>7, FS_Singleton
<1>2. CASE f \notin live
  <2>1. \A s \in Signals : f \notin Connected(s)
    BY <1>2 DEF SignalInv
  <2>2. P = {}
    BY <2>1 DEF Connected, Range
  <2> QED BY <1>2, <2>2, FS_EmptySet
<1> QED BY <1>1, <1>2

LEMMA SignalInvAlways == Spec => []SignalInv
<1> QED BY SignalInit, SignalNext, PTL DEF Spec

(* The variables keep their types: in particular nothing but a functor that  *)
(* was created is ever connected, and what an emission reads in a vector,     *)
(* inside or behind its used part, is one.                                    *)
THEOREM SignalsTypeCorrect == Spec => []TypeOK
<1>1. SignalInv => TypeOK
  BY DEF SignalInv
<1> QED BY <1>1, SignalInvAlways, PTL

(* connect, the disconnect functions and the destructors keep each tacker's   *)
(* counts what they claim to be, while emissions of any depth are running and *)
(* for every program of the callbacks: what tacker::~tacker relies on.        *)
THEOREM TackersCountRight == Spec => []CountsAgree
<1>1. SignalInv => CountsAgree
  BY DEF SignalInv, TypeOK, CountsAgree, Owners
<1> QED BY <1>1, SignalInvAlways, PTL

(* Each functor a signal cloned is connected at one place of one signal until *)
(* it is deleted, and nowhere afterwards: unlink deletes exactly the functors *)
(* that the erase and the clear behind it take out.                           *)
THEOREM FunctorsHaveOnePlace == Spec => []NoneLeaksNoneDangles
<1> QED BY PlacesOfFunctors, SignalInvAlways, PTL
-----------------------------------------------------------------------------
(* Emissions.  A plain emission takes the size once; as long as callbacks of   *)
(* plain signals only connect and emit, what it found when it started stays at *)
(* the front of the vector, and what it has called is the front of that.       *)
Steady(fr) ==
    LET used == functors[fr.sig].used
    IN  /\ ~fr.stop /\ fr.n = Len(fr.at) /\ fr.i <= fr.n
        /\ Len(fr.done) = fr.i /\ \A j \in 1..fr.i : fr.done[j] = fr.at[j]
        /\ Len(fr.at) <= Len(used) /\ \A j \in 1..Len(fr.at) : used[j] = fr.at[j]

OnCourse ==
    \A k \in DOMAIN frames :
        frames[k].sig \notin BoolSignals => dying = NoTacker /\ Steady(frames[k])

Harmless == {"connect", "emit"}

LEMMA CourseInit == Init => OnCourse
BY DEF Init, OnCourse

\* No callback of a plain signal does what is not harmless.
LEMMA NoPlainEmission ==
    ASSUME InCallback \subseteq Harmless, NEW op, op \notin Harmless, MayDo(op)
    PROVE  \A k \in DOMAIN frames : frames[k].sig \in BoolSignals
BY DEF MayDo

LEMMA FramesStay ==
    ASSUME OnCourse, UNCHANGED frames,
           \A k \in DOMAIN frames : frames[k].sig \in BoolSignals
    PROVE  OnCourse'
BY DEF OnCourse

LEMMA ConnectOnCourse ==
    ASSUME SignalInv, OnCourse,
           NEW s \in Signals, NEW t \in Owners, NEW m \in Slots, Connect(s, t, m)
    PROVE  OnCourse'
<1> DEFINE f == allocated + 1  v == functors[s]
<1>1. /\ functors' = [functors EXCEPT ![s] = PushBack(v, f)] /\ v \in Vector
      /\ UNCHANGED <<frames, dying>> /\ functors \in [Signals -> Vector]
      /\ allocated \in 0..MaxFunctors /\ allocated < MaxFunctors
  BY DEF Connect, SignalInv, TypeOK
<1>2. f \in Functors
  BY <1>1, SignalsAssumption DEF Functors
<1> DEFINE w == PushBack(v, f)
<1>3. Len(w.used) = Len(v.used) + 1 /\ \A k \in 1..Len(v.used) : w.used[k] = v.used[k]
  BY <1>1, <1>2, PushBackKeeps
<1> HIDE DEF w, f
<1>4. functors'[s] = w /\ \A r \in Signals : r # s => functors'[r] = functors[r]
  BY <1>1 DEF w
<1>5. ASSUME NEW k \in DOMAIN frames, frames[k].sig \notin BoolSignals
      PROVE  Steady(frames[k])'
  <2> DEFINE fr == frames[k]
  <2>1. Steady(fr) /\ fr.sig \in Signals /\ fr' = fr
    BY <1>1, <1>5, FrameSignals DEF OnCourse
  <2>2. CASE fr.sig # s
    <3>1. functors'[fr.sig] = functors[fr.sig]
      BY <1>4, <2>1, <2>2
    <3> QED BY <2>1, <3>1 DEF Steady
  <2>3. CASE fr.sig = s
    <3>1. functors'[fr.sig] = w
      BY <1>4, <2>3
    <3>2. Len(fr.at) \in Nat /\ Len(v.used) \in Nat
      <4>1. frames \in Seq(Frame)
        BY DEF SignalInv, TypeOK
      <4>2. fr \in Frame
        BY <4>1
      <4>3. fr.at \in Seq(Functors)
        BY <4>2 DEF Frame
      <4> QED BY <1>1, <4>3, VectorFacts
    <3> DEFINE x == Len(v.used)  y == Len(fr.at)  z == Len(w.used)
    <3>3. y <= x /\ \A j \in 1..y : v.used[j] = fr.at[j]
      BY <2>1, <2>3 DEF Steady
    <3>4. z = x + 1 /\ \A j \in 1..x : w.used[j] = v.used[j]
      BY <1>3
    <3>5. x \in Nat /\ y \in Nat
      BY <3>2
    <3> HIDE DEF x, y, z, fr, v
    <3>6. y <= z /\ \A j \in 1..y : w.used[j] = fr.at[j]
      BY <3>3, <3>4, <3>5
    <3> QED BY <2>1, <3>1, <3>6 DEF Steady, fr, y, z
  <2> QED BY <2>2, <2>3
<1> QED BY <1>1, <1>5 DEF OnCourse

LEMMA EmitOnCourse ==
    ASSUME SignalInv, OnCourse, NEW s \in Signals, Emit(s)
    PROVE  OnCourse'
<1> DEFINE v == functors[s]
           new == [sig |-> s, i |-> 0, n |-> Len(v.used), stop |-> FALSE, done |-> <<>>, at |-> v.used]
<1>1. /\ frames \in Seq(Frame) /\ frames' = Append(frames, new) /\ v \in Vector
      /\ UNCHANGED <<functors, dying>> /\ dying = NoTacker
  BY DEF Emit, MayDo, SignalInv, TypeOK
<1>2. Steady(new)'
  BY <1>1, VectorFacts DEF Steady
<1> HIDE DEF new
<1>3. \A k \in DOMAIN frames' : (k \in DOMAIN frames /\ frames'[k] = frames[k]) \/ frames'[k] = new
  BY <1>1
<1>4. ASSUME NEW k \in DOMAIN frames', frames'[k].sig \notin BoolSignals
      PROVE  Steady(frames[k])'
  <2>1. CASE k \in DOMAIN frames /\ frames'[k] = frames[k]
    <3>1. Steady(frames[k])
      BY <1>4, <2>1 DEF OnCourse
    <3> QED BY <1>1, <2>1, <3>1 DEF Steady
  <2>2. CASE frames'[k] = new
    BY <1>1, <1>2, <2>2 DEF Steady, new
  <2> QED BY <1>3, <2>1, <2>2
<1> QED BY <1>1, <1>4 DEF OnCourse
-----------------------------------------------------------------------------
\* The call an emission makes: to the functor at its place in the vector, if
\* the vector reaches that far.
LEMMA CallMade ==
    ASSUME SignalInv, EmitCall
    PROVE  LET k == Len(frames)  fr == frames[k]  used == functors[fr.sig].used
           IN  /\ k \in DOMAIN frames /\ fr \in Frame /\ fr.i < Size(fr)
               /\ Last(frames) = fr /\ dying = NoTacker
               /\ UNCHANGED <<functors, store, live, signals, alive, dying, existing, assigned>>
               /\ \E f, stop :
                    /\ fr.i + 1 <= Len(used) => f = used[fr.i + 1]
                    /\ fr.sig \notin BoolSignals => ~stop
                    /\ frames' = [frames EXCEPT ![k] =
                         [fr EXCEPT !.i = fr.i + 1, !.stop = stop, !.done = Append(fr.done, f)]]
<1> DEFINE k == Len(frames)  fr == frames[k]  v == functors[fr.sig]
           f == (v.used \o v.rest)[fr.i + 1]
<1>1. /\ k \in DOMAIN frames /\ fr \in Frame /\ Last(frames) = fr /\ frames \in Seq(Frame)
  <2>1. frames \in Seq(Frame) /\ frames # <<>>
    BY DEF SignalInv, TypeOK, EmitCall
  <2>2. k \in DOMAIN frames /\ Last(frames) = fr
    BY <2>1 DEF Last
  <2> QED BY <2>1, <2>2
<1>2. /\ fr.i < Size(fr) /\ dying = NoTacker
      /\ UNCHANGED <<functors, store, live, signals, alive, dying, existing, assigned>>
      /\ \E stop \in IF fr.sig \in BoolSignals THEN BOOLEAN ELSE {FALSE} :
           frames' = [frames EXCEPT ![k] =
              [fr EXCEPT !.i = fr.i + 1, !.stop = stop, !.done = Append(fr.done, f)]]
  BY <1>1 DEF EmitCall
<1>3. fr.sig \in Signals /\ fr.i \in Nat /\ v \in Vector
  <2>1. fr.sig \in Signals /\ fr.i \in Nat
    BY <1>1 DEF Frame
  <2> QED BY <2>1 DEF SignalInv, TypeOK
<1>4. fr.i + 1 <= Len(v.used) => f = v.used[fr.i + 1]
  <2> DEFINE a == v.used  b == v.rest  j == fr.i + 1
  <2>1. a \in Seq(Functors) /\ b \in Seq(Functors) /\ j \in Nat /\ j >= 1
    BY <1>3, VectorFacts
  <2>2. f = (a \o b)[j]
    OBVIOUS
  <2> HIDE DEF a, b, j, f
  <2>3. j <= Len(a) => f = a[j]
    BY <2>1, <2>2
  <2> QED BY <2>3 DEF a, j
<1>5. PICK stop \in IF fr.sig \in BoolSignals THEN BOOLEAN ELSE {FALSE} :
        frames' = [frames EXCEPT ![k] =
              [fr EXCEPT !.i = fr.i + 1, !.stop = stop, !.done = Append(fr.done, f)]]
  BY <1>2
<1>6. fr.sig \notin BoolSignals => ~stop
  BY <1>5
<1> HIDE DEF f
<1> QED BY <1>1, <1>2, <1>4, <1>5, <1>6

LEMMA EmitCallOnCourse ==
    ASSUME SignalInv, OnCourse, EmitCall
    PROVE  OnCourse'
<1> DEFINE k == Len(frames)  fr == frames[k]  used == functors[fr.sig].used
<1>1. /\ k \in DOMAIN frames /\ fr \in Frame /\ fr.i < Size(fr)
      /\ UNCHANGED <<functors, dying>>
  BY CallMade
<1>2. PICK f, stop :
        /\ fr.i + 1 <= Len(used) => f = used[fr.i + 1]
        /\ fr.sig \notin BoolSignals => ~stop
        /\ frames' = [frames EXCEPT ![k] =
             [fr EXCEPT !.i = fr.i + 1, !.stop = stop, !.done = Append(fr.done, f)]]
  BY CallMade
<1> DEFINE i == fr.i + 1  done == Append(fr.done, f)
           new == [fr EXCEPT !.i = i, !.stop = stop, !.done = done]
<1>3. /\ new.sig = fr.sig /\ new.n = fr.n /\ new.at = fr.at
      /\ new.i = i /\ new.stop = stop /\ new.done = done
  <2> HIDE DEF i, done, fr
  <2> QED BY <1>1 DEF Frame
<1>4. /\ frames \in Seq(Frame) /\ DOMAIN frames' = DOMAIN frames /\ frames'[k] = new
      /\ \A h \in DOMAIN frames : h # k => frames'[h] = frames[h]
  <2>1. frames \in Seq(Frame)
    BY DEF SignalInv, TypeOK
  <2> HIDE DEF new
  <2> QED BY <1>1, <1>2, <2>1 DEF new
<1>5. ASSUME fr.sig \notin BoolSignals PROVE Steady(new)
  <2>1. Steady(fr) /\ Size(fr) = fr.n
    BY <1>1, <1>5 DEF OnCourse, Size
  <2>2. /\ fr.i \in Nat /\ fr.n \in Nat /\ fr.done \in Seq(Functors) /\ fr.at \in Seq(Functors)
    BY <1>1 DEF Frame
  <2> DEFINE d == fr.done  a == fr.at  o == fr.i  m == Len(used)  l == Len(a)
  <2>3. /\ fr.n = l /\ o < l /\ Len(d) = o /\ \A j \in 1..o : d[j] = a[j]
        /\ l <= m /\ \A j \in 1..l : used[j] = a[j]
    BY <1>1, <2>1 DEF Steady
  <2>4. o \in Nat /\ l \in Nat /\ m \in Nat /\ d \in Seq(Functors) /\ (i <= m => f = used[i])
    <3>1. used \in Seq(Functors)
      BY <1>1, VectorFacts DEF Frame, SignalInv, TypeOK
    <3> QED BY <1>2, <2>2, <3>1
  <2>5. i = o + 1 /\ done = Append(d, f)
    OBVIOUS
  <2> HIDE DEF d, a, o, m, l, i, done, fr, used
  <2>6. i <= l /\ i <= m /\ i \in 1..l /\ f = a[i]
    BY <2>3, <2>4, <2>5
  <2>7. Len(done) = i /\ \A j \in 1..i : done[j] = a[j]
    <3>1. Len(done) = i /\ done[i] = f /\ \A j \in 1..o : done[j] = d[j]
      <4>1. \A j \in 1..Len(d) : Append(d, f)[j] = d[j]
        BY <2>4
      <4>2. Len(Append(d, f)) = Len(d) + 1 /\ Append(d, f)[Len(d) + 1] = f
        BY <2>4
      <4> QED BY <2>3, <2>5, <4>1, <4>2
    <3> QED BY <2>3, <2>4, <2>5, <2>6, <3>1
  <2>8. /\ functors[new.sig].used = used /\ ~new.stop /\ new.n = l /\ new.at = a
        /\ new.i = i /\ new.done = done
    BY <1>1, <1>2, <1>3, <1>5, <2>3 DEF a, used
  <2> HIDE DEF new
  <2> QED BY <2>3, <2>6, <2>7, <2>8 DEF Steady, l, m
<1> HIDE DEF new
<1>6. ASSUME NEW h \in DOMAIN frames', frames'[h].sig \notin BoolSignals
      PROVE  dying' = NoTacker /\ Steady(frames[h])'
  <2>1. dying' = NoTacker
    BY <1>1, CallMade
  <2>2. CASE h = k
    <3>1. Steady(new) /\ frames'[h] = new /\ functors' = functors
      BY <1>1, <1>3, <1>4, <1>5, <1>6, <2>2
    <3> QED BY <2>1, <3>1 DEF Steady
  <2>3. CASE h # k
    BY <1>1, <1>4, <1>6, <2>1, <2>3 DEF Steady, OnCourse
  <2> QED BY <2>2, <2>3
<1> QED BY <1>6 DEF OnCourse

LEMMA EmitReturnOnCourse ==
    ASSUME SignalInv, OnCourse, EmitReturn
    PROVE  OnCourse'
<1>1. frames \in Seq(Frame) /\ frames # <<>> /\ frames' = Front(frames)
  BY DEF EmitReturn, SignalInv, TypeOK
<1>2. \A k \in DOMAIN frames' : k \in DOMAIN frames /\ frames'[k] = frames[k]
  BY <1>1 DEF Front
<1>3. UNCHANGED <<functors, dying>>
  BY DEF EmitReturn
<1> QED BY <1>2, <1>3 DEF OnCourse, Steady

LEMMA CourseNext ==
    ASSUME InCallback \subseteq Harmless, SignalInv, OnCourse, [Next]_vars
    PROVE  OnCourse'
<1>1. ASSUME NEW s \in Signals, NEW t \in Owners, NEW m \in Slots, Connect(s, t, m)
      PROVE  OnCourse'
  BY <1>1, ConnectOnCourse
<1>2. ASSUME MayDo("disconnect"), UNCHANGED frames
      PROVE  OnCourse'
  <2>1. "disconnect" \notin Harmless
    BY DEF Harmless
  <2>2. \A k \in DOMAIN frames : frames[k].sig \in BoolSignals
    BY <1>2, <2>1, NoPlainEmission
  <2> QED BY <1>2, <2>2, FramesStay
<1>3. ASSUME NEW s \in Signals, NEW t \in Owners, NEW m \in Slots, DisconnectFunctor(s, t, m)
      PROVE  OnCourse'
  BY <1>2, <1>3 DEF DisconnectFunctor
<1>4. ASSUME NEW s \in Signals, NEW t \in Tackers, DisconnectTacker(s, t)
      PROVE  OnCourse'
  BY <1>2, <1>4 DEF DisconnectTacker
<1>5. ASSUME NEW s \in Signals, DisconnectAll(s)
      PROVE  OnCourse'
  BY <1>2, <1>5 DEF DisconnectAll
<1>6. ASSUME MayDo("destroy"), UNCHANGED frames
      PROVE  OnCourse'
  <2>1. "destroy" \notin Harmless
    BY DEF Harmless
  <2>2. \A k \in DOMAIN frames : frames[k].sig \in BoolSignals
    BY <1>6, <2>1, NoPlainEmission
  <2> QED BY <1>6, <2>2, FramesStay
<1>7. ASSUME NEW s \in Signals, DestroySignal(s)
      PROVE  OnCourse'
  BY <1>6, <1>7 DEF DestroySignal
<1>8. ASSUME NEW t \in Tackers, DestroyTacker(t)
      PROVE  OnCourse'
  BY <1>6, <1>8 DEF DestroyTacker
<1>9. ASSUME NEW s \in Signals, Emit(s)
      PROVE  OnCourse'
  BY <1>9, EmitOnCourse
<1>10. CASE UntackStep \/ UntackDone
  <2>1. dying # NoTacker /\ UNCHANGED frames
    BY <1>10 DEF UntackStep, UntackDone
  <2>2. \A k \in DOMAIN frames : frames[k].sig \in BoolSignals
    BY <2>1 DEF OnCourse
  <2> QED BY <2>1, <2>2, FramesStay
<1>11. ASSUME NEW t \in Tackers, NEW u \in Tackers, Assign(t, u)
       PROVE  OnCourse'
  BY <1>11 DEF Assign, OnCourse
<1>12. CASE EmitCall
  BY <1>12, EmitCallOnCourse
<1>13. CASE EmitReturn
  BY <1>13, EmitReturnOnCourse
<1>14. CASE UNCHANGED vars
  BY <1>14 DEF vars, OnCourse, Steady
<1> QED
  BY <1>1, <1>3, <1>4, <1>5, <1>7, <1>8, <1>9, <1>10, <1>11, <1>12, <1>13, <1>14 DEF Next

\* What a step does to the emissions: it starts one, makes a call in the
\* innermost, returns from it, or lets them be.
LEMMA FramesStep ==
    ASSUME SignalInv, [Next]_vars
    PROVE  \/ EmitCall \/ EmitReturn
           \/ /\ Len(frames) <= Len(frames')
              /\ \A k \in DOMAIN frames : frames'[k] = frames[k]
<1>1. frames \in Seq(Frame) /\ frames' \in Seq(Frame)
  <2>1. SignalInv'
    BY SignalNext
  <2> QED BY <2>1 DEF SignalInv, TypeOK
<1>2. ASSUME NEW s \in Signals, Emit(s)
      PROVE  Len(frames) <= Len(frames') /\ \A k \in DOMAIN frames : frames'[k] = frames[k]
  <2>1. \E new : frames' = Append(frames, new)
    BY <1>2 DEF Emit
  <2> QED BY <1>1, <2>1
<1>3. CASE UNCHANGED frames
  BY <1>1, <1>3
<1>4. EmitCall \/ EmitReturn \/ UNCHANGED frames \/ \E s \in Signals : Emit(s)
  BY DEF Next, vars, Connect, DisconnectFunctor, DisconnectAll, DestroySignal,
         DisconnectTacker, DestroyTacker, Assign, UntackStep, UntackDone
<1> QED BY <1>2, <1>3, <1>4

\* What is called is connected, and belongs to a tacker that is there.
LEMMA CallsConnected ==
    SignalInv /\ OnCourse /\ [Next]_vars =>
        \A k \in DOMAIN frames :
            k \in DOMAIN frames' /\ frames'[k].done # frames[k].done =>
                LET f == Last(frames'[k].done)
                IN  f \in live /\ owner[f] \in alive \cup {NoTacker} \cup assigned
<1> SUFFICES ASSUME SignalInv, OnCourse, [Next]_vars, NEW h \in DOMAIN frames,
                    h \in DOMAIN frames', frames'[h].done # frames[h].done
             PROVE  LET f == Last(frames'[h].done)
                    IN  f \in live /\ owner[f] \in alive \cup {NoTacker} \cup assigned
  OBVIOUS
<1>1. CASE EmitCall
  <2> DEFINE k == Len(frames)  fr == frames[k]  used == functors[fr.sig].used
  <2>1. /\ k \in DOMAIN frames /\ fr \in Frame /\ fr.i < Size(fr) /\ dying = NoTacker
    BY <1>1, CallMade
  <2>2. PICK f, stop :
          /\ fr.i + 1 <= Len(used) => f = used[fr.i + 1]
          /\ frames' = [frames EXCEPT ![k] =
               [fr EXCEPT !.i = fr.i + 1, !.stop = stop, !.done = Append(fr.done, f)]]
    BY <1>1, CallMade
  <2>3. /\ fr.i \in Nat /\ fr.n \in Nat /\ fr.done \in Seq(Functors) /\ fr.sig \in Signals
        /\ fr.at \in Seq(Functors)
    BY <2>1 DEF Frame
  <2>4. used \in Seq(Functors) /\ Connected(fr.sig) = Range(used)
    BY <2>3, VectorFacts DEF SignalInv, TypeOK, Connected
  <2>5. fr.i + 1 <= Len(used)
    <3>1. CASE fr.sig \in BoolSignals
      BY <2>1, <2>3, <2>4, <3>1 DEF Size
    <3>2. CASE fr.sig \notin BoolSignals
      <4>1. fr.n = Len(fr.at) /\ Len(fr.at) <= Len(used) /\ fr.i < fr.n
        BY <2>1, <3>2 DEF OnCourse, Steady, Size
      <4>2. Len(used) \in Nat /\ Len(fr.at) \in Nat
        BY <2>3, <2>4
      <4> DEFINE x == Len(used)  y == Len(fr.at)  i == fr.i
      <4>3. y <= x /\ i < y /\ x \in Nat /\ y \in Nat /\ i \in Nat
        BY <2>3, <4>1, <4>2
      <4> HIDE DEF x, y, i
      <4>4. i + 1 <= x
        BY <4>3
      <4> QED BY <4>4 DEF i, x
    <3> QED BY <3>1, <3>2
  <2>6. f \in Connected(fr.sig)
    <3> DEFINE i == fr.i + 1
    <3>1. i \in 1..Len(used) /\ f = used[i]
      <4>1. Len(used) \in Nat
        BY <2>4
      <4> HIDE DEF used, fr
      <4> QED BY <2>2, <2>3, <2>5, <4>1
    <3> HIDE DEF i, used
    <3> QED BY <2>4, <3>1 DEF Range
  <2>7. f \in live /\ owner[f] \in alive \cup {NoTacker} \cup assigned
    BY <2>1, <2>3, <2>6 DEF SignalInv
  <2>8. frames'[h].done = Append(fr.done, f)
    <3> DEFINE i == fr.i + 1  done == Append(fr.done, f)
               new == [fr EXCEPT !.i = i, !.stop = stop, !.done = done]
    <3>1. new.done = done
      <4> HIDE DEF i, done, fr
      <4> QED BY <2>1 DEF Frame
    <3>2. frames' = [frames EXCEPT ![k] = new]
      BY <2>2
    <3> HIDE DEF new
    <3>3. h = k /\ frames'[h] = new
      BY <3>2
    <3> QED BY <3>1, <3>3
  <2>9. Last(frames'[h].done) = f
    <3> DEFINE d == fr.done
    <3>1. d \in Seq(Functors)
      BY <2>3
    <3> HIDE DEF d
    <3>2. Last(Append(d, f)) = f
      BY <3>1 DEF Last
    <3> QED BY <2>8, <3>2 DEF d
  <2> QED BY <2>7, <2>9
<1>2. CASE EmitReturn
  <2>1. frames \in Seq(Frame) /\ frames # <<>> /\ frames' = Front(frames)
    BY <1>2 DEF EmitReturn, SignalInv, TypeOK
  <2>2. frames'[h] = frames[h]
    BY <2>1 DEF Front
  <2> QED BY <2>2
<1> QED BY <1>1, <1>2, FramesStep

\* A plain emission that returns has called what it found.
LEMMA CallsAll ==
    SignalInv /\ OnCourse /\ [Next]_vars =>
        (Len(frames') < Len(frames) /\ Last(frames).sig \notin BoolSignals =>
            Last(frames).done = Last(frames).at)
<1> SUFFICES ASSUME SignalInv, OnCourse, [Next]_vars, Len(frames') < Len(frames),
                    Last(frames).sig \notin BoolSignals
             PROVE  Last(frames).done = Last(frames).at
  OBVIOUS
<1> DEFINE fr == Last(frames)
<1>1. frames \in Seq(Frame)
  BY DEF SignalInv, TypeOK
<1>2. EmitReturn
  <2>1. ~(Len(frames) <= Len(frames'))
    <3>1. SignalInv'
      BY SignalNext
    <3>2. Len(frames) \in Nat /\ Len(frames') \in Nat
      BY <1>1, <3>1 DEF SignalInv, TypeOK
    <3> QED BY <3>2
  <2>2. ASSUME EmitCall PROVE FALSE
    <3>1. \E new : frames' = [frames EXCEPT ![Len(frames)] = new]
      BY <2>2, CallMade
    <3> QED BY <1>1, <2>1, <3>1
  <2> QED BY <2>1, <2>2, FramesStep
<1>3. Len(frames) \in DOMAIN frames /\ fr = frames[Len(frames)]
  BY <1>1, <1>2 DEF EmitReturn, Last
<1>4. Steady(fr) /\ fr \in Frame
  BY <1>1, <1>3 DEF OnCourse
<1>5. fr.i >= fr.n
  BY <1>2, <1>4 DEF EmitReturn, Steady, Size
<1>6. /\ fr.i \in Nat /\ fr.n \in Nat /\ fr.done \in Seq(Functors) /\ fr.at \in Seq(Functors)
  BY <1>4 DEF Frame
<1>7. Len(fr.done) = Len(fr.at) /\ \A j \in 1..Len(fr.done) : fr.done[j] = fr.at[j]
  BY <1>4, <1>5, <1>6 DEF Steady
<1> HIDE DEF fr
<1>8. fr.done = fr.at
  <2> DEFINE d == fr.done  a == fr.at
  <2>1. d \in Seq(Functors) /\ a \in Seq(Functors) /\ Len(d) = Len(a)
        /\ \A j \in 1..Len(d) : d[j] = a[j]
    BY <1>6, <1>7
  <2> HIDE DEF d, a
  <2>2. d = a
    BY <2>1
  <2> QED BY <2>2 DEF d, a
<1> QED BY <1>8 DEF fr
-----------------------------------------------------------------------------
LEMMA CourseAlways ==
    ASSUME InCallback \subseteq Harmless
    PROVE  Spec => []OnCourse
<1>1. SignalInv /\ OnCourse /\ [Next]_vars => OnCourse'
  BY CourseNext
<1> QED BY <1>1, CourseInit, SignalInvAlways, PTL DEF Spec

(* While the callbacks of plain signals neither disconnect nor destroy, no    *)
(* emission calls a functor that has been deleted or whose tacker is gone,    *)
(* whatever they connect and emit and whatever those of a bool_signal do.     *)
(* The hypothesis is needed: a plain signal goes on to the size it has read,  *)
(* as a run with a callback that destroys shows.                              *)
THEOREM EmissionsCallConnected ==
    ASSUME InCallback \subseteq {"connect", "emit"}
    PROVE  Spec => CallsOnlyConnected
<1>1. InCallback \subseteq Harmless
  BY DEF Harmless
<1>2. Spec => []OnCourse
  BY <1>1, CourseAlways
<1> QED BY <1>2, CallsConnected, SignalInvAlways, PTL DEF Spec, CallsOnlyConnected

(* Under the same hypothesis a plain emission calls the functors it found,    *)
(* in their order and once each, although connect moves on in the vector.     *)
THEOREM EmissionsCallEachOnce ==
    ASSUME InCallback \subseteq {"connect", "emit"}
    PROVE  Spec => CallsEachOnce
<1>1. InCallback \subseteq Harmless
  BY DEF Harmless
<1>2. Spec => []OnCourse
  BY <1>1, CourseAlways
<1> QED BY <1>2, CallsAll, SignalInvAlways, PTL DEF Spec, CallsEachOnce
=============================================================================
