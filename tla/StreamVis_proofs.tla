--------------------------- MODULE StreamVis_proofs ---------------------------
(* What a frame shows, for rings of any size and any number of packets.       *)
EXTENDS StreamVis, FiniteSetTheorems, TLAPS
-----------------------------------------------------------------------------
(* Slots of a ring.                                                           *)

LEMMA Division ==
  ASSUME NEW a \in Nat, NEW n \in Nat \ {0}
  PROVE  /\ a = (n * (a \div n)) + (a % n)
         /\ a \div n \in Nat /\ a % n \in 0 .. n - 1
  BY SMT

LEMMA Multiples ==
  ASSUME NEW p \in Int, NEW q \in Int, NEW n \in Nat \ {0}
  PROVE  /\ n * p \in Int /\ n * q \in Int
         /\ n * p = n * q \/ n * p >= (n * q) + n \/ n * q >= (n * p) + n
<1>1. ASSUME NEW x \in Int, NEW y \in Int, x > y PROVE n * x >= (n * y) + n
  BY <1>1, SMT
<1>2. CASE p = q
  BY <1>2
<1>3. CASE p > q
  BY <1>1, <1>3
<1>4. CASE q > p
  BY <1>1, <1>4
<1> QED BY <1>2, <1>3, <1>4

\* The only number congruent to a below n is its remainder.
LEMMA Remainder ==
  ASSUME NEW a \in Nat, NEW n \in Nat \ {0}, NEW q \in Int, NEW r \in 0 .. n - 1,
         a = (n * q) + r
  PROVE  a % n = r
<1> DEFINE p == a \div n  P == n * p  Q == n * q
<1>1. a = P + (a % n) /\ p \in Nat /\ a % n \in 0 .. n - 1
  BY Division
<1>2. P \in Int /\ Q \in Int /\ (P = Q \/ P >= Q + n \/ Q >= P + n)
  BY <1>1, Multiples
<1>3. a = Q + r
  OBVIOUS
<1> HIDE DEF P, Q
<1> QED BY <1>1, <1>2, <1>3

\* Samples less than a ring apart have different slots,
LEMMA DifferentSlots ==
  ASSUME NEW a \in Nat, NEW b \in Nat, NEW n \in Nat \ {0}, a < b, b < a + n
  PROVE  a % n # b % n
<1> DEFINE p == a \div n  q == b \div n  P == n * p  Q == n * q
<1>1. a = P + (a % n) /\ p \in Nat /\ a % n \in 0 .. n - 1
  BY Division
<1>2. b = Q + (b % n) /\ q \in Nat /\ b % n \in 0 .. n - 1
  BY Division
<1>3. P \in Int /\ Q \in Int /\ (P = Q \/ P >= Q + n \/ Q >= P + n)
  BY <1>1, <1>2, Multiples
<1> HIDE DEF P, Q
<1> QED BY <1>1, <1>2, <1>3

\* and going on by less than a ring from a slot passes the end at most once.
LEMMA NextSlots ==
  ASSUME NEW a \in Nat, NEW k \in Nat, NEW n \in Nat \ {0}, k <= n
  PROVE  (a + k) % n = IF (a % n) + k < n THEN (a % n) + k ELSE (a % n) + k - n
<1> DEFINE q == a \div n  r == a % n
<1>1. a = (n * q) + r /\ q \in Nat /\ r \in 0 .. n - 1
  BY Division
<1> HIDE DEF q, r
<1>2. CASE r + k < n
  <2>1. r + k \in 0 .. n - 1 /\ a + k \in Nat /\ a + k = (n * q) + (r + k)
    BY <1>1, <1>2, Multiples
  <2> QED BY <2>1, <1>1, <1>2, Remainder DEF r
<1>3. CASE ~(r + k < n)
  <2>1. n * (q + 1) = (n * q) + n /\ n * q \in Int
    BY <1>1
  <2>2. r + k - n \in 0 .. n - 1 /\ a + k \in Nat /\ q + 1 \in Int
    BY <1>1, <1>3
  <2>3. a + k = (n * (q + 1)) + (r + k - n)
    BY <1>1, <2>1
  <2>4. (a + k) % n = r + k - n
    BY <2>2, <2>3, Remainder
  <2> QED BY <2>4, <1>3 DEF r
<1> QED BY <1>2, <1>3
-----------------------------------------------------------------------------
(* The inductive invariant.                                                   *)

\* The samples below this one are in the storage buffer.
Processed(s) ==
  IF ~Copying(s) THEN drawn[s] ELSE IF step = "upload" THEN drawn[s] + count ELSE index

\* The ring buffer of a series holds its last samples.
CacheHolds ==
  \A s \in Series, si \in Nat :
    si < NrSamples(s) /\ si + RingSize >= NrSamples(s) =>
      cache[s][si % RingSize] = appended[s][si + 1]

\* The storage buffer holds the last samples of those that were processed, unless
\* the ring has been filled up to them since.
StorageHolds ==
  \A s \in Series, si \in Nat :
    si < Processed(s) /\ si + RingSize >= Processed(s) =>
      \/ storage[s][si % RingSize] = appended[s][si + 1]
      \/ NrSamples(s) >= si + RingSize

\* The vertex buffer differs from it in the slots processed in this frame only.
VboHolds ==
  \A s \in Series, c \in Slots :
    \/ vbo[s][c] = storage[s][c]
    \/ Copying(s) /\ \E si \in drawn[s] .. Processed(s) - 1 : si % RingSize = c

\* The drawn part starts at the first slot until the ring is full.
RangeHolds ==
  /\ first = 0 \/ Complete > RingSize
  /\ step = "draw" => IF Complete <= RingSize THEN last = Complete /\ first = 0
                      ELSE first = Complete % RingSize /\ last = Complete % RingSize

StreamInv == TypeOK /\ CacheHolds /\ StorageHolds /\ VboHolds /\ RangeHolds
-----------------------------------------------------------------------------
LEMMA InitEstablishes == Init => StreamInv
<1> SUFFICES ASSUME Init PROVE StreamInv
  OBVIOUS
<1> USE StreamAssumption DEF Init, Series, Slots
<1>1. NoSample \in Samples
  BY DEF NoSample, Samples
<1>2. \A s \in Series : NrSamples(s) = 0 /\ drawn[s] = 0 /\ ~Copying(s) /\ Processed(s) = 0
  BY DEF NrSamples, Copying, Processed
<1>3. TypeOK
  BY <1>1, <1>2 DEF TypeOK, Packets
<1>4. CacheHolds /\ StorageHolds /\ VboHolds /\ RangeHolds
  BY <1>2 DEF CacheHolds, StorageHolds, VboHolds, RangeHolds
<1> QED BY <1>3, <1>4 DEF StreamInv

LEMMA IncomingIsSample ==
  ASSUME TypeOK, NEW s \in Series
  PROVE  Incoming(s) \in Samples
<1>1. NrSamples(s) + 1 \in Nat /\ Now \in Nat /\ cached \in Nat
  BY DEF TypeOK, NrSamples, Now
<1>2. Resampled \in Nat
  BY <1>1 DEF Resampled
<1>3. Stored(Resampled) \in Nat
  BY <1>2 DEF Stored
<1> QED BY <1>1, <1>3 DEF Incoming, Samples

\* A step of the receiving thread only appends to a series, if it does that.
LEMMA SenderStep ==
  ASSUME TypeOK, Next, ~Frame
  PROVE  /\ UNCHANGED frame
         /\ \/ UNCHANGED <<appended, cache>>
            \/ \E s \in Series : AppendTo(s) /\ Incoming(s) \in Samples
<1>1. \A p \in Packets : Receive(p) => UNCHANGED <<appended, cache, frame>>
  BY DEF Receive
<1>2. CacheValue \/ Resample => UNCHANGED <<appended, cache, frame>>
  BY DEF CacheValue, Resample
<1>3. \A s \in Series : Incoming(s) \in Samples
  BY IncomingIsSample
<1>4. AppendSampled => AppendTo("sampled") /\ UNCHANGED frame
  BY DEF AppendSampled
<1>5. AppendResampled => AppendTo("resampled") /\ UNCHANGED frame
  BY DEF AppendResampled
<1> QED BY <1>1, <1>2, <1>3, <1>4, <1>5 DEF Next, Series

\* What appending does.
LEMMA Appending ==
  ASSUME TypeOK, NEW s \in Series, AppendTo(s), Incoming(s) \in Samples
  PROVE  /\ appended' \in [Series -> Seq(Samples)]
         /\ cache' \in [Series -> [Slots -> Samples]]
         /\ NrSamples(s) \in Nat /\ NrSamples(s)' = NrSamples(s) + 1
         /\ appended'[s][NrSamples(s) + 1] = Incoming(s)
         /\ \A si \in Nat : si < NrSamples(s) => appended'[s][si + 1] = appended[s][si + 1]
         /\ \A t \in Series \ {s} : appended'[t] = appended[t] /\ cache'[t] = cache[t]
                                     /\ NrSamples(t)' = NrSamples(t)
         /\ NrSamples(s) % RingSize \in Slots
         /\ \A c \in Slots : cache'[s][c] =
              IF c = NrSamples(s) % RingSize THEN Incoming(s) ELSE cache[s][c]
<1>1. appended[s] \in Seq(Samples) /\ Len(appended[s]) \in Nat
  BY DEF TypeOK
<1>2. appended' = [appended EXCEPT ![s] = Append(appended[s], Incoming(s))]
  BY DEF AppendTo
<1>3. appended'[s] = Append(appended[s], Incoming(s)) /\ appended' \in [Series -> Seq(Samples)]
  BY <1>1, <1>2 DEF TypeOK
<1>4. NrSamples(s) % RingSize \in Slots
  BY <1>1, StreamAssumption, Division DEF NrSamples, Slots
<1>5. /\ cache' \in [Series -> [Slots -> Samples]]
      /\ \A c \in Slots : cache'[s][c] =
              IF c = NrSamples(s) % RingSize THEN Incoming(s) ELSE cache[s][c]
  BY <1>4 DEF AppendTo, TypeOK
<1>6. \A t \in Series \ {s} : appended'[t] = appended[t] /\ cache'[t] = cache[t]
  BY DEF AppendTo, TypeOK
<1>7. NrSamples(s)' = NrSamples(s) + 1 /\ appended'[s][NrSamples(s) + 1] = Incoming(s)
  BY <1>1, <1>3 DEF NrSamples
<1>8. \A si \in Nat : si < NrSamples(s) => appended'[s][si + 1] = appended[s][si + 1]
  BY <1>1, <1>3 DEF NrSamples
<1> QED BY <1>1, <1>3, <1>4, <1>5, <1>6, <1>7, <1>8 DEF NrSamples

LEMMA SenderGrows ==
  ASSUME TypeOK, Next, ~Frame
  PROVE  /\ appended' \in [Series -> Seq(Samples)] /\ cache' \in [Series -> [Slots -> Samples]]
         /\ \A s \in Series :
              /\ NrSamples(s) \in Nat /\ NrSamples(s)' \in Nat
              /\ NrSamples(s) <= NrSamples(s)'
              /\ \A si \in Nat : si < NrSamples(s) => appended'[s][si + 1] = appended[s][si + 1]
<1>1. \A s \in Series : NrSamples(s) \in Nat
  BY DEF TypeOK, NrSamples
<1>2. CASE UNCHANGED <<appended, cache>>
  BY <1>1, <1>2 DEF TypeOK, NrSamples
<1>3. CASE \E s \in Series : AppendTo(s) /\ Incoming(s) \in Samples
  <2> PICK s \in Series : AppendTo(s) /\ Incoming(s) \in Samples
    BY <1>3
  <2> QED BY <1>1, Appending
<1> QED BY <1>2, <1>3, SenderStep

LEMMA SenderKeepsType ==
  ASSUME TypeOK, Next, ~Frame
  PROVE  TypeOK'
<1>1. UNCHANGED frame
  BY SenderStep
<1>2. packets' \in Seq(Packets) /\ cached' \in Nat
      /\ is_bool' \in BOOLEAN /\ offset' \in {"unset", "number", "nan"}
      /\ sending' \in {"idle", "resampled"} \cup {Writing[s] : s \in Series}
  <2> USE DEF TypeOK
  <2>1. {Writing[s] : s \in Series} = {"write sampled", "write resampled"}
    BY DEF Writing, Series
  <2>2. Now \in Nat
    BY DEF Now
  <2>3. ASSUME NEW p \in Packets, Receive(p) PROVE  <1>2
    <3>1. packets' = Append(packets, p) /\ UNCHANGED <<is_bool, offset, cached>>
      BY <2>3 DEF Receive
    <3> HIDE DEF TypeOK
    <3>3. packets \in Seq(Packets) /\ cached \in Nat
          /\ is_bool \in BOOLEAN /\ offset \in {"unset", "number", "nan"}
      BY DEF TypeOK
    <3>4. packets' \in Seq(Packets)
      BY <3>1, <3>3
    <3>2. sending' \in {"idle", "resampled"} \cup {Writing[s] : s \in Series}
      BY <2>1, <2>3 DEF Receive
    <3> QED BY <3>1, <3>2, <3>3, <3>4
  <2>4. CASE CacheValue
    BY <2>1, <2>2, <2>4 DEF CacheValue
  <2>5. CASE Resample
    BY <2>1, <2>5 DEF Resample
  <2>6. CASE AppendSampled
    BY <2>1, <2>6 DEF AppendSampled
  <2>7. CASE AppendResampled
    BY <2>1, <2>7 DEF AppendResampled, OffsetFor
  <2> QED BY <2>3, <2>4, <2>5, <2>6, <2>7 DEF Next
<1>3. \A s \in Series : Copying(s)' = Copying(s)
  BY <1>1 DEF Copying, frame
<1>4. /\ ring' \in Series /\ step' \in {"count", "check", "read", "upload", "domains", "draw"}
      /\ drawn' \in [Series -> Nat] /\ count' \in Nat /\ index' \in Nat
      /\ storage' \in [Series -> [Slots -> Samples]] /\ vbo' \in [Series -> [Slots -> Samples]]
      /\ first' \in Slots /\ last' \in 0 .. RingSize
  BY <1>1 DEF TypeOK, frame
<1>5. ASSUME NEW s \in Series
      PROVE  /\ drawn'[s] <= NrSamples(s)'
             /\ Copying(s)' => /\ index' \in drawn'[s] .. drawn'[s] + count' - 1
                              /\ drawn'[s] + count' <= NrSamples(s)'
  <2>1. NrSamples(s) \in Nat /\ NrSamples(s)' \in Nat /\ NrSamples(s) <= NrSamples(s)'
    BY SenderGrows
  <2>2. drawn' = drawn /\ index' = index /\ count' = count
    BY <1>1 DEF frame
  <2> QED BY <1>3, <2>1, <2>2 DEF TypeOK
<1> QED BY <1>2, <1>4, <1>5, SenderGrows DEF TypeOK

\* The new sample takes the slot of the one that leaves the ring.
LEMMA SenderKeepsCache ==
  ASSUME TypeOK, CacheHolds, Next, ~Frame
  PROVE  CacheHolds'
<1>1. CASE UNCHANGED <<appended, cache>>
  <2>1. \A s \in Series : NrSamples(s)' = NrSamples(s)
    BY <1>1 DEF NrSamples
  <2> QED BY <1>1, <2>1 DEF CacheHolds
<1>2. CASE \E s \in Series : AppendTo(s) /\ Incoming(s) \in Samples
  <2> PICK s \in Series : AppendTo(s) /\ Incoming(s) \in Samples
    BY <1>2
  <2> DEFINE n == NrSamples(s)
  <2>1. ASSUME NEW t \in Series \ {s}, NEW si \in Nat, si < NrSamples(t)', si + RingSize >= NrSamples(t)'
        PROVE  cache'[t][si % RingSize] = appended'[t][si + 1]
    <3>1. appended'[t] = appended[t] /\ cache'[t] = cache[t] /\ NrSamples(t)' = NrSamples(t)
      BY Appending
    <3> QED BY <2>1, <3>1 DEF CacheHolds
  <2>2. ASSUME NEW si \in Nat, si < n + 1, si + RingSize >= n + 1
        PROVE  cache'[s][si % RingSize] = appended'[s][si + 1]
    <3>1. n \in Nat /\ si % RingSize \in Slots
      BY Appending, Division, StreamAssumption DEF Slots
    <3>2. CASE si = n
      BY <3>1, <3>2, Appending
    <3>3. CASE si < n
      <4>1. si % RingSize # n % RingSize
        BY <2>2, <3>1, <3>3, DifferentSlots, StreamAssumption
      <4>2. cache[s][si % RingSize] = appended[s][si + 1]
        BY <2>2, <3>1, <3>3, StreamAssumption DEF CacheHolds
      <4> QED BY <3>1, <3>3, <4>1, <4>2, Appending
    <3> QED BY <2>2, <3>1, <3>2, <3>3
  <2>3. n + 1 = NrSamples(s)'
    BY Appending
  <2> HIDE DEF n
  <2> QED BY <2>1, <2>2, <2>3 DEF CacheHolds
<1> QED BY <1>1, <1>2, SenderStep

LEMMA SenderKeepsFrame ==
  ASSUME StreamInv, Next, ~Frame
  PROVE  StorageHolds' /\ VboHolds' /\ RangeHolds'
<1>1. UNCHANGED frame /\ TypeOK
  BY SenderStep DEF StreamInv
<1>2. \A s \in Series : Copying(s)' = Copying(s) /\ Processed(s)' = Processed(s)
  BY <1>1 DEF Copying, Processed, frame
<1>3. VboHolds'
  BY <1>1, <1>2 DEF StreamInv, VboHolds, frame
<1>4. RangeHolds'
  BY <1>1 DEF StreamInv, RangeHolds, Complete, frame
<1>5. \A s \in Series : Processed(s) \in Nat /\ Processed(s) <= NrSamples(s)
  BY <1>1 DEF TypeOK, Processed, NrSamples
<1>6. ASSUME NEW s \in Series, NEW si \in Nat, si < Processed(s), si + RingSize >= Processed(s)
      PROVE  storage'[s][si % RingSize] = appended'[s][si + 1] \/ NrSamples(s)' >= si + RingSize
  <2>1. \/ storage[s][si % RingSize] = appended[s][si + 1]
        \/ NrSamples(s) >= si + RingSize
    BY <1>6 DEF StreamInv, StorageHolds
  <2>2. storage' = storage
    BY <1>1 DEF frame
  <2>3. NrSamples(s) \in Nat /\ NrSamples(s)' \in Nat /\ NrSamples(s) <= NrSamples(s)'
        /\ appended'[s][si + 1] = appended[s][si + 1]
    BY <1>1, <1>5, <1>6, SenderGrows
  <2> QED BY <2>1, <2>2, <2>3, StreamAssumption
<1> QED BY <1>2, <1>3, <1>4, <1>6 DEF StorageHolds

-----------------------------------------------------------------------------
(* The steps of the draw thread.                                              *)

LEMMA FrameKeepsSender ==
  ASSUME Frame
  PROVE  /\ UNCHANGED sender
         /\ \A s \in Series : NrSamples(s)' = NrSamples(s)
  BY DEF Frame, Count, Check, Read, Upload, CopyAndCount, Domains, Draw, sender, NrSamples

LEMMA FrameKeepsCache ==
  ASSUME CacheHolds, Frame
  PROVE  CacheHolds'
  BY FrameKeepsSender DEF CacheHolds, sender

\* From one sample of a ring to the next, or to the upload.
LEMMA SampleDone ==
  ASSUME TypeOK, step \in {"check", "read"}, NextSample, UNCHANGED <<ring, drawn, count>>
  PROVE  /\ index \in Nat /\ index < NrSamples(ring) /\ drawn[ring] \in Nat /\ drawn[ring] <= index
         /\ Copying(ring) /\ Copying(ring)'
         /\ Processed(ring) = index /\ Processed(ring)' = index + 1
         /\ \A s \in Series \ {ring} : ~Copying(s) /\ ~Copying(s)' /\ Processed(s)' = Processed(s)
         /\ index' \in drawn[ring] .. drawn[ring] + count - 1
         /\ step' \in {"check", "upload"}
<1>1. /\ index \in drawn[ring] .. drawn[ring] + count - 1 /\ ring \in Series
      /\ drawn[ring] \in Nat /\ count \in Nat /\ index \in Nat
      /\ drawn[ring] + count <= NrSamples(ring) /\ NrSamples(ring) \in Nat
  BY DEF TypeOK, Copying, NrSamples
<1>2. CASE index + 1 < drawn[ring] + count
  BY <1>1, <1>2 DEF NextSample, Copying, Processed
<1>3. CASE ~(index + 1 < drawn[ring] + count)
  <2>1. index' = index /\ step' = "upload" /\ ring' = ring /\ drawn' = drawn /\ count' = count
    BY <1>3 DEF NextSample
  <2>2. index + 1 = drawn[ring] + count
    BY <1>1, <1>3
  <2>3. Copying(ring) /\ Copying(ring)' /\ Processed(ring) = index /\ Processed(ring)' = index + 1
    BY <1>1, <2>1, <2>2 DEF Copying, Processed
  <2>4. \A s \in Series \ {ring} : ~Copying(s) /\ ~Copying(s)' /\ Processed(s)' = Processed(s)
    BY <2>1 DEF Copying, Processed
  <2> QED BY <1>1, <2>1, <2>3, <2>4
<1> QED BY <1>2, <1>3

LEMMA VisibleIsWhole ==
  ASSUME TypeOK, CacheHolds, NEW s \in Series, NEW si \in Nat, si < NrSamples(s),
         NEW x \in Visible(s, si % RingSize)
  PROVE  x \in Samples /\ (x = appended[s][si + 1] \/ NrSamples(s) >= si + RingSize)
<1> DEFINE c == si % RingSize  n == NrSamples(s)
<1>1. n \in Nat /\ c \in Slots /\ cache[s][c] \in Samples
  <2>1. appended[s] \in Seq(Samples) /\ cache[s] \in [Slots -> Samples]
    BY DEF TypeOK
  <2>2. c \in Slots
    BY StreamAssumption, Division DEF Slots
  <2> QED BY <2>1, <2>2 DEF NrSamples
<1>2. Incoming(s) \in Samples
  BY IncomingIsSample
<1>3. PICK a \in {cache[s][c], Incoming(s)}, b \in {cache[s][c], Incoming(s)} :
        /\ x = [time |-> a.time, value |-> b.value]
        /\ \/ a = cache[s][c] /\ b = cache[s][c]
           \/ c = n % RingSize
  BY DEF Visible
<1>4. x \in Samples
  BY <1>1, <1>2, <1>3 DEF Samples
<1>5. CASE c = n % RingSize
  <2>1. ~(n < si + RingSize)
    BY <1>1, <1>5, DifferentSlots, StreamAssumption
  <2> QED BY <2>1, <1>1, <1>4, StreamAssumption
<1>6. CASE a = cache[s][c] /\ b = cache[s][c]
  <2>1. x = cache[s][c]
    BY <1>1, <1>3, <1>6 DEF Samples
  <2>2. CASE si + RingSize >= n
    BY <2>1, <2>2, <1>4 DEF CacheHolds
  <2> QED BY <2>2, <1>1, <1>4, StreamAssumption
<1> QED BY <1>3, <1>5, <1>6

\* The type invariant of the variables of the draw thread, without its bounds.
FrameTypeOK ==
  /\ ring \in Series
  /\ step \in {"count", "check", "read", "upload", "domains", "draw"}
  /\ drawn \in [Series -> Nat] /\ count \in Nat /\ index \in Nat
  /\ storage \in [Series -> [Slots -> Samples]] /\ vbo \in [Series -> [Slots -> Samples]]
  /\ first \in Slots /\ last \in 0 .. RingSize

LEMMA FrameType ==
  ASSUME TypeOK, Frame, FrameTypeOK',
         \A s \in Series :
           /\ drawn'[s] <= NrSamples(s)
           /\ Copying(s)' => /\ index' \in drawn'[s] .. drawn'[s] + count' - 1
                            /\ drawn'[s] + count' <= NrSamples(s)
  PROVE  TypeOK'
<1>1. UNCHANGED <<packets, appended, cache, sending, is_bool, offset, cached>>
      /\ \A s \in Series : NrSamples(s)' = NrSamples(s)
  BY FrameKeepsSender DEF sender
<1> QED BY <1>1 DEF TypeOK, FrameTypeOK

\* When the draw thread leaves a ring it copies nothing.
LEMMA RingLeft ==
  ASSUME NextRing, ring \in Series
  PROVE  ring' \in Series /\ step' \in {"count", "domains"} /\ \A s \in Series : ~Copying(s)'
  BY DEF NextRing, Series, Copying

LEMMA CountKeeps ==
  ASSUME StreamInv, Count
  PROVE  TypeOK' /\ StorageHolds' /\ VboHolds' /\ RangeHolds'
<1> DEFINE n == NrSamples(ring)
<1>0. TypeOK /\ Frame /\ FrameTypeOK /\ \A s \in Series : ~Copying(s)
  BY DEF StreamInv, Frame, TypeOK, FrameTypeOK, Count, Copying
<1>1. UNCHANGED <<drawn, storage, vbo, first, last>> /\ UNCHANGED appended
      /\ \A s \in Series : NrSamples(s)' = NrSamples(s)
  BY <1>0, FrameKeepsSender DEF Count, sender
<1>2. /\ \A s \in Series : NrSamples(s) \in Nat /\ drawn[s] \in Nat /\ drawn[s] <= NrSamples(s)
      /\ ring \in Series /\ count' = n - drawn[ring] /\ count' \in Nat
  BY <1>0 DEF TypeOK, NrSamples, Count
<1>3. /\ ring' \in Series /\ step' \in {"count", "check", "domains"} /\ index' \in Nat
      /\ \A s \in Series : Copying(s)' => /\ s = ring /\ step' = "check" /\ index' = drawn[s]
                                         /\ count' # 0
  <2>1. CASE count' = 0
    <3>1. NextRing /\ index' = index
      BY <2>1 DEF Count
    <3> QED BY <3>1, <1>0, <1>2, RingLeft DEF FrameTypeOK
  <2>2. CASE count' # 0
    BY <2>2, <1>2 DEF Count, Copying
  <2> QED BY <2>1, <2>2
<1>4. TypeOK'
  <2>1. FrameTypeOK'
    BY <1>0, <1>1, <1>2, <1>3 DEF FrameTypeOK
  <2>2. ASSUME NEW s \in Series
        PROVE  /\ drawn'[s] <= NrSamples(s)
               /\ Copying(s)' => /\ index' \in drawn'[s] .. drawn'[s] + count' - 1
                                /\ drawn'[s] + count' <= NrSamples(s)
    BY <1>1, <1>2, <1>3
  <2> QED BY <1>0, <2>1, <2>2, FrameType
<1>5. \A s \in Series : Processed(s)' = Processed(s)
  BY <1>0, <1>1, <1>3 DEF Processed
<1>6. StorageHolds'
  BY <1>1, <1>5 DEF StreamInv, StorageHolds
<1>7. VboHolds'
  BY <1>0, <1>1 DEF StreamInv, VboHolds
<1>8. RangeHolds'
  BY <1>1, <1>3 DEF StreamInv, RangeHolds, Complete
<1> QED BY <1>4, <1>6, <1>7, <1>8

LEMMA DrawKeeps ==
  ASSUME StreamInv, Draw
  PROVE  TypeOK' /\ StorageHolds' /\ VboHolds' /\ RangeHolds'
<1>0. TypeOK /\ Frame /\ FrameTypeOK
  BY DEF StreamInv, Frame, TypeOK, FrameTypeOK
<1>1. UNCHANGED <<index, count, drawn, storage, vbo, first, last>> /\ UNCHANGED appended
      /\ (\A s \in Series : NrSamples(s)' = NrSamples(s))
      /\ ring' \in Series /\ step' = "count"
  BY <1>0, FrameKeepsSender DEF Draw, sender, Series
<1>2. \A s \in Series : ~Copying(s) /\ ~Copying(s)' /\ Processed(s)' = Processed(s)
  BY <1>1 DEF Draw, Copying, Processed
<1>3. TypeOK'
  BY <1>0, <1>1, <1>2, FrameType DEF TypeOK, FrameTypeOK
<1>4. StorageHolds' /\ VboHolds'
  BY <1>1, <1>2 DEF StreamInv, StorageHolds, VboHolds
<1>5. RangeHolds'
  BY <1>1 DEF StreamInv, RangeHolds, Complete
<1> QED BY <1>3, <1>4, <1>5

LEMMA DomainsKeeps ==
  ASSUME StreamInv, Domains
  PROVE  TypeOK' /\ StorageHolds' /\ VboHolds' /\ RangeHolds'
<1>0. TypeOK /\ Frame /\ FrameTypeOK
  BY DEF StreamInv, Frame, TypeOK, FrameTypeOK
<1>1. UNCHANGED <<ring, index, count, drawn, storage, vbo>> /\ UNCHANGED appended
      /\ (\A s \in Series : NrSamples(s)' = NrSamples(s)) /\ step' = "draw"
  BY <1>0, FrameKeepsSender DEF Domains, sender
<1>2. \A s \in Series : ~Copying(s) /\ ~Copying(s)' /\ Processed(s)' = Processed(s)
  BY <1>1 DEF Domains, Copying, Processed
<1>3. Complete \in Nat /\ Complete' = Complete
  BY <1>0, <1>1 DEF Complete, FrameTypeOK, Series
<1>4. RangeHolds' /\ first' \in Slots /\ last' \in 0 .. RingSize
  <2>1. CASE Complete <= RingSize
    BY <2>1, <1>0, <1>1, <1>3, StreamAssumption DEF Domains, StreamInv, RangeHolds, FrameTypeOK
  <2>2. CASE ~(Complete <= RingSize)
    <3>1. Complete - RingSize \in Nat /\ (Complete - RingSize) + RingSize = Complete
      BY <2>2, <1>3, StreamAssumption
    <3>2. Complete % RingSize = (Complete - RingSize) % RingSize
          /\ Complete % RingSize \in Slots
      <4>1. (Complete - RingSize) % RingSize \in 0 .. RingSize - 1
        BY <3>1, Division, StreamAssumption
      <4>2. ((Complete - RingSize) + RingSize) % RingSize =
              IF ((Complete - RingSize) % RingSize) + RingSize < RingSize
              THEN ((Complete - RingSize) % RingSize) + RingSize
              ELSE ((Complete - RingSize) % RingSize) + RingSize - RingSize
        BY <3>1, NextSlots, StreamAssumption
      <4> QED BY <3>1, <4>1, <4>2, StreamAssumption DEF Slots
    <3>3. first' = Complete % RingSize /\ last' = Complete % RingSize
      BY <2>2, <3>2 DEF Domains
    <3> QED BY <2>2, <1>1, <1>3, <3>2, <3>3, StreamAssumption DEF RangeHolds, Slots
  <2> QED BY <2>1, <2>2
<1>5. TypeOK'
  BY <1>0, <1>1, <1>2, <1>4, FrameType DEF TypeOK, FrameTypeOK
<1>6. StorageHolds' /\ VboHolds'
  BY <1>1, <1>2 DEF StreamInv, StorageHolds, VboHolds
<1> QED BY <1>4, <1>5, <1>6

\* A refused sample has been overtaken by the ring, one that was read is whole
\* or overtaken: either way the samples up to it are processed.
LEMMA ReadingKeeps ==
  ASSUME StreamInv, step \in {"check", "read"}, Frame, NextSample, storage' \in [Series -> [Slots -> Samples]],
         UNCHANGED <<ring, count, drawn, vbo, first, last>>,
         \A s \in Series, c \in Slots :
           storage'[s][c] = storage[s][c] \/ (s = ring /\ c = index % RingSize),
         \/ storage'[ring][index % RingSize] = appended[ring][index + 1]
         \/ NrSamples(ring) >= index + RingSize
  PROVE  TypeOK' /\ StorageHolds' /\ VboHolds' /\ RangeHolds'
<1>0. TypeOK /\ FrameTypeOK
  BY DEF StreamInv, TypeOK, FrameTypeOK
<1>1. UNCHANGED appended /\ (\A s \in Series : NrSamples(s)' = NrSamples(s) /\ NrSamples(s) \in Nat)
      /\ RingSize \in Nat \ {0} /\ ring \in Series
  BY <1>0, FrameKeepsSender, StreamAssumption DEF sender, TypeOK, NrSamples
<1>2. /\ index \in Nat /\ index < NrSamples(ring) /\ drawn[ring] \in Nat /\ drawn[ring] <= index
      /\ Copying(ring) /\ Copying(ring)'
      /\ Processed(ring) = index /\ Processed(ring)' = index + 1
      /\ \A s \in Series \ {ring} : ~Copying(s) /\ ~Copying(s)' /\ Processed(s)' = Processed(s)
      /\ index' \in drawn[ring] .. drawn[ring] + count - 1
      /\ step' \in {"check", "upload"}
  BY <1>0, SampleDone
<1>3. TypeOK'
  <2>1. index' \in Nat /\ FrameTypeOK'
    BY <1>0, <1>2 DEF FrameTypeOK
  <2>2. drawn[ring] + count <= NrSamples(ring) /\ \A s \in Series : drawn[s] <= NrSamples(s)
    BY <1>0, <1>1, <1>2 DEF TypeOK
  <2> QED BY <1>0, <1>1, <1>2, <2>1, <2>2, FrameType
<1>4. ASSUME NEW s \in Series, NEW si \in Nat, si < Processed(s)', si + RingSize >= Processed(s)'
      PROVE  \/ storage'[s][si % RingSize] = appended'[s][si + 1]
             \/ NrSamples(s)' >= si + RingSize
  <2>0. si % RingSize \in Slots /\ index % RingSize \in Slots
    BY <1>1, <1>2, Division DEF Slots
  <2>1. CASE s # ring
    <3>1. Processed(s)' = Processed(s) /\ storage'[s][si % RingSize] = storage[s][si % RingSize]
      BY <2>0, <2>1, <1>2
    <3> QED BY <3>1, <1>1, <1>4 DEF StreamInv, StorageHolds
  <2>2. CASE s = ring /\ si = index
    BY <2>2, <1>1
  <2>3. CASE s = ring /\ si # index
    <3>1. si < index /\ index < si + RingSize
      BY <2>3, <1>1, <1>2, <1>4
    <3>2. si % RingSize # index % RingSize
      BY <3>1, <1>1, <1>2, DifferentSlots
    <3>3. storage'[s][si % RingSize] = storage[s][si % RingSize]
      BY <2>0, <2>3, <3>2
    <3>4. si < Processed(s) /\ si + RingSize >= Processed(s)
      BY <2>3, <3>1, <1>1, <1>2
    <3> QED BY <3>3, <3>4, <1>1 DEF StreamInv, StorageHolds
  <2> QED BY <2>1, <2>2, <2>3
<1>5. VboHolds'
  <2> SUFFICES ASSUME NEW s \in Series, NEW c \in Slots
               PROVE  \/ vbo'[s][c] = storage'[s][c]
                      \/ Copying(s)' /\ \E si \in drawn'[s] .. Processed(s)' - 1 : si % RingSize = c
    BY DEF VboHolds
  <2>1. CASE s = ring /\ c = index % RingSize
    <3>1. index \in drawn'[s] .. Processed(s)' - 1
      BY <2>1, <1>2
    <3> QED BY <2>1, <3>1, <1>2
  <2>2. CASE ~(s = ring /\ c = index % RingSize)
    <3>1. storage'[s][c] = storage[s][c] /\ vbo' = vbo
      BY <2>2
    <3>2. CASE vbo[s][c] = storage[s][c]
      BY <3>1, <3>2
    <3>3. CASE Copying(s) /\ \E si \in drawn[s] .. Processed(s) - 1 : si % RingSize = c
      <4>1. s = ring
        BY <3>3, <1>2
      <4>2. PICK si \in drawn[ring] .. index - 1 : si % RingSize = c
        BY <3>3, <4>1, <1>2
      <4>3. si \in drawn'[ring] .. Processed(ring)' - 1
        BY <4>2, <1>2
      <4> QED BY <4>1, <4>2, <4>3, <1>2
    <3> QED BY <3>2, <3>3 DEF StreamInv, VboHolds
  <2> QED BY <2>1, <2>2
<1>6. RangeHolds'
  BY <1>2 DEF StreamInv, RangeHolds, Complete
<1> QED BY <1>3, <1>4, <1>5, <1>6 DEF StorageHolds

LEMMA CheckKeeps ==
  ASSUME StreamInv, Check
  PROVE  TypeOK' /\ StorageHolds' /\ VboHolds' /\ RangeHolds'
<1>0. TypeOK /\ Frame /\ FrameTypeOK /\ step = "check" /\ UNCHANGED <<ring, count, drawn, storage, vbo, first, last>>
  BY DEF StreamInv, Frame, TypeOK, FrameTypeOK, Check
<1>1. /\ index \in drawn[ring] .. drawn[ring] + count - 1 /\ index < NrSamples(ring)
      /\ ring \in Series /\ NrSamples(ring) \in Nat /\ index \in Nat
  BY <1>0 DEF TypeOK, Copying, NrSamples
<1>2. CASE IsCached(ring, index)
  <2>1. step' = "read" /\ index' = index /\ UNCHANGED appended
        /\ \A s \in Series : NrSamples(s)' = NrSamples(s)
    BY <1>0, <1>2, FrameKeepsSender DEF Check, sender
  <2>2. \A s \in Series : Copying(s)' = Copying(s) /\ Processed(s)' = Processed(s)
    BY <1>0, <2>1 DEF Copying, Processed
  <2>3. TypeOK'
    BY <1>0, <2>1, <2>2, FrameType DEF TypeOK, FrameTypeOK
  <2>4. StorageHolds' /\ VboHolds'
    BY <1>0, <2>1, <2>2 DEF StreamInv, StorageHolds, VboHolds
  <2>5. RangeHolds'
    BY <1>0, <2>1 DEF StreamInv, RangeHolds, Complete
  <2> QED BY <2>3, <2>4, <2>5
<1>3. CASE ~IsCached(ring, index)
  <2>1. NrSamples(ring) >= index + RingSize
    BY <1>1, <1>3, StreamAssumption DEF IsCached
  <2>2. NextSample
    BY <1>3 DEF Check
  <2> QED BY <1>0, <2>1, <2>2, ReadingKeeps DEF FrameTypeOK
<1> QED BY <1>2, <1>3

LEMMA ReadKeeps ==
  ASSUME StreamInv, Read
  PROVE  TypeOK' /\ StorageHolds' /\ VboHolds' /\ RangeHolds'
<1>0. TypeOK /\ CacheHolds /\ Frame /\ FrameTypeOK /\ step = "read" /\ NextSample
      /\ UNCHANGED <<ring, count, drawn, vbo, first, last>>
  BY DEF StreamInv, Frame, TypeOK, FrameTypeOK, Read
<1>1. /\ ring \in Series /\ index \in Nat /\ index < NrSamples(ring)
      /\ index % RingSize \in Slots
  <2>1. /\ index \in drawn[ring] .. drawn[ring] + count - 1 /\ drawn[ring] + count <= NrSamples(ring)
        /\ ring \in Series /\ NrSamples(ring) \in Nat /\ index \in Nat /\ drawn[ring] \in Nat /\ count \in Nat
    BY <1>0 DEF TypeOK, Copying, NrSamples
  <2>2. index % RingSize \in Slots
    BY <2>1, Division, StreamAssumption DEF Slots
  <2> QED BY <2>1, <2>2
<1>2. PICK x \in Visible(ring, index % RingSize) :
        storage' = [storage EXCEPT ![ring][index % RingSize] = x]
  BY DEF Read
<1>3. x \in Samples /\ (x = appended[ring][index + 1] \/ NrSamples(ring) >= index + RingSize)
  BY <1>0, <1>1, VisibleIsWhole
<1>4. /\ storage' \in [Series -> [Slots -> Samples]]
      /\ storage'[ring][index % RingSize] = x
      /\ \A s \in Series, c \in Slots :
           storage'[s][c] = storage[s][c] \/ (s = ring /\ c = index % RingSize)
  BY <1>0, <1>1, <1>2, <1>3 DEF FrameTypeOK
<1> QED BY <1>0, <1>3, <1>4, ReadingKeeps

\* The two parts of an upload have the slots of all new samples.
LEMMA UploadsAll ==
  ASSUME NEW s \in Series, drawn[s] \in Nat, count \in Nat,
         NEW si \in drawn[s] .. drawn[s] + count - 1
  PROVE  si % RingSize \in Uploaded(s)
<1> DEFINE R == RingSize  d == drawn[s]  f == d % R  k == si - d  l == count - 1
<1>1. R \in Nat \ {0} /\ d \in Nat /\ k \in Nat /\ l \in Nat /\ k <= l /\ si = d + k /\ si \in Nat
  BY StreamAssumption
<1>2. f \in 0 .. R - 1 /\ si % R \in 0 .. R - 1
  BY <1>1, Division
<1>3. CASE count >= R
  BY <1>2, <1>3 DEF Uploaded, Slots
<1>4. CASE ~(count >= R)
  <2>1. k <= R /\ l <= R /\ l < R /\ d + count - 1 = d + l
    BY <1>1, <1>4
  <2>2. (d + k) % R = IF f + k < R THEN f + k ELSE f + k - R
    BY <1>1, <2>1, NextSlots
  <2>3. (d + l) % R = IF f + l < R THEN f + l ELSE f + l - R
    BY <1>1, <2>1, NextSlots
  <2>4. Uploaded(s) = IF (d + l) % R >= f THEN f .. f + count - 1
                      ELSE (f .. R - 1) \cup (0 .. (d + l) % R)
    BY <1>4, <2>1 DEF Uploaded
  <2>5. si % R = (d + k) % R /\ count = l + 1
    BY <1>1
  <2> HIDE DEF d, f, k, l, R
  <2>6. CASE f + l < R
    <3>1. (d + k) % R = f + k /\ (d + l) % R = f + l
      BY <1>1, <1>2, <2>2, <2>3, <2>6
    <3>2. Uploaded(s) = f .. f + l
      BY <1>1, <1>2, <3>1, <2>4, <2>5
    <3> QED BY <1>1, <1>2, <2>5, <3>1, <3>2 DEF R
  <2>7. CASE ~(f + l < R)
    <3>1. (d + l) % R = f + l - R /\ f + l - R < f
      BY <1>1, <1>2, <2>1, <2>3, <2>7
    <3>2. Uploaded(s) = (f .. R - 1) \cup (0 .. f + l - R)
      BY <1>1, <1>2, <3>1, <2>4
    <3>3. (d + k) % R \in (f .. R - 1) \cup (0 .. f + l - R)
      BY <1>1, <1>2, <2>1, <2>2
    <3> QED BY <2>5, <3>2, <3>3 DEF R
  <2> QED BY <2>6, <2>7
<1> QED BY <1>3, <1>4

LEMMA UploadKeeps ==
  ASSUME StreamInv, Upload
  PROVE  TypeOK' /\ StorageHolds' /\ VboHolds' /\ RangeHolds'
<1>0. /\ TypeOK /\ Frame /\ FrameTypeOK /\ step = "upload" /\ Copying(ring) /\ NextRing
      /\ UNCHANGED <<index, count, storage, first, last>>
  BY DEF StreamInv, Frame, TypeOK, FrameTypeOK, Upload, CopyAndCount, Copying
<1>1. /\ ring \in Series /\ drawn \in [Series -> Nat] /\ count \in Nat
      /\ drawn[ring] + count <= NrSamples(ring)
      /\ \A s \in Series : NrSamples(s) \in Nat /\ drawn[s] <= NrSamples(s)
      /\ \A s \in Series \ {ring} : ~Copying(s)
  BY <1>0 DEF TypeOK, NrSamples, Copying
<1>2. UNCHANGED appended /\ \A s \in Series : NrSamples(s)' = NrSamples(s)
  BY <1>0, FrameKeepsSender DEF sender
<1>3. ring' \in Series /\ step' \in {"count", "domains"} /\ \A s \in Series : ~Copying(s)'
  BY <1>0, <1>1, RingLeft
<1>4. /\ drawn' = [drawn EXCEPT ![ring] = drawn[ring] + count]
      /\ vbo' = [vbo EXCEPT ![ring] =
           [c \in Slots |-> IF c \in Uploaded(ring) THEN storage[ring][c] ELSE vbo[ring][c]]]
  BY DEF Upload, CopyAndCount
<1>5. /\ drawn' \in [Series -> Nat]
      /\ drawn'[ring] = drawn[ring] + count
      /\ \A s \in Series \ {ring} : drawn'[s] = drawn[s] /\ vbo'[s] = vbo[s]
  BY <1>0, <1>1, <1>4 DEF FrameTypeOK
<1>6. /\ vbo' \in [Series -> [Slots -> Samples]]
      /\ \A c \in Slots : vbo'[ring][c] = IF c \in Uploaded(ring) THEN storage[ring][c]
                                          ELSE vbo[ring][c]
  <2>1. [c \in Slots |-> IF c \in Uploaded(ring) THEN storage[ring][c] ELSE vbo[ring][c]]
          \in [Slots -> Samples]
    BY <1>0, <1>1 DEF FrameTypeOK
  <2> QED BY <1>0, <1>1, <1>4, <2>1 DEF FrameTypeOK
<1>7. \A s \in Series : Processed(s)' = drawn'[s] /\ Processed(s)' = Processed(s)
  BY <1>0, <1>1, <1>3, <1>5 DEF Processed
<1>8. TypeOK'
  <2>1. FrameTypeOK'
    BY <1>0, <1>3, <1>5, <1>6 DEF FrameTypeOK
  <2>2. \A s \in Series : drawn'[s] <= NrSamples(s)
    BY <1>1, <1>5
  <2> QED BY <1>0, <1>3, <2>1, <2>2, FrameType
<1>9. StorageHolds'
  BY <1>0, <1>2, <1>7 DEF StreamInv, StorageHolds
<1>10. VboHolds'
  <2> SUFFICES ASSUME NEW s \in Series, NEW c \in Slots PROVE vbo'[s][c] = storage[s][c]
    BY <1>0 DEF VboHolds
  <2>1. CASE s # ring
    BY <2>1, <1>1, <1>5 DEF StreamInv, VboHolds
  <2>2. CASE s = ring /\ c \in Uploaded(ring)
    BY <2>2, <1>6
  <2>3. CASE s = ring /\ c \notin Uploaded(ring)
    <3>1. ~ \E si \in drawn[ring] .. Processed(ring) - 1 : si % RingSize = c
      <4>1. Processed(ring) = drawn[ring] + count
        BY <1>0 DEF Processed
      <4> QED BY <2>3, <4>1, <1>1, UploadsAll
    <3> QED BY <2>3, <3>1, <1>6 DEF StreamInv, VboHolds
  <2> QED BY <2>1, <2>2, <2>3
<1>11. RangeHolds'
  <2>1. Complete \in Nat /\ Complete' \in Nat /\ Complete <= Complete'
    BY <1>1, <1>5 DEF Complete, Series
  <2> QED BY <1>0, <1>3, <2>1, StreamAssumption DEF StreamInv, RangeHolds
<1> QED BY <1>8, <1>9, <1>10, <1>11
-----------------------------------------------------------------------------
(* Theorems.                                                                  *)

LEMMA StepKeeps ==
  ASSUME StreamInv, [Next]_vars
  PROVE  StreamInv'
<1>1. CASE Next /\ ~Frame
  BY <1>1, SenderKeepsType, SenderKeepsCache, SenderKeepsFrame DEF StreamInv
<1>2. CASE Frame
  BY <1>2, FrameKeepsCache, CountKeeps, CheckKeeps, ReadKeeps, UploadKeeps, DomainsKeeps, DrawKeeps
     DEF StreamInv, Frame
<1>3. CASE UNCHANGED vars
  BY <1>3 DEF StreamInv, vars, sender, frame, TypeOK, NrSamples, CacheHolds, StorageHolds, VboHolds,
     RangeHolds, Complete, Copying, Processed
<1> QED BY <1>1, <1>2, <1>3

\* What the draw thread reads, copies and counts without a lock stays within
\* its bounds.
THEOREM StreamTypeCorrect == Spec => []TypeOK
<1>1. StreamInv => TypeOK
  BY DEF StreamInv
<1> QED BY <1>1, InitEstablishes, StepKeeps, PTL DEF Spec

\* When a frame is drawn, each of the last samples that all axes have is drawn,
\* as it was appended or as its slot was since the ring came round to it.
LEMMA InvShowsSamples == StreamInv => FrameIsFaithful
<1> SUFFICES ASSUME StreamInv, step = "draw", NEW si \in 0 .. Complete - 1, si + RingSize >= Complete
             PROVE  /\ si % RingSize \in InPlot
                    /\ \A s \in Series : \/ vbo[s][si % RingSize] = appended[s][si + 1]
                                         \/ NrSamples(s) >= si + RingSize
  BY DEF FrameIsFaithful
<1>1. /\ RingSize \in Nat \ {0} /\ Complete \in Nat /\ si \in Nat /\ si < Complete
      /\ \A s \in Series : drawn[s] \in Nat /\ Complete <= drawn[s] /\ drawn[s] <= NrSamples(s)
                           /\ NrSamples(s) \in Nat /\ ~Copying(s) /\ Processed(s) = drawn[s]
  BY StreamAssumption DEF StreamInv, TypeOK, Complete, Series, NrSamples, Copying, Processed
<1>2. si % RingSize \in 0 .. RingSize - 1
  BY <1>1, Division
<1>3. si % RingSize \in InPlot
  <2>1. CASE Complete <= RingSize
    <3>1. si % RingSize = si
      <4>1. si < RingSize
        BY <2>1, <1>1
      <4> QED BY <4>1, <1>1, SMT
    <3>2. last = Complete /\ first = 0
      BY <2>1 DEF StreamInv, RangeHolds
    <3> QED BY <3>1, <3>2, <1>1, <1>2 DEF InPlot
  <2>2. CASE ~(Complete <= RingSize)
    <3>1. first = Complete % RingSize /\ last = Complete % RingSize /\ Complete % RingSize \in 0 .. RingSize - 1
      BY <2>2, <1>1, Division DEF StreamInv, RangeHolds
    <3> QED BY <3>1, <1>2 DEF InPlot, Slots
  <2> QED BY <2>1, <2>2
<1>4. ASSUME NEW s \in Series
      PROVE  \/ vbo[s][si % RingSize] = appended[s][si + 1]
             \/ NrSamples(s) >= si + RingSize
  <2>1. CASE si + RingSize >= Processed(s)
    <3>1. vbo[s][si % RingSize] = storage[s][si % RingSize]
      BY <1>1, <1>2 DEF StreamInv, VboHolds, Slots
    <3>2. \/ storage[s][si % RingSize] = appended[s][si + 1]
          \/ NrSamples(s) >= si + RingSize
      <4>1. si \in Nat /\ si < Processed(s)
        BY <1>1
      <4> QED BY <4>1, <2>1 DEF StreamInv, StorageHolds
    <3> QED BY <3>1, <3>2
  <2>2. CASE ~(si + RingSize >= Processed(s))
    BY <2>2, <1>1
  <2> QED BY <2>1, <2>2
<1> QED BY <1>3, <1>4

\* The draw thread shows what was received although it takes no lock.
THEOREM FramesAreFaithful == Spec => []FrameIsFaithful
BY InitEstablishes, StepKeeps, InvShowsSamples, PTL DEF Spec
-----------------------------------------------------------------------------
(* Resampling.  A packet with a value of the sampled series gives the         *)
(* resampled one its next sample.                                             *)

Sampled(p) == "sampled" \in packets[p]
SampledUpTo(p) == {q \in 1 .. p : Sampled(q)}
Rank(p) == Cardinality(SampledUpTo(p))

\* The resampled series clears its cached value with each of its samples; the bool
\* series only if the packet has no value of the source.
Drops(p) == Sampled(p) /\ ~(is_bool /\ "source" \in packets[p])

\* The packets whose value the sample of packet p may have: p or the cached ones.
Recent(p) == {q \in 1 .. p : /\ "source" \in packets[q] /\ (q = p \/ ~Sampled(q))
                            /\ \A r \in q .. p - 1 : ~Drops(r)}

\* The last packet of a set, or 0.
IsLatest(v, S) == IF S = {} THEN v = 0 ELSE v \in S /\ \A x \in S : v >= x

\* The packets that have been handled, and those of them not yet resampled.
Handled == IF sending = "idle" THEN Now ELSE Now - 1
Unused == {q \in 1 .. Handled : /\ "source" \in packets[q] /\ ~Sampled(q)
                               /\ \A r \in q .. Handled : ~Drops(r)}

\* Without an offset there is no sample yet; with nan for it there are only nan.
OffsetAgrees ==
  /\ is_bool => offset = "number"
  /\ offset = "unset" => NrSamples("resampled") = 0
  /\ offset = "nan" => /\ NrSamples("resampled") > 0
                       /\ \A p \in 1 .. Handled : Sampled(p) /\ Rank(p) = 1 => Recent(p) = {}

\* The value of a sample is that of the last packet it may be of.
ValueAgrees(p) ==
  IF offset = "nan" THEN appended["resampled"][Rank(p)].value = 0
  ELSE IsLatest(appended["resampled"][Rank(p)].value, Recent(p))

ResampledAgrees ==
  /\ sending # "idle" => Now > 0
  /\ sending \in {Writing[s] : s \in Series} => Sampled(Now)
  /\ Rank(Handled) = NrSamples("resampled")
  /\ \A p \in 1 .. Handled : Sampled(p) =>
       Rank(p) \in 1 .. NrSamples("resampled") /\ ValueAgrees(p)
  /\ \A n \in 1 .. NrSamples("resampled") : \E p \in 1 .. Handled : Sampled(p) /\ Rank(p) = n
  /\ IsLatest(cached, Unused)
  /\ OffsetAgrees

LEMMA RankGrows ==
  ASSUME NEW p \in Nat
  PROVE  /\ IsFiniteSet(SampledUpTo(p)) /\ Rank(p) \in Nat
         /\ Rank(p + 1) = IF Sampled(p + 1) THEN Rank(p) + 1 ELSE Rank(p)
<1>1. IsFiniteSet(SampledUpTo(p)) /\ Rank(p) \in Nat
  <2>1. SampledUpTo(p) \subseteq 1 .. p /\ IsFiniteSet(1 .. p)
    BY FS_Interval DEF SampledUpTo
  <2> QED BY <2>1, FS_Subset, FS_CardinalityType DEF Rank
<1>2. CASE Sampled(p + 1)
  <2>1. SampledUpTo(p + 1) = SampledUpTo(p) \cup {p + 1} /\ p + 1 \notin SampledUpTo(p)
    BY <1>2 DEF SampledUpTo
  <2> QED BY <1>1, <1>2, <2>1, FS_AddElement DEF Rank
<1>3. CASE ~Sampled(p + 1)
  <2>1. SampledUpTo(p + 1) = SampledUpTo(p)
    BY <1>3 DEF SampledUpTo
  <2> QED BY <1>1, <1>3, <2>1 DEF Rank
<1> QED BY <1>1, <1>2, <1>3

\* Sampled packets are told apart by how many there are up to them.
LEMMA RankOrders ==
  ASSUME NEW p \in Nat, NEW q \in Nat, p < q, Sampled(q)
  PROVE  Rank(p) < Rank(q)
<1>1. SampledUpTo(p) \subseteq SampledUpTo(q) /\ q \in SampledUpTo(q) /\ q \notin SampledUpTo(p)
  BY DEF SampledUpTo
<1>2. IsFiniteSet(SampledUpTo(q)) /\ Rank(q) \in Nat /\ Rank(p) \in Nat
  BY RankGrows
<1> QED BY <1>1, <1>2, FS_Subset DEF Rank

LEMMA ResampledInitially == Init => ResampledAgrees
<1> SUFFICES ASSUME Init PROVE ResampledAgrees
  OBVIOUS
<1>1. /\ Now = 0 /\ Handled = 0 /\ sending = "idle" /\ NrSamples("resampled") = 0 /\ cached = 0
      /\ 1 .. 0 = {} /\ offset \in {"unset", "number"} /\ (is_bool => offset = "number")
  BY DEF Init, Now, Handled, NrSamples, Series
<1>2. Unused = {} /\ SampledUpTo(0) = {}
  BY <1>1 DEF Unused, SampledUpTo
<1>3. Rank(0) = 0
  BY <1>2, FS_EmptySet DEF Rank
<1>4. sending \notin {Writing[s] : s \in Series}
  BY <1>1 DEF Writing, Series
<1>5. OffsetAgrees
  BY <1>1 DEF OffsetAgrees
<1> QED BY <1>1, <1>2, <1>3, <1>4, <1>5 DEF ResampledAgrees, IsLatest

\* What has been handled is not changed by what comes.
LEMMA PastStays ==
  ASSUME NEW h \in Nat, \A q \in 1 .. h : packets'[q] = packets[q], is_bool' = is_bool
  PROVE  \A p \in 0 .. h : Rank(p)' = Rank(p) /\ Recent(p)' = Recent(p)
<1> SUFFICES ASSUME NEW p \in 0 .. h PROVE Rank(p)' = Rank(p) /\ Recent(p)' = Recent(p)
  OBVIOUS
<1>1. SampledUpTo(p)' = SampledUpTo(p)
  BY DEF SampledUpTo, Sampled
<1>2. Recent(p)' = Recent(p)
  BY DEF Recent, Sampled, Drops
<1> QED BY <1>1, <1>2 DEF Rank

LEMMA NumberOfPackets ==
  ASSUME TypeOK
  PROVE  Now \in Nat /\ NrSamples("resampled") \in Nat /\ cached \in Nat
  BY DEF TypeOK, Now, NrSamples, Series

\* The names of the writing states are only told apart here.
LEMMA SendingStates ==
  /\ {Writing[s] : s \in Series} = {Writing["sampled"], Writing["resampled"]}
  /\ Writing["sampled"] # "idle" /\ Writing["resampled"] # "idle"
  /\ Writing["sampled"] # "resampled" /\ Writing["resampled"] # "resampled"
  /\ AppendResampled => sending = Writing["resampled"]
  /\ AppendSampled => sending = Writing["sampled"]
  /\ \A p : Receive(p) => sending' = IF "sampled" \in p THEN Writing["sampled"] ELSE "resampled"
<1>1. Writing["sampled"] = "write sampled" /\ Writing["resampled"] = "write resampled"
  BY DEF Writing, Series
<1>2. {Writing[s] : s \in Series} = {Writing["sampled"], Writing["resampled"]}
  BY DEF Series
<1> QED BY <1>1, <1>2, Zenon DEF AppendResampled, AppendSampled, Receive

\* What is known of the packets handled stays known while nothing is appended.
LEMMA HandledStay ==
  ASSUME TypeOK, ResampledAgrees, UNCHANGED <<is_bool, offset>>,
         appended'["resampled"] = appended["resampled"],
         \A q \in 1 .. Handled : packets'[q] = packets[q]
  PROVE  /\ Handled \in Nat /\ NrSamples("resampled")' = NrSamples("resampled")
         /\ \A p \in 0 .. Handled : Rank(p)' = Rank(p) /\ Recent(p)' = Recent(p)
         /\ \A p \in 1 .. Handled : /\ Sampled(p)' <=> Sampled(p)
                                    /\ Drops(p)' <=> Drops(p)
                                    /\ ValueAgrees(p)' <=> ValueAgrees(p)
<1>1. Handled \in Nat
  BY NumberOfPackets DEF Handled, ResampledAgrees
<1>2. \A p \in 0 .. Handled : Rank(p)' = Rank(p) /\ Recent(p)' = Recent(p)
  BY <1>1, PastStays
<1>3. \A p \in 1 .. Handled : (Sampled(p)' <=> Sampled(p)) /\ (Drops(p)' <=> Drops(p))
  BY DEF Sampled, Drops
<1>4. ASSUME NEW p \in 1 .. Handled PROVE ValueAgrees(p)' <=> ValueAgrees(p)
  <2>1. Rank(p)' = Rank(p) /\ Recent(p)' = Recent(p)
    BY <1>1, <1>2
  <2> QED BY <2>1 DEF ValueAgrees, IsLatest
<1>5. NrSamples("resampled")' = NrSamples("resampled")
  BY DEF NrSamples
<1> QED BY <1>1, <1>2, <1>3, <1>4, <1>5

\* Steps that do not handle a packet.
LEMMA OtherResampled ==
  ASSUME TypeOK, ResampledAgrees, UNCHANGED <<cached, is_bool, offset>>,
         appended'["resampled"] = appended["resampled"],
         Handled' = Handled, \A q \in 1 .. Handled : packets'[q] = packets[q],
         sending' # "idle" => Now' > 0,
         sending' \in {Writing[s] : s \in Series} => Sampled(Now)'
  PROVE  ResampledAgrees'
<1> DEFINE h == Handled  nr == NrSamples("resampled")
<1>1. /\ h \in Nat /\ h' = h /\ nr' = nr
      /\ \A p \in 0 .. h : Rank(p)' = Rank(p) /\ Recent(p)' = Recent(p)
      /\ \A p \in 1 .. h : /\ Sampled(p)' <=> Sampled(p)
                           /\ Drops(p)' <=> Drops(p)
                           /\ ValueAgrees(p)' <=> ValueAgrees(p)
  BY HandledStay
<1>2. Unused' = Unused
  BY <1>1 DEF Unused
<1>3. IsLatest(cached, Unused)'
  BY <1>2 DEF IsLatest, ResampledAgrees
<1>4. Rank(Handled)' = nr'
  <2>1. \A p \in 0 .. h : Rank(p)' = Rank(p)
    BY <1>1
  <2>2. Rank(Handled)' = Rank(h)
    BY <1>1, <2>1 DEF Rank, SampledUpTo
  <2> QED BY <1>1, <2>2 DEF ResampledAgrees
<1>5. OffsetAgrees'
  BY <1>1 DEF OffsetAgrees, ResampledAgrees
<1>6. \A p \in 1 .. h : Sampled(p)' => Rank(p)' \in 1 .. nr' /\ ValueAgrees(p)'
  BY <1>1 DEF ResampledAgrees
<1>7. \A n \in 1 .. nr' : \E p \in 1 .. h : Sampled(p)' /\ Rank(p)' = n
  BY <1>1 DEF ResampledAgrees
<1> QED BY <1>1, <1>3, <1>4, <1>5, <1>6, <1>7 DEF ResampledAgrees

LEMMA ReceiveResampled ==
  ASSUME TypeOK, ResampledAgrees, NEW p \in Packets, Receive(p)
  PROVE  ResampledAgrees'
<1>1. /\ sending = "idle" /\ sending' # "idle" /\ UNCHANGED <<appended, cached, is_bool, offset>>
      /\ sending' \in {Writing[s] : s \in Series} => "sampled" \in p
  BY SendingStates, Zenon DEF Receive
<1>2. packets' = Append(packets, p) /\ packets \in Seq(Packets)
  BY Zenon DEF Receive, TypeOK
<1>3. /\ Now \in Nat /\ Now' = Now + 1 /\ packets'[Now'] = p
      /\ \A q \in 1 .. Now : packets'[q] = packets[q]
  BY <1>2 DEF Now
<1>4. Handled = Now /\ Handled' = Now
  BY <1>1, <1>3 DEF Handled
<1>5. sending' \in {Writing[s] : s \in Series} => Sampled(Now)'
  BY <1>1, <1>3 DEF Sampled
<1> QED BY <1>1, <1>3, <1>4, <1>5, OtherResampled

LEMMA CacheValueResampled ==
  ASSUME TypeOK, ResampledAgrees, CacheValue
  PROVE  ResampledAgrees'
<1> DEFINE h == Handled  nr == NrSamples("resampled")
<1>1. /\ sending = "resampled" /\ Now \in Nat /\ Now > 0 /\ ~Sampled(Now)
      /\ Handled = Now - 1 /\ Now' = Now /\ Handled' = Now /\ sending' = "idle"
      /\ cached' = IF "source" \in packets[Now] THEN Now ELSE cached
      /\ UNCHANGED <<packets, appended, is_bool, offset>>
  BY NumberOfPackets DEF CacheValue, Handled, Now, Sampled, ResampledAgrees
<1>2. /\ nr' = nr
      /\ \A p \in 1 .. Now - 1 : ValueAgrees(p)' <=> ValueAgrees(p)
  BY <1>1, HandledStay
<1>3. /\ \A p \in 0 .. Now : Rank(p)' = Rank(p) /\ Recent(p)' = Recent(p)
      /\ \A p \in 1 .. Now : (Sampled(p)' <=> Sampled(p)) /\ (Drops(p)' <=> Drops(p))
  BY <1>1, PastStays DEF Sampled, Drops
<1>4. Rank(Now) = nr
  <2>1. Now - 1 \in Nat /\ Now - 1 + 1 = Now
    BY <1>1
  <2>2. Rank(Now - 1 + 1) = Rank(Now - 1)
    BY <1>1, <2>1, RankGrows
  <2> QED BY <1>1, <2>1, <2>2 DEF ResampledAgrees
<1>5. Rank(Handled)' = nr'
  <2>1. Rank(Handled)' = Rank(Now)
    BY <1>1, <1>3 DEF Rank, SampledUpTo
  <2> QED BY <1>2, <1>4, <2>1
<1>6. ~Drops(Now)
  BY <1>1 DEF Drops
<1>7. Unused' = Unused \cup (IF "source" \in packets[Now] THEN {Now} ELSE {})
      /\ Unused \subseteq 1 .. Now - 1
  BY <1>1, <1>3, <1>6 DEF Unused
<1>8. IsLatest(cached', Unused')
  <2>1. CASE "source" \in packets[Now]
    <3>1. Unused' = Unused \cup {Now} /\ cached' = Now
      BY <1>1, <1>7, <2>1
    <3> QED BY <1>1, <1>7, <3>1 DEF IsLatest
  <2>2. CASE "source" \notin packets[Now]
    BY <1>1, <1>7, <2>2 DEF ResampledAgrees
  <2> QED BY <2>1, <2>2
<1>9. IsLatest(cached, Unused)'
  BY <1>8 DEF IsLatest
<1>10. OffsetAgrees'
  <2>1. \A p \in 1 .. Now : Sampled(p) => p \in 1 .. Handled
    BY <1>1
  <2> QED BY <1>1, <1>2, <1>3, <2>1 DEF OffsetAgrees, ResampledAgrees
<1>11. \A p \in 1 .. Now : Sampled(p)' => Rank(p)' \in 1 .. nr' /\ ValueAgrees(p)'
  BY <1>1, <1>2, <1>3 DEF ResampledAgrees
<1>12. \A n \in 1 .. nr' : \E p \in 1 .. Now : Sampled(p)' /\ Rank(p)' = n
  <2> SUFFICES ASSUME NEW n \in 1 .. nr PROVE \E p \in 1 .. Now : Sampled(p)' /\ Rank(p)' = n
    BY <1>2
  <2>1. PICK p \in 1 .. Now - 1 : Sampled(p) /\ Rank(p) = n
    BY <1>1 DEF ResampledAgrees
  <2> QED BY <1>1, <1>3, <2>1
<1>13. sending' \notin {Writing[s] : s \in Series}
  BY <1>1 DEF Writing, Series
<1> QED BY <1>1, <1>5, <1>9, <1>10, <1>11, <1>12, <1>13 DEF ResampledAgrees

LEMMA AppendResampledKeeps ==
  ASSUME TypeOK, ResampledAgrees, AppendResampled
  PROVE  ResampledAgrees'
<1> DEFINE nr == NrSamples("resampled")  v == Resampled
<1>0. /\ sending = Writing["resampled"] /\ sending' = "idle" /\ UNCHANGED <<packets, is_bool>>
      /\ cached' = IF is_bool /\ "source" \in packets[Now] THEN cached ELSE 0
      /\ offset' = OffsetFor(Resampled)
      /\ AppendTo("resampled")
  BY SendingStates, Zenon DEF AppendResampled
<1>1. /\ sending # "idle" /\ Now \in Nat /\ Now > 0 /\ nr \in Nat
      /\ Handled = Now - 1 /\ Now' = Now /\ Handled' = Now /\ sending' = "idle"
      /\ UNCHANGED <<packets, is_bool>>
  BY <1>0, SendingStates, NumberOfPackets DEF Handled, Now, ResampledAgrees
<1>2. Sampled(Now)
  BY <1>0, SendingStates DEF ResampledAgrees
<1>3. /\ nr' = nr + 1
      /\ \A n \in 1 .. nr : appended'["resampled"][n] = appended["resampled"][n]
      /\ appended'["resampled"][nr + 1].value = Stored(v)
  <2>1. Incoming("resampled") \in Samples
    BY IncomingIsSample DEF Series
  <2>2. Incoming("resampled").value = Stored(v)
    BY DEF Incoming
  <2> QED BY <1>0, <2>1, <2>2 DEF AppendTo, TypeOK, NrSamples, Series
<1> HIDE DEF nr
<1>4. /\ \A q \in 0 .. Now : Rank(q)' = Rank(q) /\ Recent(q)' = Recent(q)
      /\ \A q \in 1 .. Now : (Sampled(q)' <=> Sampled(q)) /\ (Drops(q)' <=> Drops(q))
  BY <1>1, PastStays DEF Sampled, Drops
<1>5. Rank(Now) = nr + 1
  <2>1. Now - 1 \in Nat /\ Now - 1 + 1 = Now
    BY <1>1
  <2>2. Rank(Now - 1 + 1) = Rank(Now - 1) + 1
    BY <1>2, <2>1, RankGrows
  <2> QED BY <1>1, <2>1, <2>2 DEF ResampledAgrees, nr
<1>6. IsLatest(cached', Unused')
  <2>1. CASE is_bool /\ "source" \in packets[Now]
    <3>1. ~Drops(Now)
      BY <2>1 DEF Drops
    <3>2. Unused' = Unused
      BY <1>1, <1>2, <1>4, <3>1 DEF Unused
    <3>3. cached' = cached
      BY <1>0, <2>1
    <3> QED BY <3>2, <3>3 DEF ResampledAgrees
  <2>2. CASE ~(is_bool /\ "source" \in packets[Now])
    <3>1. Drops(Now)'
      BY <1>1, <1>2, <1>4, <2>2 DEF Drops
    <3>2. Unused' = {}
      BY <1>1, <3>1 DEF Unused
    <3> QED BY <1>0, <2>2, <3>2 DEF IsLatest
  <2> QED BY <2>1, <2>2
<1>7. IsLatest(v, Recent(Now))
  <2>1. Recent(Now) = Unused \cup (IF "source" \in packets[Now] THEN {Now} ELSE {})
        /\ Unused \subseteq 1 .. Now - 1
    BY <1>1 DEF Unused, Recent
  <2>2. CASE "source" \in packets[Now]
    <3>1. Recent(Now) = Unused \cup {Now} /\ v = Now
      BY <2>1, <2>2 DEF Resampled
    <3> HIDE DEF v
    <3>2. \A x \in Recent(Now) : x = Now \/ x \in 1 .. Now - 1
      BY <2>1, <3>1, Zenon
    <3>3. Now \in Nat /\ \A x \in Recent(Now) : Now >= x
      BY <1>1, <3>2
    <3>4. v \in Recent(Now) /\ \A x \in Recent(Now) : v >= x
      BY <3>1, <3>3, Zenon
    <3> QED BY <3>4 DEF IsLatest
  <2>3. CASE "source" \notin packets[Now]
    <3>1. Recent(Now) = Unused /\ v = cached
      BY <2>1, <2>3 DEF Resampled
    <3> QED BY <3>1 DEF ResampledAgrees
  <2> QED BY <2>2, <2>3
<1> HIDE DEF v
<1>8. /\ offset' = IF offset # "unset" THEN offset ELSE IF v = 0 THEN "nan" ELSE "number"
      /\ appended'["resampled"][nr + 1].value = IF offset' = "nan" THEN 0 ELSE v
  BY <1>0, <1>3 DEF OffsetFor, Stored, v
<1>9. \A p \in 1 .. Now - 1 : Sampled(p) =>
        Rank(p) \in 1 .. nr /\ ValueAgrees(p) /\ offset' = offset
  <2> TAKE p \in 1 .. Now - 1
  <2> HAVE Sampled(p)
  <2>1. Rank(p) \in 1 .. nr /\ ValueAgrees(p)
    BY <1>1 DEF ResampledAgrees, nr
  <2>2. nr # 0
    BY <1>1, <2>1
  <2>3. offset # "unset"
    BY <2>2 DEF ResampledAgrees, OffsetAgrees, nr
  <2> QED BY <1>8, <2>1, <2>3
<1>10. ASSUME NEW p \in 1 .. Now, Sampled(p)
       PROVE  Rank(p) \in 1 .. nr + 1 /\ ValueAgrees(p)'
  <2>1. Rank(p)' = Rank(p) /\ Recent(p)' = Recent(p)
    BY <1>1, <1>4
  <2>2. CASE p = Now
    <3>1. appended'["resampled"][Rank(p)'].value = IF offset' = "nan" THEN 0 ELSE v
      BY <1>5, <1>8, <2>1, <2>2
    <3>2. IsLatest(v, Recent(p)')
      BY <1>7, <2>1, <2>2
    <3>3. ValueAgrees(p)'
      BY <3>1, <3>2 DEF ValueAgrees, IsLatest
    <3> QED BY <1>1, <1>5, <2>2, <3>3
  <2>3. CASE p # Now
    <3>1. Rank(p) \in 1 .. nr /\ ValueAgrees(p) /\ offset' = offset
      BY <1>1, <1>9, <1>10, <2>3
    <3>2. appended'["resampled"][Rank(p)'] = appended["resampled"][Rank(p)]
      BY <1>3, <2>1, <3>1
    <3>3. ValueAgrees(p)'
      BY <2>1, <3>1, <3>2 DEF ValueAgrees, IsLatest
    <3> QED BY <1>1, <3>1, <3>3
  <2> QED BY <2>2, <2>3
<1>11. \A p \in 1 .. Now : Sampled(p)' => Rank(p)' \in 1 .. nr' /\ ValueAgrees(p)'
  BY <1>1, <1>3, <1>4, <1>10
<1>12. \A n \in 1 .. nr' : \E p \in 1 .. Now : Sampled(p)' /\ Rank(p)' = n
  <2>1. ASSUME NEW n \in 1 .. nr + 1, n # nr + 1
        PROVE  \E p \in 1 .. Now : Sampled(p)' /\ Rank(p)' = n
    <3>1. n \in 1 .. nr
      BY <1>1, <2>1
    <3>2. PICK p \in 1 .. Now - 1 : Sampled(p) /\ Rank(p) = n
      BY <1>1, <3>1 DEF ResampledAgrees, nr
    <3> QED BY <1>1, <1>4, <3>2
  <2>2. PICK m \in 1 .. Now : m = Now
    BY <1>1
  <2>3. Sampled(m)' /\ Rank(m)' = nr + 1
    BY <1>1, <1>2, <1>4, <1>5, <2>2
  <2> QED BY <1>3, <2>1, <2>3
<1>13. OffsetAgrees'
  <2>1. is_bool' => offset' = "number"
    BY <1>1, <1>8 DEF ResampledAgrees, OffsetAgrees
  <2>2. offset' # "unset" /\ nr' > 0
    BY <1>1, <1>3, <1>8
  <2>3. ASSUME offset' = "nan", NEW p \in 1 .. Now, Sampled(p), Rank(p) = 1
        PROVE  Recent(p) = {}
    <3>1. CASE p = Now
      <4>1. nr = 0
        BY <1>1, <1>5, <2>3, <3>1
      <4>2. offset # "nan"
        BY <4>1 DEF ResampledAgrees, OffsetAgrees, nr
      <4>3. v = 0
        BY <1>8, <2>3, <4>2
      <4>4. \A x \in Recent(Now) : x >= 1
        BY <1>1 DEF Recent
      <4> QED BY <1>7, <3>1, <4>3, <4>4 DEF IsLatest
    <3>2. CASE p # Now
      <4>1. p \in 1 .. Now - 1
        BY <1>1, <3>2
      <4>2. offset = "nan"
        BY <1>9, <2>3, <4>1
      <4> QED BY <1>1, <2>3, <4>1, <4>2 DEF ResampledAgrees, OffsetAgrees
    <3> QED BY <3>1, <3>2
  <2>4. \A p \in 1 .. Now : Sampled(p)' /\ Rank(p)' = 1 /\ offset' = "nan" => Recent(p)' = {}
    BY <1>1, <1>4, <2>3
  <2> QED BY <1>1, <2>1, <2>2, <2>4 DEF OffsetAgrees, nr
<1>14. sending' \notin {Writing[s] : s \in Series}
  BY <1>1, SendingStates
<1>15. Rank(Handled)' = nr'
  <2>1. Now \in 0 .. Now
    BY <1>1
  <2>2. Rank(Handled)' = Rank(Now)
    BY <1>1, <1>4, <2>1 DEF Rank, SampledUpTo
  <2> QED BY <1>3, <1>5, <2>2
<1>16. IsLatest(cached, Unused)'
  BY <1>6 DEF IsLatest
<1> QED BY <1>1, <1>11, <1>12, <1>13, <1>14, <1>15, <1>16 DEF ResampledAgrees, nr

LEMMA ResampledKept ==
  ASSUME TypeOK, ResampledAgrees, [Next]_vars
  PROVE  ResampledAgrees'
<1>1. CASE Resample
  <2>1. sending = "resampled" /\ Sampled(Now) /\ sending' # "idle"
        /\ UNCHANGED <<packets, appended, cached, is_bool, offset>>
    BY <1>1 DEF Resample, Sampled
  <2>2. Handled' = Handled /\ Now > 0 /\ Now' = Now /\ (Sampled(Now)' <=> Sampled(Now))
    BY <2>1 DEF Handled, Now, Sampled, ResampledAgrees
  <2> QED BY <2>1, <2>2, OtherResampled
<1>2. CASE AppendSampled
  <2>1. appended'["resampled"] = appended["resampled"]
        /\ UNCHANGED <<packets, cached, is_bool, offset>>
    BY <1>2, Zenon DEF AppendSampled, AppendTo, TypeOK, Series
  <2>2. sending = Writing["sampled"] /\ sending' = "resampled"
    BY <1>2, SendingStates, Zenon DEF AppendSampled
  <2>3. sending # "idle" /\ sending' # "idle" /\ sending' \notin {Writing[s] : s \in Series}
    BY <2>2, SendingStates
  <2>4. Handled' = Handled /\ Now > 0 /\ Now' = Now
    BY <2>1, <2>3 DEF Handled, Now, ResampledAgrees
  <2> QED BY <2>1, <2>3, <2>4, OtherResampled
<1>3. CASE Frame \/ UNCHANGED vars
  <2>1. UNCHANGED <<packets, appended, cached, sending, is_bool, offset>>
    BY <1>3, FrameKeepsSender DEF vars, sender
  <2>2. Handled' = Handled /\ Now' = Now /\ (Sampled(Now)' <=> Sampled(Now))
    BY <2>1 DEF Handled, Now, Sampled
  <2> QED BY <2>1, <2>2, OtherResampled DEF ResampledAgrees
<1> QED BY <1>1, <1>2, <1>3, ReceiveResampled, CacheValueResampled, AppendResampledKeeps DEF Next

\* The packets with a value of the source since the last sampled one before p, and
\* those that only a bool series may still have the value of.
Fresh(p) == {q \in 1 .. p : "source" \in packets[q] /\ \A r \in q .. p - 1 : ~Sampled(r)}
Stale(p) == {q \in 1 .. p - 1 : /\ "source" \in packets[q] /\ "sampled" \notin packets[q]
                              /\ \A r \in q .. p - 1 :
                                   "sampled" \in packets[r] => "source" \in packets[r]}

\* The last packet of a set is its maximum.
LEMMA LatestIsMax ==
  ASSUME NEW v, NEW S, S \subseteq Nat, S # {}, IsLatest(v, S)
  PROVE  v = Max(S)
<1>1. v \in S /\ \A x \in S : v >= x
  BY DEF IsLatest
<1>2. \A y \in S : (\A x \in S : y >= x) <=> y = v
  BY <1>1
<1> QED BY <1>1, <1>2 DEF Max

\* A fresh value is preferred to a stale one, and only a bool series uses these.
LEMMA RecentIsFreshOrStale ==
  ASSUME TypeOK, NEW p \in Nat, p >= 1, NEW v, IsLatest(v, Recent(p))
  PROVE  /\ Fresh(p) # {} => IsLatest(v, Fresh(p))
         /\ Fresh(p) = {} /\ is_bool => IsLatest(v, Stale(p))
         /\ Fresh(p) = {} /\ ~is_bool => v = 0
<1>1. Fresh(p) \subseteq Recent(p)
  BY DEF Fresh, Recent, Drops
<1>2. ASSUME NEW x \in Recent(p), NEW y \in Fresh(p), x \notin Fresh(p) PROVE y > x
  <2>1. PICK r \in x .. p - 1 : Sampled(r)
    BY <1>2 DEF Fresh, Recent
  <2>2. x \in 1 .. p /\ y \in 1 .. p /\ \A q \in y .. p - 1 : ~Sampled(q)
    BY <1>2 DEF Fresh, Recent
  <2> QED BY <2>1, <2>2
<1>3. CASE Fresh(p) # {}
  <2>1. PICK y \in Fresh(p) : TRUE
    BY <1>3
  <2>2. v \in Recent(p) /\ \A x \in Recent(p) : v >= x
    BY <1>1, <2>1 DEF IsLatest
  <2>3. v \in Int /\ y \in Int /\ v >= y
    BY <1>1, <2>1, <2>2 DEF Recent
  <2>4. v \in Fresh(p)
    BY <1>2, <2>1, <2>2, <2>3
  <2> QED BY <1>1, <1>3, <2>2, <2>4 DEF IsLatest
<1>4. CASE Fresh(p) = {} /\ is_bool
  <2>1. "source" \notin packets[p]
    <3>1. p \in 1 .. p /\ p .. p - 1 = {}
      OBVIOUS
    <3> QED BY <1>4, <3>1 DEF Fresh
  <2>2. \A q \in 1 .. p : q # p => q \in 1 .. p - 1
    OBVIOUS
  <2>3. \A r : ~Drops(r) <=> ("sampled" \in packets[r] => "source" \in packets[r])
    BY <1>4 DEF Drops, Sampled
  <2>4. Recent(p) = Stale(p)
    BY <2>1, <2>2, <2>3 DEF Recent, Stale, Sampled
  <2> QED BY <1>4, <2>4
<1>5. CASE Fresh(p) = {} /\ ~is_bool
  <2>1. Recent(p) \subseteq Fresh(p)
    BY <1>5 DEF Recent, Fresh, Drops
  <2> QED BY <1>5, <2>1 DEF IsLatest
<1> QED BY <1>3, <1>4, <1>5

\* The n-th sample came with the only sampled packet of rank n, and what is fresh
\* there is what came since the packet of the sample before it.
LEMMA AgreesIsLatest == TypeOK /\ ResampledAgrees => ResampledIsLatest
<1> SUFFICES ASSUME TypeOK, ResampledAgrees PROVE ResampledIsLatest
  OBVIOUS
<1> DEFINE nr == NrSamples("resampled")
           At(n) == CHOOSE p \in 1 .. Now :
                      Sampled(p) /\ Cardinality({q \in 1 .. p : Sampled(q)}) = n
           at == [n \in 1 .. nr |-> At(n)]
           Since(n) == (IF n = 1 THEN 1 ELSE at[n - 1] + 1) .. at[n]
           Of(n) == {p \in Since(n) : "source" \in packets[p]}
           LeftOver(n) == {p \in 1 .. at[n] - 1 :
                             /\ "source" \in packets[p] /\ "sampled" \notin packets[p]
                             /\ \A q \in p .. at[n] - 1 :
                                  "sampled" \in packets[q] => "source" \in packets[q]}
           Value(n) == appended["resampled"][n].value
<1>1. Now \in Nat /\ nr \in Nat /\ Handled <= Now /\ Handled \in Int
  BY NumberOfPackets DEF Handled, ResampledAgrees
<1>2. ASSUME NEW n \in 1 .. nr
      PROVE  /\ at[n] \in 1 .. Now /\ Sampled(at[n]) /\ Rank(at[n]) = n
             /\ \A p \in 1 .. Now : Sampled(p) /\ Rank(p) = n => p = at[n]
             /\ at[n] \in 1 .. Handled /\ ValueAgrees(at[n])
  <2>1. PICK h \in 1 .. Handled : Sampled(h) /\ Rank(h) = n
    BY DEF ResampledAgrees
  <2>2. h \in 1 .. Now
    BY <1>1
  <2>3. ASSUME NEW p \in 1 .. Now, Sampled(p), Rank(p) = n PROVE p = h
    <3>1. Rank(p) \in Nat /\ Rank(h) \in Nat
      BY RankGrows
    <3> QED BY <2>1, <2>2, <2>3, <3>1, RankOrders
  <2>4. at[n] \in 1 .. Now /\ Sampled(at[n]) /\ Rank(at[n]) = n
    BY <2>1, <2>2, Zenon DEF Rank, SampledUpTo
  <2>5. at[n] = h
    BY <2>3, <2>4
  <2>6. ValueAgrees(h)
    BY <2>1 DEF ResampledAgrees
  <2> QED BY <2>3, <2>4, <2>5, <2>6
<1> HIDE DEF at
<1>3. ASSUME NEW n \in 1 .. nr PROVE Of(n) = Fresh(at[n])
  <2> DEFINE p == at[n]
  <2>1. p \in 1 .. Now /\ Sampled(p) /\ Rank(p) = n /\ p \in Nat
    BY <1>2
  <2> HIDE DEF p
  <2>2. ASSUME NEW q \in 1 .. p, q \in Since(n)
        PROVE  \A r \in q .. p - 1 : ~Sampled(r)
    <3> SUFFICES ASSUME NEW r \in q .. p - 1, Sampled(r) PROVE FALSE
      OBVIOUS
    <3>1. r \in Nat /\ r < p /\ 0 < r /\ Rank(r) < n /\ Rank(r) \in Nat /\ Rank(0) \in Nat
      BY <2>1, RankOrders, RankGrows
    <3>2. Rank(0) < Rank(r)
      BY <3>1, RankOrders
    <3>3. n # 1 /\ n - 1 \in 1 .. nr
      BY <3>1, <3>2, <1>1
    <3>4. at[n - 1] \in Nat /\ at[n - 1] < r /\ Rank(at[n - 1]) = n - 1
      BY <1>2, <2>2, <3>3
    <3>5. Rank(at[n - 1]) < Rank(r)
      BY <3>1, <3>4, RankOrders
    <3> QED BY <3>1, <3>4, <3>5
  <2>3. ASSUME NEW q \in 1 .. p, \A r \in q .. p - 1 : ~Sampled(r)
        PROVE  q \in Since(n)
    <3>1. CASE n = 1
      BY <3>1 DEF p
    <3>2. CASE n # 1
      <4>1. n - 1 \in 1 .. nr /\ n - 1 < n
        BY <1>1, <3>2
      <4>2. at[n - 1] \in Nat /\ Sampled(at[n - 1]) /\ Rank(at[n - 1]) = n - 1
        BY <1>2, <4>1
      <4>3. at[n - 1] < p
        <5>1. at[n - 1] # p /\ ~(p < at[n - 1])
          BY <2>1, <4>1, <4>2, RankOrders
        <5> QED BY <2>1, <4>2, <5>1
      <4>4. at[n - 1] < q
        BY <2>1, <2>3, <4>2, <4>3
      <4> QED BY <2>1, <3>2, <4>2, <4>4 DEF p
    <3> QED BY <3>1, <3>2
  <2>4. Since(n) \subseteq 1 .. p
    <3>1. CASE n = 1
      BY <3>1, <2>1 DEF p
    <3>2. CASE n # 1
      <4>1. n - 1 \in 1 .. nr
        BY <1>1, <3>2
      <4>2. at[n - 1] \in 1 .. Now
        BY <1>2, <4>1
      <4> QED BY <3>2, <4>2, <2>1 DEF p
    <3> QED BY <3>1, <3>2
  <2>5. \A q : q \in Of(n) <=> q \in Since(n) /\ "source" \in packets[q]
    OBVIOUS
  <2>6. \A q : q \in Fresh(p) <=> /\ q \in 1 .. p /\ "source" \in packets[q]
                                  /\ \A r \in q .. p - 1 : ~Sampled(r)
    BY Zenon DEF Fresh
  <2> HIDE DEF Since, Of
  <2>7. \A q : q \in Of(n) <=> q \in Fresh(p)
    BY <2>2, <2>3, <2>4, <2>5, <2>6, Zenon
  <2> QED BY <2>7, Zenon DEF p
<1>4. ASSUME NEW n \in 1 .. nr PROVE LeftOver(n) = Stale(at[n])
  BY DEF Stale
<1> HIDE DEF Since, Of, LeftOver
<1>5. ASSUME NEW n \in 1 .. nr
      PROVE  \/ /\ offset # "nan" /\ Of(n) # {}
                /\ Value(n) = Max(Of(n))
             \/ /\ offset # "nan" /\ Of(n) = {} /\ ~(is_bool /\ LeftOver(n) # {})
                /\ Value(n) = 0
             \/ /\ is_bool /\ Of(n) = {} /\ LeftOver(n) # {}
                /\ Value(n) = Max(LeftOver(n))
             \/ /\ offset = "nan" /\ ~is_bool /\ Of(1) = {}
                /\ Value(n) = 0
  <2> DEFINE p == at[n]
  <2>1. p \in Nat /\ p >= 1 /\ Rank(p) = n /\ ValueAgrees(p)
    BY <1>1, <1>2
  <2>2. Of(n) = Fresh(p) /\ LeftOver(n) = Stale(p)
    BY <1>3, <1>4
  <2> HIDE DEF p
  <2>3. Fresh(p) \subseteq Nat /\ Stale(p) \subseteq Nat
    BY DEF Fresh, Stale
  <2>4. CASE offset = "nan"
    <3>1. Value(n) = 0
      BY <2>1, <2>4 DEF ValueAgrees
    <3>2. 1 \in 1 .. nr
      BY <1>1
    <3>3. at[1] \in 1 .. Handled /\ Sampled(at[1]) /\ Rank(at[1]) = 1 /\ at[1] \in Nat /\ at[1] >= 1
      BY <1>2, <3>2
    <3>4. Recent(at[1]) = {} /\ ~is_bool
      BY <2>4, <3>3 DEF ResampledAgrees, OffsetAgrees
    <3>5. Fresh(at[1]) \subseteq Recent(at[1])
      BY <3>3 DEF Fresh, Recent, Drops
    <3>6. Of(1) = {}
      BY <1>3, <3>2, <3>4, <3>5
    <3> QED BY <2>4, <3>1, <3>4, <3>6
  <2>5. CASE offset # "nan"
    <3>1. IsLatest(Value(n), Recent(p))
      BY <2>1, <2>5 DEF ValueAgrees
    <3> DEFINE v == Value(n)
    <3>2. IsLatest(v, Recent(p))
      BY <3>1
    <3> HIDE DEF v
    <3>3. /\ Fresh(p) # {} => IsLatest(v, Fresh(p))
          /\ Fresh(p) = {} /\ is_bool => IsLatest(v, Stale(p))
          /\ Fresh(p) = {} /\ ~is_bool => v = 0
      BY <2>1, <3>2, RecentIsFreshOrStale
    <3>4. CASE Fresh(p) # {}
      <4>1. v = Max(Fresh(p))
        BY <2>3, <3>3, <3>4, LatestIsMax
      <4> QED BY <2>2, <2>5, <3>4, <4>1 DEF v
    <3>5. CASE Fresh(p) = {} /\ is_bool /\ Stale(p) # {}
      <4>1. v = Max(Stale(p))
        BY <2>3, <3>3, <3>5, LatestIsMax
      <4> QED BY <2>2, <2>5, <3>5, <4>1 DEF v
    <3>6. CASE Fresh(p) = {} /\ ~(is_bool /\ Stale(p) # {})
      <4>1. v = 0
        BY <3>3, <3>6 DEF IsLatest
      <4> QED BY <2>2, <2>5, <3>6, <4>1 DEF v
    <3> QED BY <3>4, <3>5, <3>6
  <2> QED BY <2>4, <2>5
<1> QED BY <1>5, Zenon DEF ResampledIsLatest, Sampled, at, Since, Of, LeftOver

\* Values of the source wait for the next sample, in the order of the packets: it
\* gets the latest and the others are dropped.  The two exceptions are exactly
\* those of the property, a bool series that keeps a value beside a newer one and a
\* float series that starts with nan, for rings of any size and any number of
\* packets in any order.
THEOREM ResamplingIsRight == Spec => []ResampledIsLatest
<1>1. StreamInv => TypeOK
  BY DEF StreamInv
<1>2. Init => StreamInv /\ ResampledAgrees
  BY InitEstablishes, ResampledInitially
<1>3. StreamInv /\ ResampledAgrees /\ [Next]_vars => (StreamInv /\ ResampledAgrees)'
  BY <1>1, StepKeeps, ResampledKept
<1>4. StreamInv /\ ResampledAgrees => ResampledIsLatest
  BY <1>1, AgreesIsLatest
<1> QED BY <1>2, <1>3, <1>4, PTL DEF Spec
=============================================================================
