------------------------- MODULE AzureKinect_proofs -------------------------
(* The driver of the Azure Kinect, for any streams and configurations.  First *)
(* its caches, as FrameRing has them: a ring of four slots is a queue.  Then   *)
(* the driver: its flags, its thread and its device agree, and it uses its    *)
(* caches as those rings are used.                                            *)
EXTENDS AzureKinect, TLAPS
-----------------------------------------------------------------------------
(* The rings *)

\* What is left of a sequence without its first element.
LEMMA TailOfSeq ==
    ASSUME NEW S, NEW s \in Seq(S), s # <<>>
    PROVE  /\ Tail(s) \in Seq(S) /\ Len(Tail(s)) = Len(s) - 1
           /\ \A i \in 1..(Len(s) - 1) : Tail(s)[i] = s[i + 1]
OBVIOUS

\* Two sequences of the same length that agree everywhere are the same.
LEMMA SameSeq ==
    ASSUME NEW S, NEW s \in Seq(S), NEW t \in Seq(S), Len(s) = Len(t),
           \A i \in 1..Len(s) : s[i] = t[i]
    PROVE  s = t
OBVIOUS

\* What a ring holds is a sequence of the slots from the read index on.
LEMMA HeldIsSeq ==
    ASSUME NEW slots \in [Slots -> Content], NEW r \in Slots, NEW w \in Slots,
           NEW n \in BOOLEAN
    PROVE  /\ Count(r, w, n) \in 0..4
           /\ Held(slots, r, w, n) \in Seq(Content)
           /\ Len(Held(slots, r, w, n)) = Count(r, w, n)
           /\ \A i \in 1..Count(r, w, n) :
                 Held(slots, r, w, n)[i] = slots[SlotAt(r, i)]
<1>1. Count(r, w, n) \in 0..4
  BY DEF Count, Slots, frame_cache_size
<1>2. \A i \in 1..4 : SlotAt(r, i) \in Slots
  BY DEF SlotAt, Slots, frame_cache_size
<1> QED
  BY <1>1, <1>2 DEF Held, frame_cache_size

\* A stored frame is the last to be fetched, or the only one if the ring was full.
LEMMA StoreArrives ==
    ASSUME NEW slots \in [Slots -> Content], NEW r \in Slots, NEW w \in Slots,
           NEW n \in BOOLEAN, ~n => r = w, NEW f \in Content
    PROVE  Held([slots EXCEPT ![w] = f], r, NextSlot(w), TRUE)
             = Queue!Arrived(Held(slots, r, w, n), f)
<1> DEFINE k == Count(r, w, n)
           c == Count(r, NextSlot(w), TRUE)
           stored == [slots EXCEPT ![w] = f]
           new == Held(stored, r, NextSlot(w), TRUE)
           old == Held(slots, r, w, n)
<1>1. NextSlot(w) \in Slots /\ stored \in [Slots -> Content]
  BY DEF NextSlot, Slots, frame_cache_size
<1>2. /\ k \in 0..4 /\ old \in Seq(Content) /\ Len(old) = k
      /\ \A i \in 1..k : old[i] = slots[SlotAt(r, i)]
  BY HeldIsSeq
<1> HIDE DEF stored
<1>3. /\ c \in 0..4 /\ new \in Seq(Content) /\ Len(new) = c
      /\ \A i \in 1..c : new[i] = stored[SlotAt(r, i)]
  BY <1>1, HeldIsSeq
<1>4. stored[w] = f /\ \A i \in Slots : i # w => stored[i] = slots[i]
  BY DEF stored
<1>5. k = 4 => c = 1 /\ SlotAt(r, 1) = w
  BY DEF Count, NextSlot, SlotAt, Slots, frame_cache_size
<1>6. k # 4 => /\ c = k + 1
               /\ SlotAt(r, k + 1) = w
               /\ \A i \in 1..k : SlotAt(r, i) # w /\ SlotAt(r, i) \in Slots
  BY DEF Count, NextSlot, SlotAt, Slots, frame_cache_size
<1> HIDE DEF k, c, new, old
<1>7. CASE k = 4
  <2>1. Len(new) = 1 /\ new[1] = f
    BY <1>3, <1>4, <1>5, <1>7
  <2>2. \A i \in 1..Len(new) : new[i] = <<f>>[i]
    BY <2>1
  <2>3. new = <<f>>
    BY <1>3, <2>1, <2>2, SameSeq
  <2>4. Queue!Arrived(old, f) = <<f>>
    BY <1>2, <1>7 DEF Queue!Arrived, frame_cache_size
  <2> QED
    BY <2>3, <2>4 DEF new, old, stored
<1>8. CASE k # 4
  <2>1. \A i \in 1..k : new[i] = old[i]
    <3> SUFFICES ASSUME NEW i \in 1..k PROVE new[i] = old[i]
      OBVIOUS
    <3>1. i \in 1..c
      BY <1>2, <1>6, <1>8
    <3> QED
      BY <1>2, <1>3, <1>4, <1>6, <1>8, <3>1
  <2>2. new[k + 1] = f
    <3>1. k + 1 \in 1..c
      BY <1>2, <1>6, <1>8
    <3> QED
      BY <1>3, <1>4, <1>6, <1>8, <3>1
  <2>3. Append(old, f) \in Seq(Content) /\ Len(Append(old, f)) = k + 1
    BY <1>2
  <2>4. \A i \in 1..Len(new) : new[i] = Append(old, f)[i]
    BY <1>2, <1>3, <1>6, <1>8, <2>1, <2>2
  <2>5. new = Append(old, f)
    BY <1>3, <1>6, <1>8, <2>3, <2>4, SameSeq
  <2>6. Queue!Arrived(old, f) = Append(old, f)
    BY <1>2, <1>8 DEF Queue!Arrived, frame_cache_size
  <2> QED
    BY <2>5, <2>6 DEF new, old, stored
<1> QED
  BY <1>7, <1>8

\* A ring with frames hands out the first and keeps the others.
LEMMA TakeIsHead ==
    ASSUME NEW slots \in [Slots -> Content], NEW r \in Slots, NEW w \in Slots,
           NEW e \in Content
    PROVE  /\ Held(slots, r, w, TRUE) # <<>>
           /\ Head(Held(slots, r, w, TRUE)) = slots[r]
           /\ Held([slots EXCEPT ![r] = e], NextSlot(r), w, NextSlot(r) # w)
                = Tail(Held(slots, r, w, TRUE))
<1> DEFINE k == Count(r, w, TRUE)
           c == Count(NextSlot(r), w, NextSlot(r) # w)
           taken == [slots EXCEPT ![r] = e]
           new == Held(taken, NextSlot(r), w, NextSlot(r) # w)
           old == Held(slots, r, w, TRUE)
<1>1. NextSlot(r) \in Slots /\ taken \in [Slots -> Content]
  BY DEF NextSlot, Slots, frame_cache_size
<1>2. /\ k \in 0..4 /\ old \in Seq(Content) /\ Len(old) = k
      /\ \A i \in 1..k : old[i] = slots[SlotAt(r, i)]
  BY HeldIsSeq
<1> HIDE DEF taken
<1>3. /\ c \in 0..4 /\ new \in Seq(Content) /\ Len(new) = c
      /\ \A i \in 1..c : new[i] = taken[SlotAt(NextSlot(r), i)]
  BY <1>1, HeldIsSeq
<1>4. \A i \in Slots : i # r => taken[i] = slots[i]
  BY DEF taken
<1>5. k \in 1..4 /\ c = k - 1 /\ SlotAt(r, 1) = r
  BY DEF Count, NextSlot, SlotAt, Slots, frame_cache_size
<1>6. \A i \in 1..c : /\ SlotAt(NextSlot(r), i) = SlotAt(r, i + 1)
                      /\ SlotAt(NextSlot(r), i) \in Slots
                      /\ SlotAt(NextSlot(r), i) # r
  BY DEF Count, NextSlot, SlotAt, Slots, frame_cache_size
<1> HIDE DEF k, c, new, old
<1>7. old # <<>> /\ Head(old) = slots[r]
  BY <1>2, <1>5
<1>8. /\ Tail(old) \in Seq(Content) /\ Len(Tail(old)) = c
      /\ \A i \in 1..c : Tail(old)[i] = old[i + 1]
  BY <1>2, <1>5, <1>7, TailOfSeq
<1>9. \A i \in 1..Len(new) : new[i] = Tail(old)[i]
  <2> SUFFICES ASSUME NEW i \in 1..c PROVE new[i] = Tail(old)[i]
    BY <1>3
  <2>1. i + 1 \in 1..k
    BY <1>3, <1>5
  <2> QED
    BY <1>2, <1>3, <1>4, <1>6, <1>8, <2>1
<1>10. new = Tail(old)
  BY <1>3, <1>8, <1>9, SameSeq
<1> QED
  BY <1>7, <1>10 DEF new, old, taken
-----------------------------------------------------------------------------
(* The invariant, and the steps of the queue.                              *)

RingInv == RingTypeOK /\ RingAgrees

\* In a ring without the flag nothing is held.
LEMMA NothingHeld ==
    ASSUME NEW slots, NEW r, NEW w
    PROVE  Held(slots, r, w, FALSE) = <<>>
BY DEF Held, Count

LEMMA RingStarts == RingInit => RingInv /\ Queue!Init
<1> SUFFICES ASSUME RingInit PROVE RingInv /\ Queue!Init
  OBVIOUS
<1> USE DEF RingInit
<1>1. RingTypeOK
  BY DEF RingTypeOK, Empty, Content, Slots, frame_cache_size
<1>2. \A is \in Streams : HeldOn(is) = <<>>
  BY NothingHeld DEF HeldOn
<1>3. RingAgrees
  <2>1. \A is \in Streams : current_read[is] = current_write[is]
    OBVIOUS
  <2>2. <<>> \in Seq(Frame)
    OBVIOUS
  <2> QED
    BY <1>2, <2>1, <2>2 DEF RingAgrees
<1>4. Queue!Init
  BY <1>2 DEF Queue!Init
<1> QED
  BY <1>1, <1>3, <1>4 DEF RingInv

\* A store keeps the invariant, and is a Put of the queue.
LEMMA StoreIsPut ==
    ASSUME RingInv, NEW chosen \in SUBSET Streams, NEW f \in Frame, Store(chosen, f)
    PROVE  RingInv' /\ Queue!Put(chosen, f)
<1> USE DEF RingInv
<1>1. RingTypeOK'
  <2>1. \A i \in Slots : NextSlot(i) \in Slots
    BY DEF NextSlot, Slots, frame_cache_size
  <2>2. f \in Content
    BY DEF Content
  <2> QED
    BY <2>1, <2>2 DEF RingTypeOK, Store
<1>2. \A is \in Streams :
          HeldOn(is)' = IF is \in chosen THEN Queue!Arrived(HeldOn(is), f) ELSE HeldOn(is)
  <2> SUFFICES ASSUME NEW is \in Streams
               PROVE  HeldOn(is)' =
                        IF is \in chosen THEN Queue!Arrived(HeldOn(is), f) ELSE HeldOn(is)
    OBVIOUS
  <2>1. CASE is \in chosen
    <3>1. HeldOn(is)' = Held([frames[is] EXCEPT ![current_write[is]] = f],
                             current_read[is], NextSlot(current_write[is]), TRUE)
      BY <2>1 DEF HeldOn, Store
    <3>2. f \in Content
      BY DEF Content
    <3>3. /\ frames[is] \in [Slots -> Content] /\ has_new[is] \in BOOLEAN
          /\ current_read[is] \in Slots /\ current_write[is] \in Slots
          /\ ~has_new[is] => current_read[is] = current_write[is]
      BY DEF RingTypeOK, RingAgrees
    <3>4. Held([frames[is] EXCEPT ![current_write[is]] = f],
               current_read[is], NextSlot(current_write[is]), TRUE)
            = Queue!Arrived(Held(frames[is], current_read[is], current_write[is],
                                 has_new[is]), f)
      <4> DEFINE q == frames[is]  r == current_read[is]  w == current_write[is]
                 n == has_new[is]
      <4>1. /\ q \in [Slots -> Content] /\ n \in BOOLEAN /\ r \in Slots /\ w \in Slots
            /\ ~n => r = w
        BY <3>3
      <4> HIDE DEF q, r, w, n
      <4>2. Held([q EXCEPT ![w] = f], r, NextSlot(w), TRUE) = Queue!Arrived(Held(q, r, w, n), f)
        BY <3>2, <4>1, StoreArrives
      <4> QED BY <4>2 DEF q, r, w, n
    <3>5. HeldOn(is)' = Queue!Arrived(HeldOn(is), f)
      BY <3>1, <3>4 DEF HeldOn
    <3> QED
      BY <2>1, <3>5
  <2>2. CASE is \notin chosen
    BY <2>2 DEF HeldOn, Store, RingTypeOK
  <2> QED
    BY <2>1, <2>2
<1>3. RingAgrees'
  <2> SUFFICES ASSUME NEW is \in Streams
               PROVE  /\ ~has_new'[is] => current_read'[is] = current_write'[is]
                      /\ HeldOn(is)' \in Seq(Frame)
    BY DEF RingAgrees
  <2>1. ~has_new'[is] => current_read'[is] = current_write'[is]
    BY DEF RingAgrees, RingTypeOK, Store
  <2>2. HeldOn(is) \in Seq(Frame)
    BY DEF RingAgrees
  <2>3. Queue!Arrived(HeldOn(is), f) \in Seq(Frame)
    BY <2>2 DEF Queue!Arrived
  <2> QED
    BY <1>2, <2>1, <2>2, <2>3
<1>4. Queue!Put(chosen, f)
  BY <1>2 DEF Queue!Put, Store
<1> QED
  BY <1>1, <1>3, <1>4

\* So is a fetch that has seen the flag, and it is a Get.
LEMMA TakeIsGet ==
    ASSUME RingInv, NEW is \in Streams, has_new[is], Take(is)
    PROVE  RingInv' /\ Queue!Get(is)
<1> USE DEF RingInv
<1>1. RingTypeOK'
  <2>1. \A i \in Slots : NextSlot(i) \in Slots
    BY DEF NextSlot, Slots, frame_cache_size
  <2>2. NoFrame \in Content
    BY DEF Content
  <2> QED
    BY <2>1, <2>2 DEF RingTypeOK, Take, MoreThanThis
<1>2. /\ HeldOn(is) # <<>>
      /\ Head(HeldOn(is)) = frames[is][current_read[is]]
      /\ HeldOn(is)' = Tail(HeldOn(is))
  <2>1. HeldOn(is)' = Held([frames[is] EXCEPT ![current_read[is]] = NoFrame],
                           NextSlot(current_read[is]), current_write[is],
                           NextSlot(current_read[is]) # current_write[is])
    BY DEF HeldOn, Take, MoreThanThis, RingTypeOK
  <2>2. HeldOn(is) = Held(frames[is], current_read[is], current_write[is], TRUE)
    BY DEF HeldOn, RingTypeOK
  <2>3. NoFrame \in Content
    BY DEF Content
  <2>4. /\ frames[is] \in [Slots -> Content]
        /\ current_read[is] \in Slots /\ current_write[is] \in Slots
    BY DEF RingTypeOK
  <2> DEFINE old == Held(frames[is], current_read[is], current_write[is], TRUE)
  <2>5. /\ old # <<>> /\ Head(old) = frames[is][current_read[is]]
        /\ Held([frames[is] EXCEPT ![current_read[is]] = NoFrame],
                NextSlot(current_read[is]), current_write[is],
                NextSlot(current_read[is]) # current_write[is]) = Tail(old)
    BY <2>3, <2>4, TakeIsHead
  <2> HIDE DEF old
  <2>6. HeldOn(is) = old
    BY <2>2 DEF old
  <2> QED
    BY <2>1, <2>5, <2>6
<1>3. \A s \in Streams \ {is} : HeldOn(s)' = HeldOn(s)
  BY DEF HeldOn, Take, RingTypeOK
<1>4. RingAgrees'
  <2> SUFFICES ASSUME NEW s \in Streams
               PROVE  /\ ~has_new'[s] => current_read'[s] = current_write'[s]
                      /\ HeldOn(s)' \in Seq(Frame)
    BY DEF RingAgrees
  <2>1. ~has_new'[s] => current_read'[s] = current_write'[s]
    BY DEF RingAgrees, RingTypeOK, Take, MoreThanThis
  <2>2. HeldOn(s) \in Seq(Frame)
    BY DEF RingAgrees
  <2>3. CASE s = is
    BY <1>2, <2>1, <2>2, <2>3, TailOfSeq
  <2>4. CASE s # is
    BY <1>3, <2>1, <2>2, <2>4
  <2> QED
    BY <2>3, <2>4
<1>5. Queue!Get(is)
  <2>1. received' = [received EXCEPT ![is] = Head(HeldOn(is))]
    BY <1>2 DEF Take
  <2>2. [s \in Streams |-> HeldOn(s)]' =
           [[s \in Streams |-> HeldOn(s)] EXCEPT ![is] = Tail(HeldOn(is))]
    BY <1>2, <1>3
  <2> QED
    BY <1>2, <2>1, <2>2 DEF Queue!Get
<1> QED
  BY <1>1, <1>4, <1>5

\* A reset empties the queue, whatever the slots still contain.
LEMMA ResetIsClear ==
    ASSUME RingInv, NEW contents \in {Empty, frames}, ResetRing(contents)
    PROVE  RingInv' /\ Queue!Clear
<1> USE DEF RingInv
<1>1. RingTypeOK'
  BY DEF RingTypeOK, ResetRing, Empty, Content, Slots, frame_cache_size
<1>2. \A is \in Streams : HeldOn(is)' = <<>>
  BY NothingHeld DEF HeldOn, ResetRing
<1>3. RingAgrees'
  <2>1. \A is \in Streams : current_read'[is] = current_write'[is]
    BY DEF ResetRing
  <2>2. <<>> \in Seq(Frame)
    OBVIOUS
  <2> QED
    BY <1>2, <2>1, <2>2 DEF RingAgrees
<1>4. Queue!Clear
  BY <1>2 DEF Queue!Clear, ResetRing
<1> QED
  BY <1>1, <1>3, <1>4

LEMMA RingStutters ==
    ASSUME RingInv, UNCHANGED ringVars
    PROVE  RingInv' /\ UNCHANGED Queue!queueVars
BY DEF RingInv, RingTypeOK, RingAgrees, HeldOn, ringVars, Queue!queueVars

LEMMA RingSteps ==
    ASSUME RingInv, [RingNext]_ringVars
    PROVE  RingInv' /\ [Queue!Next]_(Queue!queueVars)
<1>1. CASE \E chosen \in SUBSET Streams, f \in Frame : Store(chosen, f)
  BY <1>1, StoreIsPut DEF Queue!Next
<1>2. CASE \E is \in Streams : has_new[is] /\ Take(is)
  BY <1>2, TakeIsGet DEF Queue!Next
<1>3. CASE \E contents \in {Empty, frames} : ResetRing(contents)
  BY <1>3, ResetIsClear DEF Queue!Next
<1>4. CASE UNCHANGED ringVars
  BY <1>4, RingStutters
<1> QED
  BY <1>1, <1>2, <1>3, <1>4 DEF RingNext

\* The flag and the indices of a ring describe the same frames, however the
\* stores of capture and the fetches of get_frame interleave.
THEOREM RingAlwaysAgrees == RingSpec => [](RingTypeOK /\ RingAgrees)
<1>1. RingInit => RingInv
  BY RingStarts
<1>2. RingInv /\ [RingNext]_ringVars => RingInv'
  BY RingSteps
<1>3. RingInv <=> RingTypeOK /\ RingAgrees
  BY DEF RingInv
<1> QED
  BY <1>1, <1>2, <1>3, PTL DEF RingSpec

\* The ring is a queue that loses four frames at a time: frames are handed out
\* in the order of their capture, none twice.
THEOREM RingIsQueue == RingSpec => FramesInOrder
<1>1. RingInit => Queue!Init
  BY RingStarts
<1>2. RingInv /\ [RingNext]_ringVars => [Queue!Next]_(Queue!queueVars)
  BY RingSteps
<1>3. RingInv <=> RingTypeOK /\ RingAgrees
  BY DEF RingInv
<1> QED
  BY <1>1, <1>2, <1>3, RingAlwaysAgrees, PTL DEF RingSpec, FramesInOrder, Queue!Spec
-----------------------------------------------------------------------------
(* The driver *)

\* Between calls, and in the calls that wait for the thread, the flags, the
\* device and the thread agree; the flag of a ring stays set for get_frame.
DriverAgrees ==
    /\ device_started => attached /\ started /\ thread # "none"
    /\ thread # "none" => attached /\ cameras
    /\ master \in Calls => ~device_started /\ thread # "none"
    /\ master \notin Calls /\ ~device_started => thread = "none" /\ ~cameras
    /\ master = "reading" => device_started /\ has_new[reading]
    /\ has_new_messages => device_error
    /\ thread = "failed" => device_error
    /\ device_error /\ thread # "none" => thread \in {"failed", "ended"}

\* The inductive invariant.
KinectInv == TypeOK /\ RingAgrees /\ DriverAgrees

\* Every step leaves the rings alone, or is a step of theirs.
LEMMA KinectUsesRing ==
    ASSUME TypeOK, DriverAgrees, [Next]_vars
    PROVE  [RingNext]_ringVars
<1>1. ASSUME NEW call \in Calls, ReturnFrom(call)
      PROVE  [RingNext]_ringVars
  BY <1>1 DEF ReturnFrom, NewDriver, RingNext
<1>2. ASSUME NEW call \in Calls, StopDevice(call)
      PROVE  [RingNext]_ringVars
  BY <1>1, <1>2 DEF StopDevice
<1>3. CASE TestRunning \/ CaptureThrows \/ PublishError
  BY <1>3 DEF TestRunning, CaptureThrows, PublishError
<1>4. CASE Capture
  BY <1>4, NumbersAssumption, ConfigurationsAssumption
  DEF Capture, RingNext, TypeOK
<1>5. CASE Attach \/ Detach \/ Stop \/ Destroy
  BY <1>2, <1>5 DEF Attach, Detach, Stop, Destroy, Calls
<1>6. CASE Join
  BY <1>1, <1>6 DEF Join
<1>7. ASSUME NEW is \in Streams, FindFrame(is) \/ CheckErrors(is)
      PROVE  [RingNext]_ringVars
  BY <1>2, <1>7 DEF FindFrame, CheckErrors, Calls
<1>8. CASE TakeFrame
  BY <1>8 DEF TakeFrame, RingNext, TypeOK, DriverAgrees
<1>9. ASSUME NEW streams \in Configurations, Start(streams)
      PROVE  [RingNext]_ringVars
  BY <1>9 DEF Start, Recover, RingNext
<1>10. CASE UNCHANGED vars
  BY <1>10 DEF vars
<1> QED
  BY <1>3, <1>4, <1>5, <1>6, <1>7, <1>8, <1>9, <1>10
  DEF Next, CaptureThread, Application, Poll
-----------------------------------------------------------------------------
LEMMA KinectStarts == Init => KinectInv
<1> SUFFICES ASSUME Init PROVE KinectInv
  OBVIOUS
<1>1. RingInv
  BY RingStarts DEF Init
<1>2. TypeOK
  <2>1. 0 \in 0..(FrameIds - 1)
    BY NumbersAssumption
  <2>2. {FALSE} \subseteq BOOLEAN
    OBVIOUS
  <2> QED
    BY <1>1, <2>1, <2>2 DEF Init, TypeOK, RingInv, Calls
<1>3. DriverAgrees
  BY DEF Init, DriverAgrees, Calls
<1> QED
  BY <1>1, <1>2, <1>3 DEF KinectInv, RingInv

\* The control state has its types after every step.
LEMMA KinectTypes ==
    ASSUME TypeOK, RingTypeOK', [Next]_vars
    PROVE  TypeOK'
<1> DEFINE Control ==
             /\ {started, attached, device_started, device_error, has_new_messages,
                 cameras} \subseteq BOOLEAN
             /\ captured \in 0..(FrameIds - 1)
             /\ active \in Configurations
             /\ thread \in {"none", "test", "capture", "failed", "ended"}
             /\ master \in Calls \cup {"idle", "reading"}
             /\ reading \in Streams
<1> SUFFICES Control'
  BY DEF TypeOK
<1> USE DEF TypeOK, inputVars, errorVars, runVars
<1>1. ASSUME NEW call \in Calls, StopDevice(call)
      PROVE  Control'
  BY <1>1 DEF StopDevice, ReturnFrom, NewDriver
<1>2. CASE TestRunning \/ CaptureThrows \/ PublishError
  BY <1>2 DEF TestRunning, CaptureThrows, PublishError, Message
<1>3. CASE Capture
  BY <1>3, NumbersAssumption DEF Capture
<1>4. CASE Attach \/ Detach \/ Stop \/ Destroy
  <2>1. {"stop", "detach", "attach", "destroy"} \subseteq Calls
    BY DEF Calls
  <2> QED
    BY <1>1, <1>4, <2>1 DEF Attach, Detach, Stop, Destroy
<1>5. CASE Join
  BY <1>5 DEF Join, JoinThread, StopCameras, ReturnFrom, NewDriver
<1>6. ASSUME NEW is \in Streams, FindFrame(is) \/ CheckErrors(is)
      PROVE  Control'
  <2>1. "check_errors" \in Calls
    BY DEF Calls
  <2> QED
    BY <1>1, <1>6, <2>1 DEF FindFrame, CheckErrors
<1>7. CASE TakeFrame
  BY <1>7 DEF TakeFrame
<1>8. ASSUME NEW streams \in Configurations, Start(streams)
      PROVE  Control'
  <2>1. 0 \in 0..(FrameIds - 1)
    BY NumbersAssumption
  <2>2. captured' \in 0..(FrameIds - 1) /\ active' \in Configurations
    BY <1>8, <2>1 DEF Start
  <2>3. attached' \in BOOLEAN /\ device_error' \in BOOLEAN /\ has_new_messages' \in BOOLEAN
    BY <1>8 DEF Start, Recover
  <2>4. started' \in BOOLEAN /\ cameras' = started' /\ device_started' = started'
    BY <1>8 DEF Start
  <2>5. thread' \in {thread, "test"} /\ master' = master /\ reading' = reading
    BY <1>8 DEF Start
  <2> QED
    BY <2>2, <2>3, <2>4, <2>5
<1>9. CASE UNCHANGED vars
  BY <1>9 DEF vars
<1> QED
  BY <1>2, <1>3, <1>4, <1>5, <1>6, <1>7, <1>8, <1>9
  DEF Next, CaptureThread, Application, Poll

\* The flags, the thread and the device agree after every step.
LEMMA KinectControl ==
    ASSUME TypeOK, DriverAgrees, [Next]_vars
    PROVE  DriverAgrees'
<1> USE DEF TypeOK, DriverAgrees, inputVars, errorVars, runVars, ringVars
<1>1. ASSUME NEW call \in Calls, StopDevice(call)
      PROVE  DriverAgrees'
  BY <1>1 DEF StopDevice, ReturnFrom, NewDriver, Calls
<1>2. CASE TestRunning \/ CaptureThrows \/ PublishError
  BY <1>2 DEF TestRunning, IsRunning, CaptureThrows, PublishError, Message, Calls
<1>3. CASE Capture
  <2>1. master = "reading" => has_new'[reading]
    BY <1>3 DEF Capture, Store, RingTypeOK
  <2> QED
    BY <1>3, <2>1 DEF Capture, Calls
<1>4. CASE Attach \/ Detach \/ Stop \/ Destroy
  <2>1. {"stop", "detach", "attach", "destroy"} \subseteq Calls
    BY DEF Calls
  <2> QED
    BY <1>1, <1>4, <2>1 DEF Attach, Detach, Stop, Destroy
<1>5. CASE Join
  <2>1. thread' = "none" /\ cameras' = FALSE /\ device_started' = FALSE /\ master' = "idle"
    BY <1>5 DEF Join, JoinThread, StopCameras
  <2>2. has_new_messages' => device_error'
    <3>1. \/ device_error' = device_error /\ has_new_messages' = has_new_messages
          \/ device_error' = FALSE /\ has_new_messages' = FALSE
      BY <1>5 DEF Join, ReturnFrom, NewDriver
    <3> QED
      BY <3>1
  <2> QED
    BY <2>1, <2>2 DEF Calls
<1>6. ASSUME NEW is \in Streams, FindFrame(is) \/ CheckErrors(is)
      PROVE  DriverAgrees'
  <2>1. CASE FindFrame(is)
    BY <2>1 DEF FindFrame, Calls
  <2>2. CASE CheckErrors(is)
    <3>1. "check_errors" \in Calls
      BY DEF Calls
    <3> QED
      BY <1>1, <2>2, <3>1 DEF CheckErrors
  <2> QED
    BY <1>6, <2>1, <2>2
<1>7. CASE TakeFrame
  BY <1>7 DEF TakeFrame, Calls
<1>8. ASSUME NEW streams \in Configurations, Start(streams)
      PROVE  DriverAgrees'
  BY <1>8 DEF Start, Recover, Calls
<1>9. CASE UNCHANGED vars
  BY <1>9 DEF vars
<1> QED
  BY <1>2, <1>3, <1>4, <1>5, <1>6, <1>7, <1>8, <1>9
  DEF Next, CaptureThread, Application, Poll

LEMMA KinectSteps == KinectInv /\ [Next]_vars => KinectInv'
<1> SUFFICES ASSUME KinectInv, [Next]_vars PROVE KinectInv'
  OBVIOUS
<1>1. RingInv
  BY DEF KinectInv, RingInv, TypeOK
<1>2. RingInv'
  BY <1>1, KinectUsesRing, RingSteps DEF KinectInv
<1> QED
  BY <1>2, KinectTypes, KinectControl DEF KinectInv, RingInv

\* The driver's invariant: its state has its types, each ring's flag and
\* indices agree, and so do the flags, the capture thread and the device.
THEOREM KinectInvariant == Spec => [](TypeOK /\ RingAgrees /\ DriverAgrees)
BY KinectStarts, KinectSteps, PTL DEF Spec, KinectInv

\* The capture thread uses the device only while its cameras run, although
\* the application closes the device at any time.
THEOREM CaptureAlwaysHasCameras == Spec => []CaptureHasCameras
<1>1. DriverAgrees => CaptureHasCameras
  BY DEF DriverAgrees, CaptureHasCameras
<1> QED
  BY <1>1, KinectInvariant, PTL

\* A run of the device has its own thread, its own cameras and its own error:
\* nothing of a former run is left when start_device begins.
THEOREM RunsAreSeparate == Spec => [](StoppedIsOff /\ ErrorIsOfThisRun)
<1>1. TypeOK /\ DriverAgrees => StoppedIsOff /\ ErrorIsOfThisRun
  BY DEF TypeOK, DriverAgrees, StoppedIsOff, ErrorIsOfThisRun, Calls
<1> QED
  BY <1>1, KinectInvariant, PTL

\* get_frame hands out the frames of each stream in the order of their capture
\* and none twice: the driver implements a queue that loses four frames at a time.
THEOREM KinectIsQueue == Spec => FramesInOrder
<1>1. Init => RingInit
  BY DEF Init
<1>2. TypeOK /\ RingAgrees /\ DriverAgrees /\ [Next]_vars => [RingNext]_ringVars
  BY KinectUsesRing
<1>3. Spec => RingSpec
  BY <1>1, <1>2, KinectInvariant, PTL DEF Spec, RingSpec
<1> QED
  BY <1>3, RingIsQueue
=============================================================================
